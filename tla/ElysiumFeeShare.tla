--------------------------- MODULE ElysiumFeeShare ---------------------------
(***************************************************************************)
(* elysium_getfeeshare (src/elysium/rpc.cpp).  The receivers of a fee      *)
(* distribution of the chosen ecosystem (STO_GetReceivers, not under       *)
(* src/) are a set of (share, address) pairs ordered by share, then by     *)
(* address; the handler walks it from the end (largest share first) and   *)
(* keeps the wallet's own addresses when no address is given (or an empty *)
(* one), every address for "*", and the given address otherwise.  The      *)
(* share's "%.4f%%" text is left out; addresses are numbers so that they   *)
(* have an order.                                                          *)
(***************************************************************************)
EXTENDS Integers, SequencesExt

CONSTANTS
    Addrs,     \* addresses (positive numbers)
    MaxShare   \* bound on a share

\* The two address arguments that are not an address: "*" and "" (or none).
Wildcard == -1
Empty == 0

VARIABLES
    receivers,  \* receivers[eco]: the (share, address) pairs of STO_GetReceivers
    mine,       \* the addresses IsMyAddress accepts
    address,    \* the address argument after parsing: Empty, Wildcard or one
    ecosystem   \* the ecosystem argument (1 by default)

vars == <<receivers, mine, address, ecosystem>>

\* The order of OwnerAddrType: by share, then by address.
PairLess(x, y) == x[1] < y[1] \/ (x[1] = y[1] /\ x[2] < y[2])

\* The loop's test on one receiver.
AddObj(a) ==
    IF address = Empty THEN a \in mine
    ELSE address = a \/ address = Wildcard

\* Mutant: the set is walked from the beginning.
GetFeeShareForward ==
    SelectSeq(SetToSortSeq(receivers[ecosystem], PairLess), LAMBDA r : AddObj(r[2]))

\* The reply: the kept receivers from rbegin() to rend().
GetFeeShare ==
    SelectSeq(Reverse(SetToSortSeq(receivers[ecosystem], PairLess)),
              LAMBDA r : AddObj(r[2]))

\* STO_GetReceivers gives one share per address.
ReceiverSets ==
    {R \in SUBSET ((1..MaxShare) \X Addrs) :
        \A x, y \in R : x[2] = y[2] => x = y}

Init ==
    /\ receivers \in [{1, 2} -> ReceiverSets]
    /\ mine \in SUBSET Addrs
    /\ address \in {Empty, Wildcard} \cup Addrs
    /\ ecosystem \in {1, 2}

Next == UNCHANGED vars

Spec == Init /\ [][Next]_vars

-----------------------------------------------------------------------------
\* getfeeshare lists the receivers of the requested ecosystem from the
\* largest share down, each once: for "*" all of them, for the wallet its
\* own addresses, for one address at most its one row.
FeeShareLargestFirst ==
    LET reply == GetFeeShare IN
    /\ \A i \in 1..(Len(reply) - 1) : PairLess(reply[i + 1], reply[i])
    /\ ToSet(reply) = {r \in receivers[ecosystem] :
                          CASE address = Wildcard -> TRUE
                            [] address = Empty    -> r[2] \in mine
                            [] OTHER              -> r[2] = address}
=============================================================================
