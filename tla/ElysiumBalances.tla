--------------------------- MODULE ElysiumBalances ---------------------------
(***************************************************************************)
(* elysium_getbalance, elysium_getallbalancesforid and                     *)
(* elysium_getallbalancesforaddress (src/elysium/rpc.cpp), which all build *)
(* their rows with BalanceToJSON.  The tally map (mp_tally_map) is not     *)
(* under src/: an address has a tally or not; a tally lists the properties *)
(* the address has transacted in (the order next() walks them in) and,     *)
(* for each, its available balance and the sum of its three reserves,      *)
(* each abstracted to zero or non-zero.  Frozen amounts only add a field   *)
(* to a row and are left out.  Every property is taken to exist.           *)
(***************************************************************************)
EXTENDS Integers, SequencesExt

CONSTANTS
    Addresses,   \* the addresses the tally map may hold
    Properties   \* property identifiers (all existing)

Balance == [available : 0..1, reserved : 0..1]
Zero == [available |-> 0, reserved |-> 0]

VARIABLES
    tallied,  \* the addresses with a CMPTally in mp_tally_map
    props,    \* props[a]: the tally's properties, in next() order
    balance   \* balance[a][p]: getUserAvailableMPbalance and reserves

vars == <<tallied, props, balance>>

\* getMPbalance and friends: zero for a property the tally never held.
BalanceOf(a, p) ==
    IF a \in tallied /\ p \in ToSet(props[a]) THEN balance[a][p] ELSE Zero

\* Mutant: the non-empty test reads the available balance alone.
NonEmptyAvailableOnly(a, p) == BalanceOf(a, p).available # 0

\* BalanceToJSON's result: false when both available and reserved are 0.
NonEmptyBalance(a, p) ==
    BalanceOf(a, p).available # 0 \/ BalanceOf(a, p).reserved # 0

\* The tally's init()/next() loop stops at the first match of propertyId.
HasTransacted(a, p) == \E i \in 1..Len(props[a]) : props[a][i] = p

\* getallbalancesforid: addresses of the tally map (unordered_map order,
\* here any order) that transacted in p, kept when non-empty.
AllBalancesForId(p) ==
    {a \in tallied : HasTransacted(a, p) /\ NonEmptyBalance(a, p)}

\* getallbalancesforaddress: "Address not found" without a tally; else the
\* tally's properties in next() order, kept when non-empty.
AllBalancesForAddress(a) ==
    IF a \notin tallied THEN "Address not found"
    ELSE SelectSeq(props[a], LAMBDA p : NonEmptyBalance(a, p))

\* getbalance: the row whatever BalanceToJSON returned.
GetBalance(a, p) == BalanceOf(a, p)

\* A tally's properties: distinct, each with a balance.
TallyContents ==
    UNION {{<<s, b>> : b \in [ToSet(s) -> Balance]} :
           s \in {s \in UNION {[1..n -> Properties] : n \in 0..Cardinality(Properties)} :
                     IsInjective(s)}}

Init ==
    /\ tallied \in SUBSET Addresses
    /\ \E t \in [tallied -> TallyContents] :
          /\ props = [a \in tallied |-> t[a][1]]
          /\ balance = [a \in tallied |-> t[a][2]]

Next == UNCHANGED vars

Spec == Init /\ [][Next]_vars

\* The two listings are views of one tally map: an address is listed for
\* a property exactly when that property is listed for the address, and
\* getbalance then shows a non-zero balance or reserve.
BalanceListingsAgree ==
    \A a \in Addresses, p \in Properties :
        LET byAddr == AllBalancesForAddress(a) IN
        (a \in AllBalancesForId(p))
            = (byAddr # "Address not found" /\ p \in ToSet(byAddr))
        /\ (a \in AllBalancesForId(p)) = (GetBalance(a, p) # Zero)
=============================================================================
