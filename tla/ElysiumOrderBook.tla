-------------------------- MODULE ElysiumOrderBook ----------------------------
(***************************************************************************)
(* elysium_getorderbook and MetaDexObjectsToJSON (src/elysium/rpc.cpp).    *)
(* The handler refuses a property that does not exist and, with a second   *)
(* argument, a desired property that does not exist, is of the other       *)
(* ecosystem or is the same; under cs_main it copies every offer of the    *)
(* metadex whose property for sale matches (and whose desired property     *)
(* matches, when given); MetaDexObjectsToJSON sorts the copy by block and  *)
(* position in block.  The metadex and MetaDEx_compare are not under src/: *)
(* an offer is its pair of properties at a (block, position) slot, which   *)
(* identifies its transaction; the map's own order only decides the order *)
(* before the sort and is left out.  Amounts, prices and formatting are    *)
(* left out.                                                               *)
(***************************************************************************)
EXTENDS Integers, SequencesExt

CONSTANTS
    MainProps,   \* existing properties of the main ecosystem
    TestProps,   \* existing properties of the test ecosystem
    Missing,     \* an identifier no property has
    Blocks,      \* block heights offers may be in
    Positions    \* positions in a block

Failed == "error"
None == 0
Props == MainProps \cup TestProps
Slots == Blocks \X Positions
SameEcosystem(p, q) == (p \in MainProps) = (q \in MainProps)
Pairs == {pq \in Props \X Props : pq[1] # pq[2] /\ SameEcosystem(pq[1], pq[2])}

VARIABLES
    book,      \* book[s]: the <<for sale, desired>> pair of the offer at slot s
    forSale,   \* the first argument
    desired    \* the second argument, None when absent

vars == <<book, forSale, desired>>

\* The RequireExistingProperty, RequireSameEcosystem, RequireDifferentIds
\* checks of the arguments.
Refused ==
    \/ forSale \notin Props
    \/ desired # None /\ (desired \notin Props \/ ~SameEcosystem(forSale, desired)
                          \/ desired = forSale)

\* Mutant: with a desired property the property for sale is not compared.
MatchesDesiredOnly(s) ==
    IF desired # None THEN book[s][2] = desired ELSE book[s][1] = forSale

\* The two tests of the copying loop.
Matches(s) ==
    /\ book[s][1] = forSale
    /\ desired = None \/ book[s][2] = desired

\* MetaDEx_compare: by block, then by position in block.
SlotBefore(s, t) == s[1] < t[1] \/ (s[1] = t[1] /\ s[2] < t[2])

\* The reply: the matching offers' slots in sorted order, or the refusal.
GetOrderBook ==
    IF Refused THEN Failed
    ELSE SetToSortSeq({s \in DOMAIN book : Matches(s)}, SlotBefore)

Init ==
    /\ book \in UNION {[S -> Pairs] : S \in SUBSET Slots}
    /\ forSale \in Props \cup {Missing}
    /\ desired \in {None, Missing} \cup Props

Next == UNCHANGED vars

Spec == Init /\ [][Next]_vars

-----------------------------------------------------------------------------
\* The reply of getorderbook for forSale alone (the handler with one
\* argument), computed over the same book.
Unfiltered == SetToSortSeq({s \in DOMAIN book : book[s][1] = forSale}, SlotBefore)

\* A getorderbook for a pair answers with exactly the offers of the
\* one-argument reply that desire the second property, in the same order;
\* every offer in the book is in the one-argument reply of its property.
OrderBookNarrows ==
    /\ GetOrderBook # Failed /\ desired # None =>
          GetOrderBook = SelectSeq(Unfiltered, LAMBDA s : book[s][2] = desired)
    /\ \A s \in DOMAIN book :
          forSale = book[s][1] => s \in ToSet(Unfiltered)
=============================================================================
