------------------------- MODULE ElysiumProperties ---------------------------
(***************************************************************************)
(* elysium_listproperties and elysium_getactivecrowdsales                  *)
(* (src/elysium/rpc.cpp) over one property database.  listproperties walks *)
(* the identifiers of the main ecosystem (from 1) and of the test          *)
(* ecosystem (from TEST_ECO_PROPERTY_1) below the next identifier each     *)
(* would assign, and lists those getSP finds.  getactivecrowdsales walks   *)
(* the crowdsale map (keyed by issuer address, so in address order), skips *)
(* a crowdsale whose property getSP does not find, and fails the whole     *)
(* call when the creation transaction of one it keeps is unavailable.      *)
(* The database, the crowdsale map and GetTransaction are not under src/:  *)
(* getSP succeeds on a set of identifiers, a crowdsale is the identifier   *)
(* of the property it issues, and GetTransaction succeeds or not per       *)
(* property.  The start time and the formatted fields are left out.        *)
(***************************************************************************)
EXTENDS Integers, SequencesExt

CONSTANTS
    TestEco1,   \* TEST_ECO_PROPERTY_1
    MaxSP       \* bound on the number of properties per ecosystem

ASSUME TestEco1 \in Nat \ {0} /\ MaxSP \in Nat /\ MaxSP < TestEco1

\* First identifier of each ecosystem (1 main, 2 test).
FirstId(eco) == IF eco = 1 THEN 1 ELSE TestEco1

VARIABLES
    nextId,   \* nextId[eco]: _my_sps->peekNextSPID(eco)
    known,    \* the identifiers getSP finds
    crowds,   \* the crowdsales' property identifiers, in my_crowds order
    txFound   \* txFound[p]: GetTransaction finds p's creation transaction

vars == <<nextId, known, crowds, txFound>>

\* The identifiers one loop of listproperties visits, in order.
LoopIds(eco) == [i \in 1..(nextId[eco] - FirstId(eco)) |-> FirstId(eco) + i - 1]
AllIds == ToSet(LoopIds(1) \o LoopIds(2))

\* Mutant: the test-ecosystem loop starts from 1, like the main one.
ListPropertiesTestFromOne ==
    SelectSeq(LoopIds(1), LAMBDA p : p \in known)
      \o SelectSeq([i \in 1..(nextId[2] - 1) |-> i], LAMBDA p : p \in known)

\* elysium_listproperties: the ids of the two loops whose getSP succeeds.
ListProperties ==
    SelectSeq(LoopIds(1), LAMBDA p : p \in known)
      \o SelectSeq(LoopIds(2), LAMBDA p : p \in known)

\* The crowdsales the loop reaches the end of the body for.
ActiveCrowdsales == SelectSeq(crowds, LAMBDA p : p \in known)

\* Mutant: a crowdsale whose property is not found fails the call.
ActiveCrowdsalesFailStrict ==
    \E i \in 1..Len(crowds) : crowds[i] \notin known \/ ~txFound[crowds[i]]

\* elysium_getactivecrowdsales throws when the creation transaction of a
\* crowdsale it did not skip is not found.
ActiveCrowdsalesFail ==
    \E i \in 1..Len(ActiveCrowdsales) : ~txFound[ActiveCrowdsales[i]]

Init ==
    /\ \E a \in 1..(1 + MaxSP), b \in TestEco1..(TestEco1 + MaxSP) :
          nextId = [eco \in {1, 2} |-> IF eco = 1 THEN a ELSE b]
    /\ known \in SUBSET AllIds
    /\ crowds \in {s \in UNION {[1..n -> AllIds] : n \in 0..2} : IsInjective(s)}
    /\ txFound \in [AllIds -> BOOLEAN]

Next == UNCHANGED vars

Spec == Init /\ [][Next]_vars

-----------------------------------------------------------------------------
\* listproperties lists each property getSP finds exactly once, in
\* ascending identifier order (main ecosystem first, whose identifiers are
\* all smaller); and getactivecrowdsales, when it answers, lists exactly
\* the crowdsales whose property listproperties lists, in map order, and
\* fails only because a listed crowdsale's creation transaction is missing.
PropertyListingsAgree ==
    LET listed == ToSet(ListProperties) IN
    /\ ListProperties = SetToSortSeq(known, <)
    /\ ~ActiveCrowdsalesFail =>
          ActiveCrowdsales = SelectSeq(crowds, LAMBDA p : p \in listed)
    /\ ActiveCrowdsalesFail <=> \E p \in listed : p \in ToSet(crowds) /\ ~txFound[p]
=============================================================================
