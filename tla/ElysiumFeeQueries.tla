------------------------- MODULE ElysiumFeeQueries --------------------------
(***************************************************************************)
(* The rows returned by elysium_getfeetrigger and elysium_getfeecache      *)
(* (src/elysium/rpc.cpp): both walk the property identifiers of the main   *)
(* ecosystem (from 1) and of the test ecosystem (from TEST_ECO_PROPERTY_1) *)
(* up to the next identifier each ecosystem would assign, and keep the     *)
(* requested one, or all of them when none is requested (0).  The cache   *)
(* query drops properties with nothing cached "unless the call            *)
(* specifically requested this property".  A request for a property that  *)
(* does not exist is refused by RequireExistingProperty before any row.   *)
(* Amounts are abstracted to zero / non-zero; formatting is left out.      *)
(***************************************************************************)
EXTENDS Integers, SequencesExt

CONSTANTS
    TestEco1,   \* TEST_ECO_PROPERTY_1: first identifier of the test ecosystem
    MaxSP       \* bound on the number of properties per ecosystem

ASSUME TestEco1 \in Nat \ {0} /\ MaxSP \in Nat /\ MaxSP < TestEco1

\* First identifier of each ecosystem (1 main, 2 test).
StartId(eco) == IF eco = 1 THEN 1 ELSE TestEco1

VARIABLES
    nextSP,   \* nextSP[eco]: _my_sps->peekNextSPID(eco)
    cache,    \* cache[p]: p_feecache->GetCachedAmount(p) # 0
    req       \* the propertyid parameter, 0 when absent

\* The identifiers the two loops visit, in visiting order.
IdSeq(eco) == [i \in 1..(nextSP[eco] - StartId(eco)) |-> StartId(eco) + i - 1]
Visited == IdSeq(1) \o IdSeq(2)
Existing == ToSet(Visited)

\* elysium_getfeetrigger: one row per visited property the filter keeps.
FeeTriggerRows(r) == SelectSeq(Visited, LAMBDA p : r = 0 \/ r = p)

\* Mutant: empty entries are dropped even when explicitly requested.
KeepCachedAlways(r, p) == (r = 0 \/ r = p) /\ cache[p]

\* elysium_getfeecache: the filter of the loop body.
KeepCached(r, p) == (r = 0 \/ r = p) /\ (cache[p] \/ r = p)

FeeCacheRows(r) == SelectSeq(Visited, LAMBDA p : KeepCached(r, p))

vars == <<nextSP, cache, req>>

Init ==
    /\ \E a \in 1..(1 + MaxSP), b \in TestEco1..(TestEco1 + MaxSP) :
          nextSP = [eco \in {1, 2} |-> IF eco = 1 THEN a ELSE b]
    /\ cache \in [Existing -> BOOLEAN]
    /\ req \in {0} \cup Existing

\* The queries change nothing: every input is its own behaviour.
Next == UNCHANGED vars

Spec == Init /\ [][Next]_vars

\* What the help texts promise: a request for one existing property gets
\* exactly that property's row (its cache row even when nothing is cached);
\* a request for all gets every property in ascending identifier order,
\* the cache query only those with fees cached.
FeeQueriesMatchReference ==
    /\ FeeTriggerRows(req) = IF req = 0 THEN SetToSortSeq(Existing, <) ELSE <<req>>
    /\ FeeCacheRows(req) =
          IF req = 0 THEN SetToSortSeq({p \in Existing : cache[p]}, <) ELSE <<req>>
=============================================================================
