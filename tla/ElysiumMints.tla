---------------------------- MODULE ElysiumMints -----------------------------
(***************************************************************************)
(* elysium_listmints and elysium_listpendingmints (src/elysium/rpc.cpp).   *)
(* Both walk the wallet's sigma mints (ListSigmaMintsV1, in wallet order), *)
(* keep some of them, and convert the kept ones with SigmaMintToJson,      *)
(* which throws when the mint's property is unknown to the property        *)
(* database or its denomination is not one of the property's: one bad     *)
(* mint fails the whole call.  The wallet and the property database are   *)
(* not under src/: a mint is its property, denomination and the two flags  *)
(* IsSpent() and IsOnChain(); the database is the number of denominations *)
(* of each known property.                                                 *)
(***************************************************************************)
EXTENDS Integers, SequencesExt

CONSTANTS
    Properties,  \* property ids a mint or a filter may name
    MaxDenoms,   \* bound on the denominations of a property
    MaxMints     \* bound on the mints in the wallet

None == 0
Failed == "error"
Denoms == 0..MaxDenoms
Mint == [property : Properties, denomination : Denoms,
         spent : BOOLEAN, onChain : BOOLEAN]

VARIABLES
    wallet,  \* the wallet's mints, in the order ListSigmaMintsV1 gives them
    sps      \* sps[p]: number of denominations of p; None when p is unknown

vars == <<wallet, sps>>

\* The arguments of listmints: propertyid, then denomination (which the
\* handler only accepts with a property before it).
Filters == [property : {None}, denomination : {None}]
           \cup [property : Properties, denomination : {None}]
           \cup [property : Properties, denomination : Denoms]

\* RequireExistingProperty and RequireExistingDenomination: a filter naming
\* an unknown property or denomination is refused before the wallet is read.
FilterRefused(f) ==
    \/ f.property # None /\ sps[f.property] = None
    \/ f.denomination # None /\ f.denomination >= sps[f.property]

\* SigmaMintToJson: getSP fails, or denomination >= denominations.size().
Convertible(m) ==
    /\ sps[m.property] # None
    /\ m.denomination < sps[m.property]

\* SigmaMintsToJson: a reply of the kept mints' indices, or a failure when
\* any one of them cannot be converted.
ToJson(kept) ==
    IF \A k \in 1..Len(kept) : Convertible(wallet[kept[k]]) THEN kept
    ELSE Failed

\* Mutant: the property filter is only applied together with a denomination.
ListedPropertyWithDenom(m, f) ==
    /\ ~m.spent /\ m.onChain
    /\ f.denomination # None => m.property = f.property
    /\ f.denomination # None => m.denomination = f.denomination

\* Mutant: spent mints are not skipped.
ListedSpentKept(m, f) ==
    /\ m.onChain
    /\ f.property # None => m.property = f.property
    /\ f.denomination # None => m.denomination = f.denomination

\* The callback of listmints: skip spent or not yet mined mints, then those
\* of another property, then those of another denomination.
Listed(m, f) ==
    /\ ~m.spent /\ m.onChain
    /\ f.property # None => m.property = f.property
    /\ f.denomination # None => m.denomination = f.denomination

Indices == [i \in 1..Len(wallet) |-> i]

ListMints(f) ==
    IF FilterRefused(f) THEN Failed
    ELSE ToJson(SelectSeq(Indices, LAMBDA i : Listed(wallet[i], f)))

\* The callback of listpendingmints: keep the mints not yet on chain.
ListPendingMints ==
    ToJson(SelectSeq(Indices, LAMBDA i : ~wallet[i].onChain))

Init ==
    /\ wallet \in UNION {[1..n -> Mint] : n \in 0..MaxMints}
    /\ sps \in [Properties -> {None} \cup 1..MaxDenoms]

Next == UNCHANGED vars

Spec == Init /\ [][Next]_vars

-----------------------------------------------------------------------------
NoFilter == [property |-> None, denomination |-> None]

\* listmints with no filter and listpendingmints, when both answer, list
\* every mint of the wallet once, except the spent mints already mined,
\* which neither lists: none is lost between the two and none is in both.
MintsPartitionWallet ==
    LET listed  == ListMints(NoFilter)
        pending == ListPendingMints
    IN  listed # Failed /\ pending # Failed =>
        \A i \in 1..Len(wallet) :
            Cardinality({k \in 1..Len(listed) : listed[k] = i})
              + Cardinality({k \in 1..Len(pending) : pending[k] = i})
            = IF wallet[i].spent /\ wallet[i].onChain THEN 0 ELSE 1

\* A filtered listmints answers with exactly the unfiltered reply's mints
\* that match the filter, in the same order, whenever both answer.
FilterNarrowsListing ==
    \A f \in Filters :
        LET all == ListMints(NoFilter)
            sub == ListMints(f)
        IN  all # Failed /\ sub # Failed =>
            sub = SelectSeq(all, LAMBDA i :
                    /\ f.property # None => wallet[i].property = f.property
                    /\ f.denomination # None => wallet[i].denomination = f.denomination)
=============================================================================
