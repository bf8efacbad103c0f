----------------------- MODULE ElysiumFeeDistributions ------------------------
(***************************************************************************)
(* elysium_getfeedistribution and elysium_getfeedistributions              *)
(* (src/elysium/rpc.cpp).  The first looks one distribution up by id and   *)
(* throws when GetDistributionData does not find it; the second walks the *)
(* ids GetDistributionsForProperty gives (a std::set<int>, so ascending)   *)
(* and skips, with a log line, an id whose data is not found.  Both build  *)
(* the same object from the data and the recipients.  The fee history      *)
(* (p_feehistory) is not under src/: its index per property and its data   *)
(* per id are independent inputs, since the code does not assume they     *)
(* agree.  Block, amount formatting and divisibility are copied the same  *)
(* way in both handlers and are left out; a recipient set keeps its own   *)
(* order in both.                                                          *)
(***************************************************************************)
EXTENDS Integers, SequencesExt

CONSTANTS
    Properties,  \* property ids a distribution may be of
    MaxDist      \* distribution ids are 1..MaxDist

DistIds == 1..MaxDist
Recipients == {1, 2} \X {1}   \* (address, amount) pairs

VARIABLES
    feeData,        \* GetDistributionData: the property of each id it finds
    feeRecipients,  \* GetFeeDistribution: the recipients of each id
    feeIndex,       \* GetDistributionsForProperty: the ids of each property
    distributionId, \* the argument of getfeedistribution
    propertyId      \* the argument of getfeedistributions, an existing
                    \* property (RequireExistingProperty refuses others)

vars == <<feeData, feeRecipients, feeIndex, distributionId, propertyId>>

\* The object both handlers push for id; propertyId stays 0 when the data
\* is not found.
DistributionObj(id) ==
    [distributionid |-> id,
     propertyid |-> IF id \in DOMAIN feeData THEN feeData[id] ELSE 0,
     recipients |-> feeRecipients[id]]

\* getfeedistribution throws "Fee distribution ID does not exist".
Refused(id) == id \notin DOMAIN feeData

\* The listing loop's test before it builds the object (the continue).
ListingKeeps(id) == id \in DOMAIN feeData

\* The reply of getfeedistributions for propertyId.
GetFeeDistributions ==
    LET kept == SelectSeq(SetToSortSeq(feeIndex[propertyId], <), ListingKeeps)
    IN [i \in 1..Len(kept) |-> DistributionObj(kept[i])]

Init ==
    /\ feeData \in UNION {[S -> Properties] : S \in SUBSET DistIds}
    /\ feeRecipients \in [DistIds -> SUBSET Recipients]
    /\ feeIndex \in [Properties -> SUBSET DistIds]
    /\ distributionId \in DistIds \cup {MaxDist + 1}
    /\ propertyId \in Properties

Next == UNCHANGED vars

Spec == Init /\ [][Next]_vars

=============================================================================
