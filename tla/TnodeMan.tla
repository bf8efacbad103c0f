------------------------------ MODULE TnodeMan ------------------------------
(***************************************************************************)
(* The tnode registry (mnodeman) of one full node, as the rest of the      *)
(* repository uses it: the map of known tnodes keyed by collateral         *)
(* outpoint, the seen-set of broadcasts, and the inbound gossip path that  *)
(* validates announcements (CTnodeBroadcast) and heartbeats (CTnodePing).  *)
(* The manager itself is not under src/: its operations are modelled from  *)
(* spec.md sections 3, 4.1-4.3, 5 and 7.  The RPC layer of                 *)
(* src/rpc/rpctnode.cpp calls UpdateTnodeList, CheckMnbAndUpdateTnodeList  *)
(* and RelayTNode defined here (module TnodeRpc).                          *)
(*                                                                         *)
(* Data is abstracted to what the properties tell apart: a signature is a  *)
(* boolean "verifies", a block hash is the height it names, a protocol     *)
(* version is "meets the minimum" or not.                                  *)
(***************************************************************************)
EXTENDS Integers, FiniteSets, Functions

CONSTANTS
    Outpoints,      \* collateral outpoints (model values): a tnode's identity
    OutdatedOps,    \* outpoints whose operators run a protocol below the minimum
    MaxTime,        \* bound on the adjusted clock and on signature times
    MaxHeight,      \* bound on the chain height
    Skew,           \* tolerated clock skew of a signed time into the future
    PingWindow,     \* a ping's block must be among the last PingWindow blocks
    ExpireTime,     \* W1: a tnode is ENABLED while seen within ExpireTime
    Retention,      \* records unseen for longer than Retention are pruned
    SeenRetention,  \* seen-set entries older than SeenRetention are forgotten
    PoSeBanScore,   \* proof-of-service score at which a tnode is banned
    ForgeryPenalty  \* score added for a message whose signature fails

ASSUME /\ OutdatedOps \subseteq Outpoints
       /\ \A c \in {MaxTime, PingWindow, ExpireTime, Retention,
                    SeenRetention, PoSeBanScore, ForgeryPenalty} : c \in Nat \ {0}
       /\ Skew \in Nat /\ MaxHeight \in Nat

Times   == 1..MaxTime
Heights == 0..MaxHeight
Scores  == 0..PoSeBanScore

\* A broadcast (announcement) and a ping as the wire carries them.
Mnb == [op : Outpoints, sigTime : Times, sigOk : BOOLEAN, proto : BOOLEAN]
Mnp == [op : Outpoints, sigTime : Times, sigOk : BOOLEAN, block : Heights]

\* A registry entry (CTnode): the accepted broadcast's fields, the last
\* accepted ping (pingTime = 0: none yet) and the proof-of-service score.
Record == [sigTime : Times, sigOk : BOOLEAN, proto : BOOLEAN,
           pingTime : 0..MaxTime, pingBlock : Heights, pose : Scores]

\* Chain view of a collateral output (Chain collaborator, CollateralStatus).
UtxoStates == {"immature", "mature", "spent"}

VARIABLES
    now,        \* adjusted network time
    height,     \* chain tip height
    utxo,       \* utxo[o]: state of the collateral output o on chain
    mnodes,     \* the registry: a function on the outpoints it knows
    seenMnb,    \* mapSeenTnodeBroadcast: <<op, sigTime>> pairs already seen
    netMnb,     \* broadcasts ever delivered to this node by peers
    netMnp,     \* pings ever delivered to this node by peers
    relays,     \* relays[<<o, t>>]: times this node relayed broadcast <<o, t>>
    accepted,   \* history: accepted[o] = sigTimes accepted since o's record was created
    acceptedLog \* history: every <<o, t>> ever applied to the registry

manVars == <<now, height, utxo, mnodes, seenMnb, netMnb, netMnp, relays,
             accepted, acceptedLog>>

Key(m) == <<m.op, m.sigTime>>

TypeOK ==
    /\ now \in Times
    /\ height \in Heights
    /\ utxo \in [Outpoints -> UtxoStates]
    /\ DOMAIN mnodes \subseteq Outpoints
    /\ \A o \in DOMAIN mnodes : mnodes[o] \in Record
    /\ seenMnb \subseteq Outpoints \X Times
    /\ netMnb \subseteq Mnb
    /\ netMnp \subseteq Mnp
    /\ relays \in [Outpoints \X Times -> Nat]
    /\ accepted \in [Outpoints -> SUBSET Times]
    /\ acceptedLog \subseteq Outpoints \X Times

-----------------------------------------------------------------------------
(* Derived state (spec 4.1): recomputed on every read, never stored.       *)

LastSeen(o) == IF mnodes[o].pingTime > mnodes[o].sigTime
               THEN mnodes[o].pingTime ELSE mnodes[o].sigTime

Status(o) ==
    CASE utxo[o] = "spent"                  -> "OUTPOINT_SPENT"
      [] mnodes[o].pose >= PoSeBanScore     -> "POSE_BAN"
      [] ~mnodes[o].proto                   -> "UPDATE_REQUIRED"
      [] now - LastSeen(o) > ExpireTime     -> "EXPIRED"
      [] mnodes[o].pingTime = 0             -> "PRE_ENABLED"
      [] OTHER                              -> "ENABLED"

IsEnabled(o) == o \in DOMAIN mnodes /\ Status(o) = "ENABLED"

\* The registry with o's entry set to r (added or replaced).
SetRecord(o, r) == [x \in DOMAIN mnodes \cup {o} |-> IF x = o THEN r ELSE mnodes[x]]

NewRecord(m) == [sigTime |-> m.sigTime, sigOk |-> m.sigOk, proto |-> m.proto,
                 pingTime |-> 0, pingBlock |-> 0, pose |-> 0]

\* Mutant: "newer" read as "different".
IsNewerDiffers(m) == m.sigTime # mnodes[m.op].sigTime

\* A broadcast replaces the stored one only if it is strictly newer
\* (spec 3, replay defense); the ping and the score stay with the record.
IsNewer(m) == m.sigTime > mnodes[m.op].sigTime

\* Mutant: the penalty is added without the cap at the ban score.
PenalizedUncapped(o) == [mnodes[o] EXCEPT !.pose = @ + ForgeryPenalty]

Penalized(o) == [mnodes[o] EXCEPT !.pose =
                    IF @ + ForgeryPenalty > PoSeBanScore THEN PoSeBanScore
                    ELSE @ + ForgeryPenalty]

-----------------------------------------------------------------------------
(* Registry operations shared by the gossip path and the RPC layer.        *)

\* Mutant: a newer broadcast rebuilds the record, dropping its score.
UpdateTnodeListResetScore(m) ==
    /\ seenMnb' = seenMnb \cup {Key(m)}
    /\ IF m.op \notin DOMAIN mnodes \/ IsNewer(m)
       THEN /\ mnodes' = SetRecord(m.op, NewRecord(m))
            /\ accepted' = [accepted EXCEPT ![m.op] =
                              IF m.op \notin DOMAIN mnodes THEN {m.sigTime} ELSE @ \cup {m.sigTime}]
            /\ acceptedLog' = acceptedLog \cup {Key(m)}
       ELSE UNCHANGED <<mnodes, accepted, acceptedLog>>

\* UpdateTnodeList(mnb): record the broadcast as seen, add it as a new entry
\* or let it replace an older one.  No signature or collateral check: the
\* callers (start-alias, start-all, relay fast) have done or skipped those.
UpdateTnodeList(m) ==
    /\ seenMnb' = seenMnb \cup {Key(m)}
    /\ IF m.op \notin DOMAIN mnodes
       THEN /\ mnodes' = SetRecord(m.op, NewRecord(m))
            /\ accepted' = [accepted EXCEPT ![m.op] = {m.sigTime}]
            /\ acceptedLog' = acceptedLog \cup {Key(m)}
       ELSE IF IsNewer(m)
       THEN /\ mnodes' = SetRecord(m.op, [mnodes[m.op] EXCEPT
                    !.sigTime = m.sigTime, !.sigOk = m.sigOk, !.proto = m.proto])
            /\ accepted' = [accepted EXCEPT ![m.op] = @ \cup {m.sigTime}]
            /\ acceptedLog' = acceptedLog \cup {Key(m)}
       ELSE UNCHANGED <<mnodes, accepted, acceptedLog>>

\* RelayTNode(): hand the broadcast to every peer.
RelayTNode(m) == relays' = [relays EXCEPT ![Key(m)] = @ + 1]

\* The validation pipeline of spec 4.2, steps (2) to (4), in order:
\* collateral unspent and mature, newer than the stored broadcast and not
\* too far in the future, protocol version at least the minimum.
PassesChecks(m) ==
    /\ utxo[m.op] = "mature"
    /\ m.op \in DOMAIN mnodes => IsNewer(m)
    /\ m.sigTime <= now + Skew
    /\ m.proto

\* CheckMnbAndUpdateTnodeList(mnb): the whole inbound pipeline.  A seen
\* broadcast is a duplicate and is dropped; a bad signature penalizes the
\* claimed record (spec 4.2 (1)) and is not relayed; one that fails a later
\* check is dropped without penalty; one that passes is applied and relayed.
\* Returns through the "ok" parameter whether the broadcast was accepted.
CheckMnbAndUpdateTnodeList(m, ok) ==
    \/ /\ Key(m) \notin seenMnb
       /\ ~m.sigOk
       /\ mnodes' = IF m.op \in DOMAIN mnodes
                    THEN SetRecord(m.op, Penalized(m.op)) ELSE mnodes
       /\ ok = FALSE
       /\ UNCHANGED <<seenMnb, relays, accepted, acceptedLog>>
    \/ /\ Key(m) \notin seenMnb
       /\ m.sigOk
       /\ PassesChecks(m)
       /\ UpdateTnodeList(m)
       /\ RelayTNode(m)
       /\ ok = TRUE
    \/ /\ Key(m) \in seenMnb \/ (m.sigOk /\ ~PassesChecks(m))
       /\ ok = FALSE
       /\ UNCHANGED <<mnodes, seenMnb, relays, accepted, acceptedLog>>

\* Spec 4.3: a ping needs a record, a valid operator signature (a bad one
\* penalizes, spec 7), a block among the last PingWindow blocks, a time newer
\* than the stored ping and not too far in the future.
CheckAndUpdatePing(p) ==
    /\ p.op \in DOMAIN mnodes
    /\ \/ /\ ~p.sigOk
          /\ mnodes' = SetRecord(p.op, Penalized(p.op))
       \/ /\ p.sigOk
          /\ p.block <= height /\ height - p.block <= PingWindow
          /\ p.sigTime > mnodes[p.op].pingTime
          /\ p.sigTime <= now + Skew
          /\ mnodes' = SetRecord(p.op, [mnodes[p.op] EXCEPT
                 !.pingTime = p.sigTime, !.pingBlock = p.block])

-----------------------------------------------------------------------------
(* The environment: clock, chain, and the peers that deliver messages.     *)

Tick == /\ now < MaxTime
        /\ now' = now + 1
        /\ UNCHANGED <<height, utxo, mnodes, seenMnb, netMnb, netMnp, relays,
                       accepted, acceptedLog>>

NewBlock == /\ height < MaxHeight
            /\ height' = height + 1
            /\ UNCHANGED <<now, utxo, mnodes, seenMnb, netMnb, netMnp, relays,
                           accepted, acceptedLog>>

\* The collateral output reaches the required confirmations, or is spent.
Mature(o) == /\ utxo[o] = "immature"
             /\ utxo' = [utxo EXCEPT ![o] = "mature"]
             /\ UNCHANGED <<now, height, mnodes, seenMnb, netMnb, netMnp, relays,
                            accepted, acceptedLog>>

Spend(o) == /\ utxo[o] # "spent"
            /\ utxo' = [utxo EXCEPT ![o] = "spent"]
            /\ UNCHANGED <<now, height, mnodes, seenMnb, netMnb, netMnp, relays,
                           accepted, acceptedLog>>

\* The operator of o signs a broadcast or a ping at its own clock, which may
\* run ahead of ours by up to one tick more than the tolerated skew; any
\* peer may forge one for any outpoint.  Delivered messages stay in the
\* pools, so every message may be delivered again, late and in any order.
OperatorTimes == {t \in Times : now <= t /\ t <= now + Skew + 1}

PeerAnnounce(o, t) ==
    /\ netMnb' = netMnb \cup {[op |-> o, sigTime |-> t, sigOk |-> TRUE,
                               proto |-> o \notin OutdatedOps]}
    /\ UNCHANGED <<now, height, utxo, mnodes, seenMnb, netMnp, relays,
                   accepted, acceptedLog>>

PeerPing(o) ==
    /\ netMnp' = netMnp \cup {[op |-> o, sigTime |-> now, sigOk |-> TRUE,
                               block |-> height]}
    /\ UNCHANGED <<now, height, utxo, mnodes, seenMnb, netMnb, relays,
                   accepted, acceptedLog>>

PeerForgeMnb(o) ==
    /\ netMnb' = netMnb \cup {[op |-> o, sigTime |-> now, sigOk |-> FALSE,
                               proto |-> TRUE]}
    /\ UNCHANGED <<now, height, utxo, mnodes, seenMnb, netMnp, relays,
                   accepted, acceptedLog>>

PeerForgePing(o) ==
    /\ netMnp' = netMnp \cup {[op |-> o, sigTime |-> now, sigOk |-> FALSE,
                               block |-> height]}
    /\ UNCHANGED <<now, height, utxo, mnodes, seenMnb, netMnb, relays,
                   accepted, acceptedLog>>

-----------------------------------------------------------------------------
(* The node's own handlers of inbound messages and its periodic duties.    *)

\* Dispatch of an inbound broadcast; outcomes that change nothing are
\* stuttering steps and are left out.
ProcessMnb(m) ==
    /\ m \in netMnb
    /\ CheckMnbAndUpdateTnodeList(m, TRUE) \/ CheckMnbAndUpdateTnodeList(m, FALSE)
    /\ ~UNCHANGED mnodes \/ ~UNCHANGED relays
    /\ UNCHANGED <<now, height, utxo, netMnb, netMnp>>

ProcessMnp(p) ==
    /\ p \in netMnp
    /\ CheckAndUpdatePing(p)
    /\ UNCHANGED <<now, height, utxo, seenMnb, netMnb, netMnp, relays,
                   accepted, acceptedLog>>

\* Prune (spec 4.1): drop a record whose collateral is spent or that has
\* been unseen for longer than Retention.
Prune(o) ==
    /\ o \in DOMAIN mnodes
    /\ utxo[o] = "spent" \/ now - LastSeen(o) > Retention
    /\ mnodes' = Restrict(mnodes, DOMAIN mnodes \ {o})
    /\ accepted' = [accepted EXCEPT ![o] = {}]
    /\ UNCHANGED <<now, height, utxo, seenMnb, netMnb, netMnp, relays, acceptedLog>>

\* The seen-set is short-lived (spec 4.1): old entries are forgotten.
ForgetSeen(k) ==
    /\ k \in seenMnb
    /\ now - k[2] > SeenRetention
    /\ seenMnb' = seenMnb \ {k}
    /\ UNCHANGED <<now, height, utxo, mnodes, netMnb, netMnp, relays,
                   accepted, acceptedLog>>

InitMan ==
    /\ now = 1
    /\ height = 0
    /\ utxo = [o \in Outpoints |-> "immature"]
    /\ mnodes = <<>>
    /\ seenMnb = {}
    /\ netMnb = {}
    /\ netMnp = {}
    /\ relays = [k \in Outpoints \X Times |-> 0]
    /\ accepted = [o \in Outpoints |-> {}]
    /\ acceptedLog = {}

EnvNext ==
    \/ Tick
    \/ NewBlock
    \/ \E o \in Outpoints : Mature(o) \/ Spend(o)
    \/ \E o \in Outpoints, t \in OperatorTimes : PeerAnnounce(o, t)
    \/ \E o \in Outpoints : PeerPing(o)
    \/ \E o \in Outpoints : PeerForgeMnb(o) \/ PeerForgePing(o)

ManNext ==
    \/ \E m \in netMnb : ProcessMnb(m)
    \/ \E p \in netMnp : ProcessMnp(p)
    \/ \E o \in DOMAIN mnodes : Prune(o)
    \/ \E k \in seenMnb : ForgetSeen(k)

Next == EnvNext \/ ManNext

Spec == InitMan /\ [][Next]_manVars

-----------------------------------------------------------------------------
(* Properties.                                                             *)

\* Reorder idempotence (spec 8): whatever order gossip delivers a tnode's
\* broadcasts in, the stored one is the newest accepted since the record
\* was created -- an older broadcast delivered late never replaces it.
NewestAnnouncementWins ==
    \A o \in DOMAIN mnodes : \A t \in accepted[o] : t <= mnodes[o].sigTime

\* The node relays only broadcasts its registry accepted: a forged, stale,
\* duplicate or otherwise rejected broadcast is never passed on (spec 7).
RelayOnlyAccepted ==
    \A k \in Outpoints \X Times : relays[k] > 0 => k \in acceptedLog

\* Each broadcast <<outpoint, sigTime>> is relayed at most once, however
\* many peers deliver it and however late (spec 4.1, seen-set).
RelayOnce ==
    \A k \in Outpoints \X Times : relays[k] <= 1

\* A proof-of-service score never decreases while the record exists:
\* a new broadcast or ping from a penalized tnode does not wipe its score
\* (spec 3: the score only increases).
ScoreNeverDecreases ==
    [][\A o \in DOMAIN mnodes \cap DOMAIN mnodes' :
          mnodes'[o].pose >= mnodes[o].pose]_manVars

\* No tnode whose operator never misbehaves is banned.  In this model no
\* operator signs anything wrong; every bad signature is a third party's.
HonestNeverBanned ==
    \A o \in DOMAIN mnodes : mnodes[o].pose < PoSeBanScore

=============================================================================
