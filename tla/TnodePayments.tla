---------------------------- MODULE TnodePayments ----------------------------
(***************************************************************************)
(* Payment votes, the per-height quorum and the consensus hook on one     *)
(* node (tnpayments and the block-reward check; spec 3, 4.5, 4.7, 8).      *)
(* None of this code is under src/: it is modelled from spec.md and from   *)
(* how src/test/tnode_tests.cpp drives it, with tnpayments.mapTnodeBlocks  *)
(* as the votes per height and tnodeSync as the gate.                      *)
(*                                                                         *)
(* Voters sign votes (height, payee); gossip delivers them in any order    *)
(* and any number of times (net is the set of votes ever sent).  A voter   *)
(* in Equivocators signs several payees for one height.  Forged votes     *)
(* fail the signature check and change nothing, so they are not sent.     *)
(* The registry's view of who qualifies shrinks as bans and expiries       *)
(* become known, asynchronously to the votes (spec 4.5).                   *)
(***************************************************************************)
EXTENDS TnodeSync, Integers, FiniteSets

CONSTANTS
    Voters,        \* the tnodes that may vote
    Equivocators,  \* voters that sign more than one payee for a height
    Payees,        \* payee scripts a vote may name
    MaxHeight,     \* the chain tip runs 0..MaxHeight
    Heights,       \* target heights votes are cast for
    Retention,     \* a quorum is collected once tip - height > Retention
    QuorumNum, QuorumDen  \* the supermajority fraction (spec: e.g. 60%)

ASSUME Equivocators \subseteq Voters /\ Heights \subseteq 1..MaxHeight
ASSUME QuorumNum \in Nat /\ QuorumDen \in Nat \ {0} /\ 2 * QuorumNum > QuorumDen

NoVote == "none"
Verdicts == {"accept", "reject", "indeterminate"}
Vote == [voter : Voters, height : Heights, payee : Payees]

VARIABLES
    tip,         \* the chain height
    qualifying,  \* the voters the registry currently counts as qualifying
    net,         \* the signed votes sent so far
    votes,       \* votes[h][v]: the payee v's recorded vote names, or NoVote
    confirmed,   \* confirmed[h]: the latched payee of height h, or NoVote
    firstLatch   \* history: the first payee ever confirmed for h, or NoVote

payVars == <<tip, qualifying, net, votes, confirmed, firstLatch>>
vars == <<payVars, syncAsset>>

NoVotes == [v \in Voters |-> NoVote]

-----------------------------------------------------------------------------
\* Votes for payee p at height h in a tally.
Tally(tally, p) == Cardinality({v \in Voters : tally[v] = p})

\* The confirmation rule: votes of the supermajority fraction of the
\* qualifying count that PaymentSelector returns at tallying time.
Reaches(tally, p) == Tally(tally, p) * QuorumDen >= QuorumNum * Cardinality(qualifying)

\* RecordVote (spec 4.5): a vote whose voter does not qualify is discarded;
\* a second vote of a voter for a height is rejected (first writer wins);
\* otherwise it is tallied, and the height's payee is confirmed once, when
\* a payee first reaches the threshold.
RecordVote(m) ==
    /\ m \in net
    /\ m.voter \in qualifying
    /\ votes[m.height][m.voter] = NoVote
    /\ LET tally == [votes[m.height] EXCEPT ![m.voter] = m.payee] IN
       /\ votes' = [votes EXCEPT ![m.height] = tally]
       /\ confirmed' = [confirmed EXCEPT ![m.height] =
             IF @ = NoVote /\ Reaches(tally, m.payee) THEN m.payee ELSE @]
    /\ firstLatch' = [firstLatch EXCEPT ![m.height] =
          IF @ = NoVote THEN confirmed'[m.height] ELSE @]
    /\ UNCHANGED <<tip, qualifying, net, syncAsset>>

\* A voter signs a vote; an honest one signs one per height.
SendVote(v, h, p) ==
    /\ v \notin Equivocators => \A m \in net : ~(m.voter = v /\ m.height = h)
    /\ net' = net \cup {[voter |-> v, height |-> h, payee |-> p]}
    /\ UNCHANGED <<tip, qualifying, votes, confirmed, firstLatch, syncAsset>>

\* The registry stops counting v (ban, expiry, spent collateral).
Disqualify(v) ==
    /\ v \in qualifying
    /\ qualifying' = qualifying \ {v}
    /\ UNCHANGED <<tip, net, votes, confirmed, firstLatch, syncAsset>>

NewBlock ==
    /\ tip < MaxHeight
    /\ tip' = tip + 1
    /\ UNCHANGED <<qualifying, net, votes, confirmed, firstLatch, syncAsset>>

\* The quorum of a height that fell more than Retention behind the tip is
\* collected; a later vote for it creates it afresh.
CollectQuorum(h) ==
    /\ tip - h > Retention
    /\ votes[h] # NoVotes
    /\ votes' = [votes EXCEPT ![h] = NoVotes]
    /\ confirmed' = [confirmed EXCEPT ![h] = NoVote]
    /\ UNCHANGED <<tip, qualifying, net, firstLatch, syncAsset>>

\* ValidateReward (spec 4.7): binding only when the gate is synced and the
\* height has a confirmed payee.
ValidateReward(h, payee) ==
    IF ~IsSynced \/ confirmed[h] = NoVote THEN "indeterminate"
    ELSE IF payee = confirmed[h] THEN "accept" ELSE "reject"

-----------------------------------------------------------------------------
PaymentsInit ==
    /\ SyncInit
    /\ tip = 0
    /\ qualifying = Voters
    /\ net = {}
    /\ votes = [h \in Heights |-> NoVotes]
    /\ confirmed = [h \in Heights |-> NoVote]
    /\ firstLatch = [h \in Heights |-> NoVote]

PaymentsNext ==
    \/ \E m \in net : RecordVote(m)
    \/ \E v \in Voters, h \in Heights, p \in Payees : SendVote(v, h, p)
    \/ \E v \in Voters : Disqualify(v)
    \/ NewBlock
    \/ \E h \in Heights : CollectQuorum(h)
    \/ SyncNext /\ UNCHANGED payVars

PaymentsSpec == PaymentsInit /\ [][PaymentsNext]_vars

-----------------------------------------------------------------------------
(* Properties.                                                             *)

\* The one-way latch (spec 8: "once ConfirmedPayee(h) returns confirmed
\* for height h, no subsequent vote at height h can change the returned
\* payee"), stated through the consensus hook: a block paying p at height
\* h is accepted only if p is the first payee ever confirmed for h.  The
\* quorum of h is collected once h falls behind the retention window and
\* is created afresh by the next vote for h (spec 3), so this takes
\* confirmation, the chain growing, collection, disqualifications and a
\* late vote.
HookFollowsFirstLatch ==
    \A h \in Heights, p \in Payees :
        ValidateReward(h, p) = "accept" => p = firstLatch[h]
=============================================================================
