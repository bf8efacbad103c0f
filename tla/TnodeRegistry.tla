---------------------------- MODULE TnodeRegistry -----------------------------
(***************************************************************************)
(* What the tnode registry promises its readers (spec 3, 4.1-4.2, 7),      *)
(* stated without messages, seen-sets or pings: an outpoint's record is    *)
(* created from an authentic announcement with a clean score, is only      *)
(* superseded by a strictly newer authentic announcement that keeps the    *)
(* score, has a score that only grows up to the ban score, and may be       *)
(* retired.  TnodeMan, driven by gossip and by the RPC layer of TnodeRpc,  *)
(* implements this specification (RpcImplementsRegistry).                  *)
(***************************************************************************)
EXTENDS Naturals

CONSTANTS Outpoints, Times, PoSeBanScore

VARIABLE reg   \* reg[o]: the announcement time, score and authenticity of o's record

Entry == [sigTime : Times, pose : 0..PoSeBanScore, authentic : BOOLEAN]

RegInit == reg = [o \in {} |-> [sigTime |-> 1, pose |-> 0, authentic |-> TRUE]]

\* A new record, from an authentic announcement, with a clean score.
Announce(o, t) ==
    /\ o \notin DOMAIN reg
    /\ reg' = [x \in DOMAIN reg \cup {o} |->
                 IF x = o THEN [sigTime |-> t, pose |-> 0, authentic |-> TRUE]
                 ELSE reg[x]]

\* A strictly newer authentic announcement supersedes the stored one; the
\* score stays with the record.
Supersede(o, t) ==
    /\ o \in DOMAIN reg
    /\ t > reg[o].sigTime
    /\ reg' = [reg EXCEPT ![o].sigTime = t, ![o].authentic = TRUE]

\* Misbehaviour raises the score, never past the ban score.
Penalize(o, s) ==
    /\ o \in DOMAIN reg
    /\ s > reg[o].pose
    /\ reg' = [reg EXCEPT ![o].pose = s]

\* The record leaves the registry.
Retire(o) ==
    /\ o \in DOMAIN reg
    /\ reg' = [x \in DOMAIN reg \ {o} |-> reg[x]]

RegNext ==
    \E o \in Outpoints :
       \/ \E t \in Times : Announce(o, t) \/ Supersede(o, t)
       \/ \E s \in 0..PoSeBanScore : Penalize(o, s)
       \/ Retire(o)

RegSpec == RegInit /\ [][RegNext]_reg
=============================================================================
