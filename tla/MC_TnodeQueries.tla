-------------------------- MODULE MC_TnodeQueries ---------------------------
(* Model-checking instance of the read commands beside the gossip path.    *)
(* Two tnodes, so that the payment queue has an order to get right and a   *)
(* count can differ from another.                                          *)
EXTENDS TnodeQueries

CONSTANTS o1, o2

MCOutpoints == {o1, o2}
MCOutdatedOps == {}
MCConfOrder == <<o1, o2>>

\* A stand-in for the height-seeded hash: o1 ranks first at even heights,
\* o2 at odd ones.
MCTieBreak(o, h) == IF o = o1 THEN h % 2 ELSE 1 - (h % 2)

\* Peers deliver at most MaxPool broadcasts and MaxPool pings.
MaxPool == 1
PoolBound == Cardinality(netMnb) <= MaxPool /\ Cardinality(netMnp) <= MaxPool
=============================================================================
