---------------------------- MODULE MC_TnodeMan ----------------------------
(* Model-checking instance of the tnode registry and its gossip path.      *)
EXTENDS TnodeMan

CONSTANTS o1, o2

MCOutpoints == {o1, o2}
MCOutdatedOps == {o2}

\* Bound the message pools so that each peer sends at most a few messages.
MaxPool == 2
PoolBound == Cardinality(netMnb) <= MaxPool /\ Cardinality(netMnp) <= MaxPool
=============================================================================
