---------------------------- MODULE MC_TnodeRpc -----------------------------
(* Model-checking instance of the RPC commands beside the gossip path.     *)
(* One tnode.conf entry: the RPC loops are exercised through the relay     *)
(* batch (up to MaxBatch broadcasts); one entry keeps the registry and the *)
(* gossip pools small enough to explore every interleaving.                *)
EXTENDS TnodeRpc

CONSTANTS o1

MCOutpoints == {o1}
MCOutdatedOps == {}
MCConfOrder == <<o1>>

\* Peers deliver at most MaxPool broadcasts and pings; the operator holds
\* at most MaxPool created broadcasts.
MaxPool == 1
PoolBound == /\ Cardinality(netMnb) <= MaxPool
             /\ Cardinality(netMnp) <= MaxPool
             /\ Cardinality(created) <= MaxPool

\* start-alias and relay-fast relay on every call, so the relay count of a
\* broadcast is unbounded; explore up to MaxRelays relays of each.
MaxRelays == 1
RelayBound == \A k \in DOMAIN relays : relays[k] <= MaxRelays
=============================================================================
