------------------------------ MODULE TnodeRpc ------------------------------
(***************************************************************************)
(* The operator's RPC commands that write to the tnode registry, from      *)
(* src/rpc/rpctnode.cpp: "tnode start-alias", "tnode start-all |          *)
(* start-missing | start-disabled", "tnodebroadcast create-alias |         *)
(* create-all" and "tnodebroadcast relay [fast]".  They run on an RPC      *)
(* thread while the message-handling thread keeps processing gossip: each  *)
(* registry call is atomic (mnodeman takes its own lock), but a command    *)
(* that loops over tnode.conf entries or over a batch of broadcasts makes  *)
(* one registry call per entry, and gossip, the chain and the sync gate    *)
(* may move between two entries.  One command is in progress at a time.    *)
(***************************************************************************)
EXTENDS TnodeMan, TnodeSync, Sequences

CONSTANTS
    ConfOrder,  \* the outpoints of tnode.conf entries, in file order
    MaxBatch    \* bound on the number of broadcasts in one relayed hex string

ASSUME ConfOrder \in Seq(Outpoints) /\ MaxBatch \in Nat \ {0}

StartCmds == {"start-all", "start-missing", "start-disabled"}
RelayCmds == {"relay", "relay-fast"}

VARIABLES
    created,     \* broadcasts handed to the operator as hex by create-alias/-all
    rpcCmd,      \* the command in progress, or "idle"
    rpcTodo,     \* entries the command's loop has still to visit
    rpcBatch,    \* the whole decoded batch of the relay in progress
    nSuccessful,
    nFailed

rpcVars == <<created, rpcCmd, rpcTodo, rpcBatch, nSuccessful, nFailed>>
vars == <<manVars, syncAsset, rpcVars>>

RpcTypeOK ==
    /\ TypeOK
    /\ SyncTypeOK
    /\ created \subseteq Mnb
    /\ rpcCmd \in {"idle"} \cup StartCmds \cup RelayCmds
    /\ rpcTodo \in Seq(Outpoints) \cup Seq(Mnb)
    /\ rpcBatch \in Seq(Mnb)
    /\ nSuccessful \in Nat /\ nFailed \in Nat

\* CTnodeBroadcast::Create (not under src/): signs a broadcast for the
\* collateral of a tnode.conf entry with the current adjusted time.  It can
\* only succeed for a collateral the wallet still holds; it may fail for
\* reasons the model does not track (bad key, bad address).
CreatedMnb(o) == [op |-> o, sigTime |-> now, sigOk |-> TRUE, proto |-> TRUE]
CanCreate(o) == utxo[o] # "spent"

-----------------------------------------------------------------------------
(* tnode start-alias: Create, then UpdateTnodeList and RelayTNode,         *)
(* whatever UpdateTnodeList made of the broadcast.                         *)
StartAlias(o) ==
    /\ rpcCmd = "idle"
    /\ o \in Range(ConfOrder)
    /\ CanCreate(o)
    /\ UpdateTnodeList(CreatedMnb(o))
    /\ RelayTNode(CreatedMnb(o))
    /\ UNCHANGED <<now, height, utxo, netMnb, netMnp, syncAsset, rpcVars>>

(* tnode start-all | start-missing | start-disabled: the sync check is made *)
(* once, before the loop; each entry then reads the registry again.         *)
StartBegin(cmd) ==
    /\ rpcCmd = "idle"
    /\ cmd \in {"start-missing", "start-disabled"} => IsTnodeListSynced
    /\ rpcCmd' = cmd
    /\ rpcTodo' = ConfOrder
    /\ nSuccessful' = 0 /\ nFailed' = 0
    /\ UNCHANGED <<manVars, syncAsset, created, rpcBatch>>

\* The entry is skipped when the registry (Find, IsEnabled) says so.
Skipped(o) == \/ rpcCmd = "start-missing" /\ o \in DOMAIN mnodes
              \/ rpcCmd = "start-disabled" /\ IsEnabled(o)

StartStep ==
    /\ rpcCmd \in StartCmds
    /\ rpcTodo # <<>>
    /\ LET o == Head(rpcTodo) IN
       \/ /\ Skipped(o)
          /\ UNCHANGED <<manVars, nSuccessful, nFailed>>
       \/ /\ ~Skipped(o)
          /\ CanCreate(o)
          /\ nSuccessful' = nSuccessful + 1
          /\ UpdateTnodeList(CreatedMnb(o))
          /\ RelayTNode(CreatedMnb(o))
          /\ UNCHANGED <<now, height, utxo, netMnb, netMnp, nFailed>>
       \/ /\ ~Skipped(o)
          /\ nFailed' = nFailed + 1
          /\ UNCHANGED <<manVars, nSuccessful>>
    /\ rpcTodo' = Tail(rpcTodo)
    /\ UNCHANGED <<syncAsset, created, rpcCmd, rpcBatch>>

\* The loop is over: the command returns its summary and the slot is free.
RpcEnd ==
    /\ rpcCmd # "idle"
    /\ rpcTodo = <<>>
    /\ rpcCmd' = "idle"
    /\ rpcBatch' = <<>>
    /\ nSuccessful' = 0 /\ nFailed' = 0
    /\ UNCHANGED <<manVars, syncAsset, created, rpcTodo>>

-----------------------------------------------------------------------------
(* tnodebroadcast create-alias | create-all: Create with fOffline = true;  *)
(* the signed broadcasts go to the operator, nothing goes to the registry.  *)
CreateAlias(o) ==
    /\ o \in Range(ConfOrder)
    /\ CanCreate(o)
    /\ created' = created \cup {CreatedMnb(o)}
    /\ UNCHANGED <<manVars, syncAsset, rpcCmd, rpcTodo, rpcBatch, nSuccessful, nFailed>>

CreateAll ==
    /\ \E ok \in SUBSET {o \in Range(ConfOrder) : CanCreate(o)} :
          /\ ok # {}
          /\ created' = created \cup {CreatedMnb(o) : o \in ok}
    /\ UNCHANGED <<manVars, syncAsset, rpcCmd, rpcTodo, rpcBatch, nSuccessful, nFailed>>

-----------------------------------------------------------------------------
(* tnodebroadcast relay "hex" [fast].  DecodeHexVecMnb turns the hex into   *)
(* a vector of broadcasts: here any non-empty sequence of broadcasts the    *)
(* operator holds, created here or received from elsewhere; a hex that     *)
(* does not decode throws before anything changes.  The loop then          *)
(* handles one broadcast per step.                                         *)
Batches == UNION {[1..n -> created \cup netMnb] : n \in 1..MaxBatch}

RelayBegin(fast) ==
    /\ rpcCmd = "idle"
    /\ \E batch \in Batches :
          /\ rpcTodo' = batch
          /\ rpcBatch' = batch
    /\ rpcCmd' = IF fast THEN "relay-fast" ELSE "relay"
    /\ nSuccessful' = 0 /\ nFailed' = 0
    /\ UNCHANGED <<manVars, syncAsset, created>>

\* Mutant: the signature check is skipped.
CheckSignatureSkipped(m) == TRUE

\* CTnodeBroadcast::CheckSignature (not under src/): the signature verifies.
CheckSignature(m) == m.sigOk

\* One broadcast: CheckSignature first; then the safe path runs the whole
\* inbound pipeline, the fast path applies and relays it unconditionally.
RelayStep ==
    /\ rpcCmd \in RelayCmds
    /\ rpcTodo # <<>>
    /\ LET m == Head(rpcTodo) IN
       \/ /\ ~CheckSignature(m)
          /\ nFailed' = nFailed + 1
          /\ UNCHANGED <<manVars, nSuccessful>>
       \/ /\ CheckSignature(m)
          /\ rpcCmd = "relay"
          /\ \E ok \in BOOLEAN :
                /\ CheckMnbAndUpdateTnodeList(m, ok)
                /\ IF ok THEN nSuccessful' = nSuccessful + 1 /\ UNCHANGED nFailed
                         ELSE nFailed' = nFailed + 1 /\ UNCHANGED nSuccessful
          /\ UNCHANGED <<now, height, utxo, netMnb, netMnp>>
       \/ /\ CheckSignature(m)
          /\ rpcCmd = "relay-fast"
          /\ UpdateTnodeList(m)
          /\ RelayTNode(m)
          /\ nSuccessful' = nSuccessful + 1
          /\ UNCHANGED <<now, height, utxo, netMnb, netMnp, nFailed>>
    /\ rpcTodo' = Tail(rpcTodo)
    /\ UNCHANGED <<syncAsset, created, rpcCmd, rpcBatch>>

-----------------------------------------------------------------------------
RpcInit ==
    /\ InitMan
    /\ SyncInit
    /\ created = {}
    /\ rpcCmd = "idle"
    /\ rpcTodo = <<>>
    /\ rpcBatch = <<>>
    /\ nSuccessful = 0 /\ nFailed = 0

\* The rest of the node: gossip, chain and clock, and the sync gate.
NodeNext ==
    \/ Next /\ UNCHANGED <<syncAsset, rpcVars>>
    \/ SyncNext /\ UNCHANGED <<manVars, rpcVars>>

RpcNext ==
    \/ \E o \in Outpoints : StartAlias(o) \/ CreateAlias(o)
    \/ \E cmd \in StartCmds : StartBegin(cmd)
    \/ StartStep
    \/ CreateAll
    \/ \E fast \in BOOLEAN : RelayBegin(fast)
    \/ RelayStep
    \/ RpcEnd

RpcSpec == RpcInit /\ [][NodeNext \/ RpcNext]_vars

-----------------------------------------------------------------------------
(* Properties.                                                             *)

\* The registry as its readers see it: per outpoint, the stored
\* announcement's time, the score and whether the signature verified.
Registry == INSTANCE TnodeRegistry WITH
    Times <- Times,
    reg <- [o \in DOMAIN mnodes |-> [sigTime |-> mnodes[o].sigTime,
                                     pose |-> mnodes[o].pose,
                                     authentic |-> mnodes[o].sigOk]]

\* Whichever path writes the registry -- gossip, start-alias, the start-all
\* loop, a relay (fast or safe) of a hex the operator pasted, a ping or a
\* prune -- it keeps the registry's contract (TnodeRegistry): a record is
\* created only from a broadcast whose signature verified, with a clean
\* score; it is replaced only by a strictly newer verified broadcast,
\* which keeps the score; and its score never drops.
RpcImplementsRegistry == Registry!RegSpec

\* The comment before the relay loop (rpctnode.cpp:818): "verify all
\* signatures first, bailout if any of them broken" -- a batch holding a
\* broadcast with a bad signature has nothing of it applied or relayed.
RelayBatchAllOrNothing ==
    (rpcCmd \in RelayCmds /\ \E i \in DOMAIN rpcBatch : ~rpcBatch[i].sigOk)
        => nSuccessful = 0
=============================================================================
