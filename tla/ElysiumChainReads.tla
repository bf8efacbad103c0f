-------------------------- MODULE ElysiumChainReads ---------------------------
(***************************************************************************)
(* The Elysium RPCs that read the chain tip (src/elysium/rpc.cpp), as     *)
(* threads whose reads interleave with the chain moving.  The chain is    *)
(* the Chain collaborator of the spec: a block is connected or            *)
(* disconnected at the tip in one step holding cs_main, and the Elysium    *)
(* state is the state after the blocks of the active chain.               *)
(*                                                                         *)
(*   getcurrentconsensushash, getmetadexhash, getbalanceshash: LOCK,      *)
(*     [parse and require the property], GetHeight, chainActive[block],   *)
(*     the state hash, unlock;                                             *)
(*   getinfo: GetHeight and GetLatestBlockTime each on their own, then    *)
(*     LOCK and the transaction counts of the block read first;           *)
(*   listblocktransactions: RequireHeightInChain, then a LOCK scope       *)
(*     reading chainActive[height] from disk, then LOCK and the filter.   *)
(*                                                                         *)
(* GetHeight, GetLatestBlockTime and RequireHeightInChain take cs_main    *)
(* themselves, so each is one step that needs the lock free (or held by   *)
(* the same thread: the lock is recursive).  A block is its height and    *)
(* the fork it was mined on; its hash and time stand for both.  Each     *)
(* handler runs once; a read through a null CBlockIndex* is a crash.     *)
(***************************************************************************)
EXTENDS Naturals, Sequences

CONSTANTS
    Forks,     \* the forks a block at a height may come from
    Genesis,   \* the genesis block's fork
    MaxHeight  \* bound on the chain height

HashCalls == {"consensushash", "metadexhash", "balanceshash"}
Handlers  == HashCalls \cup {"getinfo", "listblocktransactions"}
NoHolder  == "none"
NoBlock   == <<>>
None      == [kind |-> "none"]
Error     == [kind |-> "error"]

VARIABLES
    chain,  \* chain[i]: the fork of the active chain's block at height i - 1
    holder, \* the handler holding cs_main, or NoHolder
    pc,     \* pc[h]: the next step of handler h, "done" or "crashed"
    arg,    \* arg[h]: the property argument ("none", "exists", "missing"),
            \* or the height given to listblocktransactions
    block,  \* block[h]: the height the handler read
    seen,   \* seen[h]: the block whose time getinfo read, or the block
            \* listblocktransactions read from disk
    reply   \* reply[h]: the handler's reply, Error, or None

chainVars   == <<chain>>
handlerVars == <<holder, pc, arg, block, seen, reply>>
vars        == <<chain, holder, pc, arg, block, seen, reply>>

\* GetHeight(): chainActive.Height().
Tip == Len(chain) - 1

\* chainActive[height]: the block at that height, NoBlock above the tip.
BlockAt(height) == IF height <= Tip THEN <<height, chain[height + 1]>> ELSE NoBlock

\* GetConsensusHash() / GetMetaDExHash() / GetBalancesHash(): a hash of
\* the Elysium state, which is the state after the active chain's blocks.
StateHash == chain

\* A thread may take cs_main when no other thread holds it.
CanLock(h) == holder \in {NoHolder, h}

-----------------------------------------------------------------------------
(* The chain (the Chain collaborator): one block at a time under cs_main. *)

ConnectTip(f) ==
    /\ holder = NoHolder
    /\ Tip < MaxHeight
    /\ chain' = Append(chain, f)
    /\ UNCHANGED handlerVars

DisconnectTip ==
    /\ holder = NoHolder
    /\ Tip > 0
    /\ chain' = SubSeq(chain, 1, Len(chain) - 1)
    /\ UNCHANGED handlerVars

-----------------------------------------------------------------------------
(* getcurrentconsensushash (2297-2311), getmetadexhash (2335-2354),       *)
(* getbalanceshash (2379-2397).                                            *)

\* Mutant: the handler takes no LOCK(cs_main) of its own; GetHeight()
\* still locks for its own read.
HashLockDropped(h) ==
    /\ pc[h] = "lock"
    /\ CanLock(h)
    /\ IF arg[h] = "missing"
          THEN /\ pc' = [pc EXCEPT ![h] = "done"]
               /\ reply' = [reply EXCEPT ![h] = Error]
               /\ UNCHANGED block
          ELSE /\ pc' = [pc EXCEPT ![h] = "read"]
               /\ block' = [block EXCEPT ![h] = Tip]
               /\ UNCHANGED reply
    /\ UNCHANGED <<chain, holder, arg, seen>>

\* LOCK(cs_main); RequireExistingProperty throws (releasing the lock) for
\* a missing property; int block = GetHeight().
HashLock(h) ==
    /\ pc[h] = "lock"
    /\ holder = NoHolder
    /\ IF arg[h] = "missing"
          THEN /\ pc' = [pc EXCEPT ![h] = "done"]
               /\ reply' = [reply EXCEPT ![h] = Error]
               /\ UNCHANGED <<holder, block>>
          ELSE /\ holder' = h
               /\ pc' = [pc EXCEPT ![h] = "read"]
               /\ block' = [block EXCEPT ![h] = Tip]
               /\ UNCHANGED reply
    /\ UNCHANGED <<chain, arg, seen>>

\* chainActive[block]->GetBlockHash() (a crash through a null index), the
\* state hash, the reply; the lock is released on return.
HashRead(h) ==
    /\ pc[h] = "read"
    /\ CanLock(h)
    /\ IF BlockAt(block[h]) = NoBlock
          THEN pc' = [pc EXCEPT ![h] = "crashed"] /\ UNCHANGED reply
          ELSE /\ pc' = [pc EXCEPT ![h] = "done"]
               /\ reply' = [reply EXCEPT ![h] = [kind |-> "ok", block |-> block[h],
                                                 blockhash |-> BlockAt(block[h]),
                                                 hash |-> StateHash]]
    /\ holder' = NoHolder
    /\ UNCHANGED <<chain, arg, block, seen>>

-----------------------------------------------------------------------------
(* getinfo (2066-2081).                                                    *)

\* int block = GetHeight();
InfoHeight(h) ==
    /\ pc[h] = "height" /\ CanLock(h)
    /\ pc' = [pc EXCEPT ![h] = "time"]
    /\ block' = [block EXCEPT ![h] = Tip]
    /\ UNCHANGED <<chain, holder, arg, seen, reply>>

\* int64_t blockTime = GetLatestBlockTime(); (the tip's time)
InfoTime(h) ==
    /\ pc[h] = "time" /\ CanLock(h)
    /\ pc' = [pc EXCEPT ![h] = "counts"]
    /\ seen' = [seen EXCEPT ![h] = BlockAt(Tip)]
    /\ UNCHANGED <<chain, holder, arg, block, reply>>

\* LOCK(cs_main); the transaction count of block `block` and the totals.
InfoCounts(h) ==
    /\ pc[h] = "counts" /\ CanLock(h)
    /\ pc' = [pc EXCEPT ![h] = "done"]
    /\ reply' = [reply EXCEPT ![h] = [kind |-> "ok", block |-> block[h], blocktime |-> seen[h],
                                      counted |-> BlockAt(block[h])]]
    /\ UNCHANGED <<chain, holder, arg, block, seen>>

-----------------------------------------------------------------------------
(* listblocktransactions (1719-1750).                                      *)

\* RequireHeightInChain(blockHeight): an error above the tip.
ListCheck(h) ==
    /\ pc[h] = "check" /\ CanLock(h)
    /\ IF arg[h] > Tip
          THEN pc' = [pc EXCEPT ![h] = "done"] /\ reply' = [reply EXCEPT ![h] = Error]
          ELSE pc' = [pc EXCEPT ![h] = "read"] /\ UNCHANGED reply
    /\ UNCHANGED <<chain, holder, arg, block, seen>>

\* { LOCK(cs_main); ReadBlockFromDisk(block, chainActive[blockHeight]) }:
\* a null index is dereferenced.
ListRead(h) ==
    /\ pc[h] = "read" /\ CanLock(h)
    /\ IF BlockAt(arg[h]) = NoBlock
          THEN pc' = [pc EXCEPT ![h] = "crashed"] /\ UNCHANGED seen
          ELSE pc' = [pc EXCEPT ![h] = "filter"] /\ seen' = [seen EXCEPT ![h] = BlockAt(arg[h])]
    /\ UNCHANGED <<chain, holder, arg, block, reply>>

\* LOCK(cs_main); the block's transactions that p_txlistdb knows.
ListFilter(h) ==
    /\ pc[h] = "filter" /\ CanLock(h)
    /\ pc' = [pc EXCEPT ![h] = "done"]
    /\ reply' = [reply EXCEPT ![h] = [kind |-> "ok", block |-> seen[h]]]
    /\ UNCHANGED <<chain, holder, arg, block, seen>>

-----------------------------------------------------------------------------
FirstStep == [h \in Handlers |->
                IF h \in HashCalls THEN "lock"
                ELSE IF h = "getinfo" THEN "height" ELSE "check"]

\* The arguments a caller may give: getcurrentconsensushash takes none,
\* getmetadexhash an optional property (with an existing one it runs as
\* without), getbalanceshash a required one.
Args == [consensushash : {"none"}, metadexhash : {"none", "missing"},
         balanceshash : {"exists", "missing"}, getinfo : {"none"},
         listblocktransactions : 0..MaxHeight]

Init ==
    /\ chain = <<Genesis>>
    /\ holder = NoHolder
    /\ pc = FirstStep
    /\ arg \in Args
    /\ block = [h \in Handlers |-> 0]
    /\ seen = [h \in Handlers |-> NoBlock]
    /\ reply = [h \in Handlers |-> None]

Next ==
    \/ \E f \in Forks : ConnectTip(f)
    \/ DisconnectTip
    \/ \E h \in HashCalls : HashLock(h) \/ HashRead(h)
    \/ InfoHeight("getinfo") \/ InfoTime("getinfo") \/ InfoCounts("getinfo")
    \/ ListCheck("listblocktransactions") \/ ListRead("listblocktransactions")
    \/ ListFilter("listblocktransactions")

Spec == Init /\ [][Next]_vars

-----------------------------------------------------------------------------
\* The question of the TODO at getcurrentconsensushash's LOCK(cs_main):
\* the three state-hash handlers never crash, and each reply's block
\* number, block hash and state hash describe one and the same tip: the
\* state hashed is that of the chain ending at the block whose hash is
\* reported, however blocks are connected and disconnected meanwhile.
HashRepliesOneTip ==
    \A h \in HashCalls :
       /\ pc[h] # "crashed"
       /\ reply[h].kind = "ok" =>
             /\ Len(reply[h].hash) = reply[h].block + 1
             /\ reply[h].blockhash = <<reply[h].block, reply[h].hash[reply[h].block + 1]>>
=============================================================================
