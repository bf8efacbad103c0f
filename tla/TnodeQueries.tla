---------------------------- MODULE TnodeQueries -----------------------------
(***************************************************************************)
(* The operator's read commands on the tnode registry, from               *)
(* src/rpc/rpctnode.cpp: "tnode count", "tnode current | winner",          *)
(* "tnode list-conf" and "tnodelist".  They run on an RPC thread while the *)
(* message-handling thread keeps changing the registry.  Each mnodeman     *)
(* call takes mnodeman's lock for itself only, so a command that makes     *)
(* several calls, or that keeps a CTnode* returned by one call and reads   *)
(* through it later, sees the registry at several instants.  One command   *)
(* is in progress at a time.                                               *)
(*                                                                         *)
(* The payment queue (GetNextTnodeInQueueForPayment, GetTnodeRanks) is not *)
(* under src/: it is the selection of spec 4.4 (PaymentSelector).  Last    *)
(* payments are not tracked, so every tnode ranks as never paid and the    *)
(* order among qualifiers is the height-seeded tie-break.                  *)
(***************************************************************************)
EXTENDS TnodeMan, Sequences

CONSTANTS
    ConfOrder,     \* the outpoints of tnode.conf entries, in file order
    TieBreak(_, _) \* TieBreak(o, h): rank key of o for height h (a hash)

ASSUME ConfOrder \in Seq(Outpoints)

\* The modes of "tnode count" that are a single mnodeman call.
CountModes == {"total", "ps", "enabled", "qualify"}
\* The three values "count all" formats after it has nCount.
AllReads == {"total", "ps", "enabled"}
Commands == {"idle", "count-all", "current", "winner", "list-conf", "tnodelist"}
NoTnode == "unknown"

VARIABLES
    qCmd,     \* the command in progress, or "idle"
    qHeight,  \* current/winner: the height read under cs_main
    qPtr,     \* an outpoint whose CTnode* the command holds, or NoTnode
    qTodo,    \* list-conf, tnodelist: entries the loop has still to visit
    qReads,   \* count all: reads of the format arguments not yet made
    qCount    \* the value each count read returned (-1: not read)

qVars == <<qCmd, qHeight, qPtr, qTodo, qReads, qCount>>
vars == <<manVars, qVars>>

QueryTypeOK ==
    /\ TypeOK
    /\ qCmd \in Commands
    /\ qHeight \in Nat
    /\ qPtr \in Outpoints \cup {NoTnode}
    /\ qTodo \in Seq(Outpoints)
    /\ qReads \subseteq AllReads
    /\ qCount \in [CountModes -> -1..Cardinality(Outpoints)]

-----------------------------------------------------------------------------
(* mnodeman's counting and selection (not under src/; spec 4.1, 4.4).      *)

\* CountEnabled(): the records whose derived state is ENABLED.  With a
\* protocol argument (MIN_PRIVATESEND_PEER_PROTO_VERSION) the records must
\* also meet it; a record below the minimum is UPDATE_REQUIRED in any case.
CountEnabled == Cardinality({o \in DOMAIN mnodes : IsEnabled(o)})

\* Spec 4.4: ENABLED, protocol at least the minimum, collateral mature and
\* score below the ban threshold.
Qualifies(o) == IsEnabled(o) /\ utxo[o] = "mature"
Qualifiers == {o \in DOMAIN mnodes : Qualifies(o)}

\* GetNextTnodeInQueueForPayment(h): the first of the qualifiers in the
\* order of the tie-break for h, or none.
NextPayee(h) ==
    IF Qualifiers = {} THEN NoTnode
    ELSE CHOOSE o \in Qualifiers :
            \A p \in Qualifiers : TieBreak(o, h) <= TieBreak(p, h)

\* The value of one count read: size(), CountEnabled(ps), CountEnabled(),
\* and the nCount out-parameter of GetNextTnodeInQueueForPayment.
CountRead(mode) ==
    CASE mode = "total"   -> Cardinality(DOMAIN mnodes)
      [] mode = "qualify" -> Cardinality(Qualifiers)
      [] OTHER            -> CountEnabled

NoCounts == [r \in CountModes |-> -1]

-----------------------------------------------------------------------------
(* tnode count [mode]: one mnodeman call; the reply is the value read.     *)
CountCmd(mode) ==
    /\ qCmd = "idle"
    /\ qCount' = [NoCounts EXCEPT ![mode] = CountRead(mode)]
    /\ UNCHANGED <<manVars, qCmd, qHeight, qPtr, qTodo, qReads>>

(* tnode count all: nCount first (GetNextTnodeInQueueForPayment), then the *)
(* three arguments of strprintf, each a separate call.  C++ leaves the     *)
(* order in which function arguments are evaluated unspecified: each step  *)
(* makes any one of the reads still to make.                               *)
CountAllBegin ==
    /\ qCmd = "idle"
    /\ qCmd' = "count-all"
    /\ qReads' = AllReads
    /\ qCount' = [NoCounts EXCEPT !["qualify"] = CountRead("qualify")]
    /\ UNCHANGED <<manVars, qHeight, qPtr, qTodo>>

CountAllRead(r) ==
    /\ qCmd = "count-all"
    /\ r \in qReads
    /\ qReads' = qReads \ {r}
    /\ qCount' = [qCount EXCEPT ![r] = CountRead(r)]
    /\ UNCHANGED <<manVars, qCmd, qHeight, qPtr, qTodo>>

-----------------------------------------------------------------------------
(* tnode current | winner: the height under cs_main (tip + 1, or tip + 10  *)
(* for winner); then, without cs_main, UpdateLastPaid and the selection,   *)
(* which returns a CTnode* into the registry or NULL ("unknown"); then the *)
(* reply's fields are read through that pointer, under no lock.            *)
CurrentBegin(cmd) ==
    /\ qCmd = "idle"
    /\ qCmd' = cmd
    /\ qHeight' = height + (IF cmd = "current" THEN 1 ELSE 10)
    /\ qCount' = NoCounts
    /\ UNCHANGED <<manVars, qPtr, qTodo, qReads>>

CurrentSelect ==
    /\ qCmd \in {"current", "winner"}
    /\ qPtr = NoTnode
    /\ LET w == NextPayee(qHeight) IN
       \/ /\ w = NoTnode
          /\ qCmd' = "idle"
          /\ UNCHANGED qPtr
       \/ /\ w # NoTnode
          /\ qPtr' = w
          /\ UNCHANGED qCmd
    /\ UNCHANGED <<manVars, qHeight, qTodo, qReads, qCount>>

CurrentReply ==
    /\ qCmd \in {"current", "winner"}
    /\ qPtr # NoTnode
    /\ qCmd' = "idle"
    /\ qPtr' = NoTnode
    /\ UNCHANGED <<manVars, qHeight, qTodo, qReads, qCount>>

-----------------------------------------------------------------------------
(* tnode list-conf: for each tnode.conf entry, Find (a CTnode* or NULL,    *)
(* reported as MISSING), then GetStatus through the pointer.               *)
ListConfBegin ==
    /\ qCmd = "idle"
    /\ qCmd' = "list-conf"
    /\ qTodo' = ConfOrder
    /\ qCount' = NoCounts
    /\ UNCHANGED <<manVars, qHeight, qPtr, qReads>>

ListConfFind ==
    /\ qCmd = "list-conf"
    /\ qPtr = NoTnode
    /\ qTodo # <<>>
    /\ qPtr' = IF Head(qTodo) \in DOMAIN mnodes THEN Head(qTodo) ELSE NoTnode
    /\ qTodo' = Tail(qTodo)
    /\ UNCHANGED <<manVars, qCmd, qHeight, qReads, qCount>>

ListConfStatus ==
    /\ qCmd = "list-conf"
    /\ qPtr # NoTnode
    /\ qPtr' = NoTnode
    /\ UNCHANGED <<manVars, qCmd, qHeight, qTodo, qReads, qCount>>

-----------------------------------------------------------------------------
(* tnodelist [mode]: GetFullTnodeVector (or GetTnodeRanks) copies the      *)
(* records under the lock; the loop then formats one copy per step, so it  *)
(* holds no pointer into the registry.  The row order is the vector's.     *)
TnodeListBegin ==
    /\ qCmd = "idle"
    /\ \E order \in [1..Cardinality(DOMAIN mnodes) -> DOMAIN mnodes] :
          /\ Range(order) = DOMAIN mnodes
          /\ qTodo' = order
    /\ qCmd' = "tnodelist"
    /\ qCount' = NoCounts
    /\ UNCHANGED <<manVars, qHeight, qPtr, qReads>>

TnodeListRow ==
    /\ qCmd = "tnodelist"
    /\ qTodo # <<>>
    /\ qTodo' = Tail(qTodo)
    /\ UNCHANGED <<manVars, qCmd, qHeight, qPtr, qReads, qCount>>

\* The loop of count all, list-conf or tnodelist is over: the reply is sent.
QueryEnd ==
    /\ qCmd \in {"count-all", "list-conf", "tnodelist"}
    /\ qReads = {} /\ qTodo = <<>> /\ qPtr = NoTnode
    /\ qCmd' = "idle"
    /\ UNCHANGED <<manVars, qHeight, qPtr, qTodo, qReads, qCount>>

-----------------------------------------------------------------------------
QueryInit ==
    /\ InitMan
    /\ qCmd = "idle"
    /\ qHeight = 0
    /\ qPtr = NoTnode
    /\ qTodo = <<>>
    /\ qReads = {}
    /\ qCount = NoCounts

QueryNext ==
    \/ \E mode \in CountModes : CountCmd(mode)
    \/ CountAllBegin
    \/ \E r \in AllReads : CountAllRead(r)
    \/ \E cmd \in {"current", "winner"} : CurrentBegin(cmd)
    \/ CurrentSelect
    \/ CurrentReply
    \/ ListConfBegin \/ ListConfFind \/ ListConfStatus
    \/ TnodeListBegin \/ TnodeListRow
    \/ QueryEnd

QuerySpec == QueryInit /\ [][(Next /\ UNCHANGED qVars) \/ QueryNext]_vars

-----------------------------------------------------------------------------
(* Properties.                                                             *)

\* The reply of "tnode count all" -- "Total: %d (PS Compatible: %d /
\* Enabled: %d / Qualify: %d)" -- is a breakdown of one registry: the
\* qualifying tnodes are enabled ones and the enabled are among the total.
CountAllConsistent ==
    (qCmd = "count-all" /\ qReads = {}) =>
        /\ qCount["qualify"] <= qCount["enabled"]
        /\ qCount["enabled"] <= qCount["total"]
        /\ qCount["ps"] <= qCount["total"]

\* A CTnode* a command holds (from Find or from the payment queue) points
\* at a record still in the registry when the command reads through it:
\* the registry never removes the record between the call that returned
\* the pointer and the dereference.
NoDanglingTnode == qPtr # NoTnode => qPtr \in DOMAIN mnodes
=============================================================================
