------------------------ MODULE ElysiumTradeHistory -------------------------
(***************************************************************************)
(* elysium_gettradehistoryforaddress (src/elysium/rpc.cpp): the address's  *)
(* trades come from the trade database as a vector sorted oldest first;    *)
(* the handler walks it newest first and keeps each trade for which        *)
(* populateRPCTransactionObject succeeds, stopping once it has kept        *)
(* "count" of them.  getTradesForAddress and populateRPCTransactionObject  *)
(* are not under src/: the first is any sorted vector of trades, the       *)
(* second succeeds or fails per trade.                                     *)
(***************************************************************************)
EXTENDS Integers, SequencesExt

CONSTANTS
    MaxTrades,  \* bound on the number of trades of the address
    MaxCount    \* bound on the count parameter

\* count is read with get_int64 into a uint64_t: a negative value converts
\* to 2^64 + count, which no uint32_t number of kept trades ever reaches.
\* Unbounded stands for it: larger than any number of trades in the model.
Unbounded == MaxTrades + 1
AsUInt64(c) == IF c < 0 THEN Unbounded ELSE c

VARIABLES
    trades,  \* trades[i]: populateRPCTransactionObject succeeds on the i-th oldest
    count    \* the count parameter as passed (default 10)

vars == <<trades, count>>

\* Mutant: a trade is kept even when populating it failed.
RECURSIVE CollectKeepsFailed(_, _)
CollectKeepsFailed(i, kept) ==
    IF i = 0 THEN kept
    ELSE LET next == Append(kept, i) IN
         IF Len(next) >= AsUInt64(count) THEN next
         ELSE CollectKeepsFailed(i - 1, next)

\* The loop from rbegin(): Collect(i, kept) visits trades i, i-1, ..., 1;
\* a populated trade is pushed, then processed >= count ends the loop.
RECURSIVE Collect(_, _)
Collect(i, kept) ==
    IF i = 0 THEN kept
    ELSE IF ~trades[i] THEN Collect(i - 1, kept)
    ELSE LET next == Append(kept, i) IN
         IF Len(next) >= AsUInt64(count) THEN next
         ELSE Collect(i - 1, next)

Reply == Collect(Len(trades), <<>>)

\* The trades a reader of the help expects, newest first: those that could
\* be populated.
NewestFirst == Reverse(SelectSeq([i \in 1..Len(trades) |-> i], LAMBDA i : trades[i]))

Init ==
    /\ trades \in UNION {[1..n -> BOOLEAN] : n \in 0..MaxTrades}
    /\ count \in -1..MaxCount

Next == UNCHANGED vars

Spec == Init /\ [][Next]_vars

\* The reply is the newest populated trades, newest first, with none
\* skipped and none out of order: a prefix of NewestFirst.
ReplyIsNewestFirst == IsPrefix(Reply, NewestFirst)

\* The help text: "count ... number of orders to retrieve (default: 10)";
\* a count of n retrieves at most n.
ReplyHonoursCount == count >= 0 => Len(Reply) <= count
=============================================================================
