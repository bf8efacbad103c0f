---------------------- MODULE ElysiumListTransactions -----------------------
(***************************************************************************)
(* elysium_listtransactions (src/elysium/rpc.cpp): parameters count, skip  *)
(* (nFrom), startblock and endblock, each refused when negative; the       *)
(* wallet's Elysium transactions in the block range are fetched with the   *)
(* limit nFrom + nCount, iterated newest first, and each is kept when      *)
(* populateRPCTransactionObject succeeds (it fails for a transaction that  *)
(* does not involve the address filter).  The cut on nFrom and nCount is   *)
(* commented out.  FetchWalletElysiumTransactions is not under src/: all   *)
(* that is assumed of it is that it honours its limit and returns, in      *)
(* wallet order, transactions of the range.                                *)
(***************************************************************************)
EXTENDS Integers, SequencesExt

CONSTANTS
    MaxTx,      \* bound on the number of wallet transactions
    MaxBlock,   \* bound on block heights
    MaxParam    \* bound on the count and skip parameters

\* A wallet transaction: its block, and whether it passes the address filter.
Tx == [block : 0..MaxBlock, match : BOOLEAN]

VARIABLES
    wallet,   \* the wallet's Elysium transactions, oldest first
    params,   \* [count, from, start, end] as passed (possibly negative)
    fetched   \* what FetchWalletElysiumTransactions returned

vars == <<wallet, params, fetched>>

\* Parameter validation: the first negative parameter throws.
Refused == \E f \in {"count", "from", "start", "end"} : params[f] < 0

InRange(t) == params.start <= t.block /\ t.block <= params.end

\* FetchWalletElysiumTransactions(nFrom + nCount, nStartBlock, nEndBlock).
Fetches == {s \in AllSubSeqs(SelectSeq(wallet, InRange)) :
                Len(s) <= params.from + params.count}

\* The reply: fetched transactions newest first, those populated kept.
Reply == SelectSeq(Reverse(fetched), LAMBDA t : t.match)

Wallets == UNION {{w \in [1..n -> Tx] : IsSorted([i \in 1..n |-> w[i].block], <=)}
                  : n \in 0..MaxTx}

Init ==
    /\ wallet \in Wallets
    /\ params \in [count : -1..MaxParam, from : -1..MaxParam,
                   start : -1..MaxBlock, end : -1..MaxBlock]
    /\ fetched \in IF Refused THEN {<<>>} ELSE Fetches

Next == UNCHANGED vars

Spec == Init /\ [][Next]_vars

\* The help text of the call: "count ... show at most n transactions".
ReplyHonoursCount == ~Refused => Len(Reply) <= params.count
=============================================================================
