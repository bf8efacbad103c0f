--------------------------- MODULE ElysiumGrants -----------------------------
(***************************************************************************)
(* elysium_getgrants (src/elysium/rpc.cpp): refuse a property that does    *)
(* not exist or is not managed, copy the property entry under cs_main,     *)
(* then list its historicalData (a map keyed by transaction hash, so in    *)
(* hash order, not block order): a "grant" row when the entry granted      *)
(* tokens and a "revoke" row when it revoked some.  The property database  *)
(* is not under src/: an entry is a sequence of (granted, revoked) amounts *)
(* in map order.  getTotalTokens is read after cs_main is released; this   *)
(* model reads it with the entry (see the README on that hazard).          *)
(***************************************************************************)
EXTENDS Integers, SequencesExt

CONSTANTS
    MaxHistory,  \* bound on the transactions in historicalData
    MaxAmount    \* bound on a granted or revoked amount

Amounts == 0..MaxAmount
Issuance == [granted : Amounts, revoked : Amounts]

VARIABLES
    exists,    \* RequireExistingProperty passes
    managed,   \* RequireManagedProperty passes
    history    \* sp.historicalData: (granted, revoked) per transaction

vars == <<exists, managed, history>>

\* Mutant: an entry that granted tokens hides the tokens it revoked.
RowsOfExclusive(e) ==
    IF e.granted > 0 THEN <<[kind |-> "grant", amount |-> e.granted]>>
    ELSE IF e.revoked > 0 THEN <<[kind |-> "revoke", amount |-> e.revoked]>>
    ELSE <<>>

\* The loop body: a grant row if grantedTokens > 0, then a revoke row if
\* revokedTokens > 0.
RowsOf(e) ==
    (IF e.granted > 0 THEN <<[kind |-> "grant", amount |-> e.granted]>> ELSE <<>>)
      \o (IF e.revoked > 0 THEN <<[kind |-> "revoke", amount |-> e.revoked]>> ELSE <<>>)

\* RequireExistingProperty and RequireManagedProperty throw.
Refused == ~exists \/ ~managed

\* The "issuances" array of the reply, when the call is not refused.
GetGrants == FoldLeft(LAMBDA acc, e : acc \o RowsOf(e), <<>>, history)

Init ==
    /\ exists \in BOOLEAN
    /\ managed \in BOOLEAN
    /\ history \in UNION {[1..n -> Issuance] : n \in 0..MaxHistory}

Next == UNCHANGED vars

Spec == Init /\ [][Next]_vars

-----------------------------------------------------------------------------
\* Signed sum of a sequence of rows: grants minus revocations.
RowsNet(rows) ==
    FoldLeft(LAMBDA acc, r : IF r.kind = "grant" THEN acc + r.amount ELSE acc - r.amount,
             0, rows)

\* The issuances of getgrants account for the property's whole history:
\* no row has a zero amount, and the rows' grants minus revocations
\* equal the granted minus the revoked tokens of every transaction.
IssuancesReconcile ==
    LET rows == GetGrants IN
    ~Refused =>
        /\ \A i \in 1..Len(rows) : rows[i].amount > 0
        /\ RowsNet(rows) = FoldLeft(LAMBDA acc, e : acc + e.granted - e.revoked, 0, history)
=============================================================================
