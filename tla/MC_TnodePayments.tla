-------------------------- MODULE MC_TnodePayments ---------------------------
EXTENDS TnodePayments, TLC

CONSTANTS v1, v2, v3, p1, p2

MCVoters == {v1, v2, v3}
MCPayees == {p1, p2}
=============================================================================
