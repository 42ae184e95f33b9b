----------------------------- MODULE MCSession -----------------------------
EXTENDS Session

CONSTANTS t1, t2, t3   \* texts
=============================================================================
