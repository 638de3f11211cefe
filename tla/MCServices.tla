----------------------------- MODULE MCServices -----------------------------
EXTENDS Services

CONSTANTS f1, f2, n1, n2

Ops == 1..2
=============================================================================
