--------------------------- MODULE MCTokenRefresh ---------------------------
(* An instance of TokenRefresh: two accounts with refresh tokens, the code's  *)
(* thresholds in their order at a small scale, lives within and beyond them.  *)
EXTENDS TokenRefresh
CONSTANTS a1, a2
Lifetimes == {1, 3, 5}
=============================================================================
