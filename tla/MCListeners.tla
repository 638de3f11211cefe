---------------------------- MODULE MCListeners ----------------------------
(***************************************************************************)
(* Listeners for TLC; the configuration gives every constant its value.       *)
(***************************************************************************)
EXTENDS Listeners
=============================================================================
