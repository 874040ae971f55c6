-------------------------- MODULE MCFreezePlaybook --------------------------
(* Small instances of FreezePlaybook for TLC.                              *)
EXTENDS FreezePlaybook

=============================================================================
