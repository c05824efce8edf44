---------------------------- MODULE RunProgressMC ----------------------------
(* Small instances of RunProgress for TLC. *)
EXTENDS RunProgress, TLC
=============================================================================
