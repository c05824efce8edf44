----------------------------- MODULE JobQueueMC -----------------------------
(* Small instances of JobQueue for TLC. *)
EXTENDS JobQueue, TLC

\* Loops are interchangeable; no temporal property is checked with this.
LoopSymmetry == Permutations(Workers)
=============================================================================
