--------------------------- MODULE RunLifecycleMC ---------------------------
(* Small instances of RunLifecycle for TLC. *)
EXTENDS RunLifecycle, TLC

\* Participants are interchangeable; used where no liveness is checked.
ParticipantSymmetry == Permutations(Participants)
=============================================================================
