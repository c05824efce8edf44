----------------------------- MODULE StudyRunsMC -----------------------------
(* Small instances of StudyRuns for TLC. *)
EXTENDS StudyRuns, TLC

StudySymmetry == Permutations(Clients) \cup Permutations(Runs) \cup Permutations(Slots)
                   \cup Permutations(Tasks)
=============================================================================
