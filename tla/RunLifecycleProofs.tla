------------------------- MODULE RunLifecycleProofs -------------------------
(***************************************************************************)
(* Proofs about RunLifecycle, for any sets of participants and cancels and *)
(* any bounds on attempts and faults.                                      *)
(*                                                                         *)
(* RunInv is inductive because of the row locks.  While a session holds    *)
(* the lock of the run's row (a worker between lock_for_finalize and its   *)
(* commit, a cancel between MarkCancelling and its commit) nobody else can *)
(* commit, so what that session sees of the participants is what they will *)
(* be after its commit: the verdict it has computed still holds there, and *)
(* a cancel leaves nobody behind.  Before it has the lock a worker knows   *)
(* nothing of the run but a status that can no longer be CANCELLING.       *)
(***************************************************************************)
EXTENDS RunLifecycle, FiniteSetTheorems, TLAPS

USE RunAssumption
    DEF Terminal, Outcomes, RunFinal, RunStatuses, PartStatuses, Sessions, Goto, CGoto,
        runRow, partRows, jobRows, workers, cancels

-----------------------------------------------------------------------------
(* The worker's steps. *)

\* A claim takes a pending job; no row is written yet.
LEMMA ClaimPreserves ==
  ASSUME RunInv, NEW p \in Participants, Claim(p)
  PROVE  RunInv'
<1> USE DEF RunInv
<1>1. TypeOK'
  BY DEF TypeOK, Claim
<1>2. OpenJobs'
  BY DEF TypeOK, OpenJobs, Uncancelled, Claim
<1>3. RunLockHeld'
  BY DEF RunLockHeld, Claim
<1>4. PartLocksHeld'
  BY DEF PartLocksHeld, Claim
<1>5. OutcomeWritten'
  BY DEF OutcomeWritten, Claim
<1>6. CancelSweeps'
  BY DEF CancelSweeps, View, Claim
<1>7. VerdictHolds'
  BY DEF VerdictHolds, View, AllTerminalFor, Judgement, Claim
<1>8. JobAndParticipantAgree'
  BY DEF JobAndParticipantAgree, Claim
<1>9. StaleButSafe' /\ FinalIffAllTerminal' /\ AnalysisFollowsVerdict' /\ CancelIsImmediate'
  BY DEF StaleButSafe, FinalIffAllTerminal, AnalysisFollowsVerdict, CancelIsImmediate,
    Uncancelled, Claim
<1> QED
  BY <1>1, <1>2, <1>3, <1>4, <1>5, <1>6, <1>7, <1>8, <1>9

\* The run row a worker loads is never CANCELLING: that is never committed.
LEMMA LoadRunPreserves ==
  ASSUME RunInv, NEW p \in Participants, LoadRun(p)
  PROVE  RunInv'
<1> USE DEF RunInv
<1>1. TypeOK'
  BY DEF TypeOK, LoadRun
<1>2. OpenJobs'
  BY DEF OpenJobs, Uncancelled, LoadRun
<1>3. RunLockHeld'
  BY DEF RunLockHeld, LoadRun
<1>4. PartLocksHeld'
  BY DEF PartLocksHeld, LoadRun
<1>5. OutcomeWritten'
  BY DEF OutcomeWritten, LoadRun
<1>6. StaleButSafe'
  BY DEF StaleButSafe, CancelIsImmediate, LoadRun
<1>7. VerdictHolds'
  BY DEF VerdictHolds, View, AllTerminalFor, Judgement, LoadRun
<1>8. /\ CancelSweeps' /\ FinalIffAllTerminal' /\ JobAndParticipantAgree'
      /\ AnalysisFollowsVerdict' /\ CancelIsImmediate'
  BY DEF CancelSweeps, FinalIffAllTerminal, JobAndParticipantAgree, AnalysisFollowsVerdict,
    CancelIsImmediate, Uncancelled, View, LoadRun
<1> QED
  BY <1>1, <1>2, <1>3, <1>4, <1>5, <1>6, <1>7, <1>8

\* The flush of an outcome takes the lock of that participant's row.
LEMMA WriteOutcomePreserves ==
  ASSUME RunInv, NEW p \in Participants, WriteOutcome(p)
  PROVE  RunInv'
<1> USE DEF RunInv
<1>1. TypeOK'
  BY DEF TypeOK, WriteOutcome, WritePart
<1>2. OpenJobs'
  BY DEF OpenJobs, Uncancelled, WriteOutcome
<1>3. RunLockHeld'
  BY DEF RunLockHeld, WriteOutcome
<1>4. PartLocksHeld'
  BY DEF TypeOK, PartLocksHeld, WriteOutcome, WritePart
<1>5. OutcomeWritten'
  BY DEF TypeOK, OutcomeWritten, OpenJobs, WriteOutcome, WritePart
<1>6. CancelSweeps'
  BY DEF CancelSweeps, View, WriteOutcome, WritePart
<1>7. VerdictHolds'
  BY DEF VerdictHolds, View, AllTerminalFor, Judgement, WriteOutcome, WritePart
<1>8. /\ StaleButSafe' /\ FinalIffAllTerminal' /\ JobAndParticipantAgree'
      /\ AnalysisFollowsVerdict' /\ CancelIsImmediate'
  BY DEF StaleButSafe, FinalIffAllTerminal, JobAndParticipantAgree, AnalysisFollowsVerdict,
    CancelIsImmediate, Uncancelled, WriteOutcome
<1> QED
  BY <1>1, <1>2, <1>3, <1>4, <1>5, <1>6, <1>7, <1>8

\* The worker gets the run's row, so nobody else has it.
LEMMA LockForFinalizePreserves ==
  ASSUME RunInv, NEW p \in Participants, LockForFinalize(p)
  PROVE  RunInv'
<1> USE DEF RunInv
<1>1. TypeOK'
  BY DEF TypeOK, LockForFinalize, WriteRun
<1>2. OpenJobs'
  BY DEF OpenJobs, Uncancelled, LockForFinalize
<1>3. RunLockHeld'
  BY DEF TypeOK, RunLockHeld, LockForFinalize, WriteRun
<1>4. PartLocksHeld'
  BY DEF PartLocksHeld, LockForFinalize
<1>5. OutcomeWritten'
  BY DEF OutcomeWritten, LockForFinalize
<1>6. StaleButSafe'
  BY DEF StaleButSafe, CancelIsImmediate, LockForFinalize
<1>7. VerdictHolds'
  BY DEF VerdictHolds, RunLockHeld, LockForFinalize, WriteRun
<1>8. /\ CancelSweeps' /\ FinalIffAllTerminal' /\ JobAndParticipantAgree'
      /\ AnalysisFollowsVerdict' /\ CancelIsImmediate'
  BY DEF CancelSweeps, FinalIffAllTerminal, JobAndParticipantAgree, AnalysisFollowsVerdict,
    CancelIsImmediate, Uncancelled, View, LockForFinalize
<1> QED
  BY <1>1, <1>2, <1>3, <1>4, <1>5, <1>6, <1>7, <1>8

\* The verdict is written under the lock of the run, from what the session sees.
LEMMA FinalizeIfCompletePreserves ==
  ASSUME RunInv, NEW p \in Participants, FinalizeIfComplete(p)
  PROVE  RunInv'
<1> USE DEF RunInv
<1> DEFINE complete == AllTerminalFor(p)
           status   == IF complete THEN Verdict(p) ELSE seen[p]
<1>1. seen[p] \in RunStatuses \ {"CANCELLING"} /\ status \in RunStatuses
  BY DEF TypeOK, StaleButSafe, Verdict, Judgement
<1>2. Snapshot(p, status) \in Notes
  <2> DEFINE settled == {q \in Participants : View(p, q) \in Terminal}
  <2>1. Cardinality(settled) \in 0..Cardinality(Participants)
    BY FS_Subset, FS_CardinalityType
  <2> QED
    BY <1>1, <2>1 DEF Snapshot, Notes
<1>3. outbox' = [outbox EXCEPT ![p] = [enqueue |-> QueuesAnalysis(complete, status),
                                       note |-> Snapshot(p, status)]]
  BY DEF FinalizeIfComplete
<1>4. runNew' = IF status # seen[p] THEN status ELSE runNew
  BY DEF FinalizeIfComplete, WriteRun
<1>5. runLock = p /\ runLock' = p /\ runNew = run
  BY DEF FinalizeIfComplete, WriteRun, RunLockHeld, VerdictHolds
<1>6. complete => status \in RunFinal
  BY DEF Verdict, Judgement
<1>7. TypeOK'
  <2>1. QueuesAnalysis(complete, status) \in BOOLEAN
    BY DEF QueuesAnalysis
  <2>2. outbox' \in [Participants -> Outboxes]
    BY <1>2, <1>3, <2>1 DEF TypeOK, Outboxes
  <2> QED
    BY <1>1, <1>4, <1>5, <2>2 DEF TypeOK, FinalizeIfComplete
<1>8. OpenJobs'
  BY DEF OpenJobs, Uncancelled, FinalizeIfComplete
<1>9. RunLockHeld'
  BY DEF RunLockHeld, FinalizeIfComplete, WriteRun
<1>10. PartLocksHeld'
  BY DEF PartLocksHeld, FinalizeIfComplete
<1>11. OutcomeWritten'
  BY DEF OutcomeWritten, FinalizeIfComplete
<1>12. VerdictHolds'
  <2>1. AllTerminalFor(p)' <=> complete
    BY DEF AllTerminalFor, View, FinalizeIfComplete
  <2>2. Judgement(p)' = Judgement(p)
    BY DEF Judgement, View, FinalizeIfComplete
  <2>3. \A q \in Participants : pc'[q] = IF q = p THEN "finalized" ELSE pc[q]
    BY DEF FinalizeIfComplete, TypeOK
  <2>4. \A q \in Participants : pc'[q] \in {"locked", "finalized"} => q = p
    BY <1>5, <2>3 DEF RunLockHeld
  <2>5. complete => status = Judgement(p)
    BY <1>1 DEF Verdict
  <2>6. /\ outbox'[p] \in [enqueue : BOOLEAN, note : Notes]
        /\ outbox'[p].enqueue <=> complete
    <3>1. outbox'[p] = [enqueue |-> QueuesAnalysis(complete, status), note |-> Snapshot(p, status)]
      BY <1>3 DEF TypeOK
    <3>2. QueuesAnalysis(complete, status) <=> complete
      BY <1>1 DEF QueuesAnalysis, Verdict, Judgement
    <3>3. QueuesAnalysis(complete, status) \in BOOLEAN
      BY DEF QueuesAnalysis
    <3> QED
      BY <1>2, <3>1, <3>2, <3>3
  <2>7. run' = run /\ (complete /\ status = seen[p] => run \in RunFinal)
    BY <1>6 DEF FinalizeIfComplete, StaleButSafe
  <2> QED
    BY <1>4, <1>5, <1>6, <2>1, <2>2, <2>3, <2>4, <2>5, <2>6, <2>7 DEF VerdictHolds
<1>13. /\ CancelSweeps' /\ StaleButSafe' /\ FinalIffAllTerminal' /\ JobAndParticipantAgree'
       /\ AnalysisFollowsVerdict' /\ CancelIsImmediate'
  BY DEF CancelSweeps, StaleButSafe, FinalIffAllTerminal, JobAndParticipantAgree,
    AnalysisFollowsVerdict, CancelIsImmediate, Uncancelled, View, FinalizeIfComplete
<1> QED
  BY <1>7, <1>8, <1>9, <1>10, <1>11, <1>12, <1>13

\* A worker's commit writes its participant's row and no other, and decides the run
\* if that was the last one.
LEMMA CommitJobWrites ==
  ASSUME RunInv, NEW p \in Participants, CommitJob(p)
  PROVE  /\ runLock = p
         /\ \A q \in Participants : partLock[q] = p => q = p
         /\ View(p, p) \in Terminal /\ (~ giving[p] => View(p, p) \in Outcomes)
         /\ part' = [part EXCEPT ![p] = View(p, p)]
         /\ \A q \in Participants : part'[q] = View(p, q)
         /\ AllTerminalFor(p) <=> \A q \in Participants : part'[q] \in Terminal
         /\ AllTerminalFor(p) => /\ run' \in {"COMPLETED", "FAILED", "CANCELLED"}
                                 /\ run' = Judgement(p) \/ (run' = run /\ run \in RunFinal)
         /\ ~ AllTerminalFor(p) => run' = run /\ run \notin RunFinal
         /\ run' # "CANCELLING"
         /\ aggregates' = aggregates + (IF AllTerminalFor(p) THEN 1 ELSE 0)
<1> USE DEF RunInv
<1>1. /\ runLock = p /\ run' = runNew
      /\ \A q \in Participants : partLock[q] = p => q = p
  BY DEF RunLockHeld, PartLocksHeld, CommitJob, Commit
<1>2. /\ part' = [part EXCEPT ![p] = View(p, p)]
      /\ \A q \in Participants : part'[q] = View(p, q)
  <2>1. part' = [q \in Participants |-> View(p, q)]
    BY DEF CommitJob, Commit
  <2>2. \A q \in Participants \ {p} : View(p, q) = part[q]
    BY <1>1 DEF View
  <2>3. part = [q \in Participants |-> part[q]]
    BY DEF TypeOK
  <2> QED
    BY <2>1, <2>2, <2>3
<1>3. View(p, p) \in Terminal /\ (~ giving[p] => View(p, p) \in Outcomes)
  BY DEF OutcomeWritten, View, CommitJob
<1>4. AllTerminalFor(p) <=> \A q \in Participants : part'[q] \in Terminal
  BY <1>2 DEF AllTerminalFor
<1>5. run \in RunFinal => AllTerminalFor(p)
  BY <1>2, <1>3, <1>4 DEF FinalIffAllTerminal
<1>6. /\ AllTerminalFor(p) => /\ run' \in {"COMPLETED", "FAILED", "CANCELLED"}
                              /\ run' = Judgement(p) \/ (run' = run /\ run \in RunFinal)
      /\ ~ AllTerminalFor(p) => run' = run /\ run \notin RunFinal
      /\ run' # "CANCELLING"
  BY <1>1, <1>5 DEF VerdictHolds, CancelIsImmediate, CommitJob
<1>7. aggregates' = aggregates + (IF AllTerminalFor(p) THEN 1 ELSE 0)
  BY DEF VerdictHolds, CommitJob
<1> QED
  BY <1>1, <1>2, <1>3, <1>4, <1>6, <1>7

\* With the worker's commit everything it has flushed is there at once.
LEMMA CommitJobPreserves ==
  ASSUME RunInv, NEW p \in Participants, CommitJob(p)
  PROVE  RunInv'
<1> USE DEF RunInv
<1>1. /\ runLock = p
      /\ \A q \in Participants : partLock[q] = p => q = p
  BY CommitJobWrites
<1>2. part' = [part EXCEPT ![p] = View(p, p)]
  BY CommitJobWrites
<1>3. View(p, p) \in Terminal /\ (~ giving[p] => View(p, p) \in Outcomes)
  BY CommitJobWrites
<1>4. AllTerminalFor(p) <=> \A q \in Participants : part'[q] \in Terminal
  BY CommitJobWrites
<1>5. /\ AllTerminalFor(p) => run' \in {"COMPLETED", "FAILED", "CANCELLED"}
      /\ ~ AllTerminalFor(p) => run' = run /\ run \notin RunFinal
      /\ run' # "CANCELLING"
  BY CommitJobWrites
<1>6. aggregates' = aggregates + (IF AllTerminalFor(p) THEN 1 ELSE 0)
  BY CommitJobWrites
<1>7. TypeOK'
  <2>1. attempts' \in [Participants -> 0..MaxAttempts]
    BY DEF TypeOK, OpenJobs, CommitJob
  <2>2. part' \in [Participants -> PartStatuses]
    BY <1>2, <1>3 DEF TypeOK
  <2>3. /\ runLock' \in Sessions \cup {None}
        /\ partLock' \in [Participants -> Sessions \cup {None}]
    BY DEF TypeOK, CommitJob, Commit, Unlock
  <2>4. aggregates' \in Nat
    BY <1>6 DEF TypeOK
  <2>5. outbox' \in [Participants -> Outboxes]
    BY DEF TypeOK, Outboxes, CommitJob, EndSession
  <2> QED
    BY <2>1, <2>2, <2>3, <2>5 DEF TypeOK, CommitJob, Commit, EndSession
<1>8. OpenJobs'
  BY <1>2 DEF TypeOK, OpenJobs, Uncancelled, CommitJob, EndSession
<1>9. RunLockHeld'
  BY DEF TypeOK, RunLockHeld, CommitJob, Commit, Unlock, EndSession
<1>10. PartLocksHeld'
  BY DEF PartLocksHeld, RunLockHeld, CommitJob, Commit, Unlock, EndSession
<1>11. OutcomeWritten'
  BY <1>2 DEF TypeOK, OutcomeWritten, CommitJob, Commit, Unlock, EndSession
<1>12. CancelSweeps'
  BY DEF CancelSweeps, RunLockHeld, CommitJob, EndSession
<1>13. StaleButSafe'
  BY <1>5 DEF StaleButSafe, CommitJob, EndSession
<1>14. VerdictHolds'
  BY DEF TypeOK, VerdictHolds, RunLockHeld, CommitJob, EndSession
<1>15. FinalIffAllTerminal' /\ CancelIsImmediate'
  BY <1>4, <1>5 DEF FinalIffAllTerminal, CancelIsImmediate
<1>16. JobAndParticipantAgree'
  BY <1>2, <1>3 DEF TypeOK, JobAndParticipantAgree, CommitJob
<1>17. AnalysisFollowsVerdict'
  <2>1. Uncancelled' => Uncancelled /\ aggregates = 0
    BY DEF AnalysisFollowsVerdict, OpenJobs, Uncancelled, CommitJob, EndSession
  <2>2. aggregates \in Nat
    BY DEF TypeOK
  <2> QED
    BY <1>5, <1>6, <2>1, <2>2, <1>15 DEF AnalysisFollowsVerdict, FinalIffAllTerminal
<1> QED
  BY <1>7, <1>8, <1>9, <1>10, <1>11, <1>12, <1>13, <1>14, <1>15, <1>16, <1>17

\* A handler that raises leaves none of its writes behind.
LEMMA HandlerRaisesPreserves ==
  ASSUME RunInv, NEW p \in Participants, HandlerRaises(p)
  PROVE  RunInv'
<1> USE DEF RunInv
<1>1. TypeOK'
  BY DEF TypeOK, Outboxes, HandlerRaises, Rollback, Unlock
<1>2. OpenJobs'
  BY DEF OpenJobs, Uncancelled, HandlerRaises, Rollback
<1>3. RunLockHeld'
  BY DEF TypeOK, RunLockHeld, HandlerRaises, Rollback, Unlock
<1>4. PartLocksHeld'
  BY DEF PartLocksHeld, HandlerRaises, Rollback, Unlock
<1>5. OutcomeWritten'
  BY DEF TypeOK, OutcomeWritten, HandlerRaises, Rollback, Unlock
<1>6. CancelSweeps'
  BY DEF CancelSweeps, View, HandlerRaises, Rollback, Unlock
<1>7. VerdictHolds'
  BY DEF TypeOK, VerdictHolds, RunLockHeld, View, AllTerminalFor, Judgement, HandlerRaises,
    Rollback, Unlock
<1>8. /\ StaleButSafe' /\ FinalIffAllTerminal' /\ JobAndParticipantAgree'
      /\ AnalysisFollowsVerdict' /\ CancelIsImmediate'
  BY DEF StaleButSafe, FinalIffAllTerminal, JobAndParticipantAgree, AnalysisFollowsVerdict,
    CancelIsImmediate, Uncancelled, HandlerRaises, Rollback
<1> QED
  BY <1>1, <1>2, <1>3, <1>4, <1>5, <1>6, <1>7, <1>8

\* A job with attempts left is pending again.
LEMMA RequeuePreserves ==
  ASSUME RunInv, NEW p \in Participants, Requeue(p)
  PROVE  RunInv'
<1> USE DEF RunInv
<1>1. TypeOK'
  BY DEF TypeOK, Outboxes, Requeue, EndSession
<1>2. OpenJobs'
  BY DEF TypeOK, OpenJobs, Uncancelled, Requeue, EndSession
<1>3. RunLockHeld'
  BY DEF RunLockHeld, Requeue, EndSession
<1>4. PartLocksHeld'
  BY DEF PartLocksHeld, Requeue, EndSession
<1>5. OutcomeWritten'
  BY DEF OutcomeWritten, Requeue, EndSession
<1>6. CancelSweeps'
  BY DEF CancelSweeps, View, Requeue, EndSession
<1>7. VerdictHolds'
  BY DEF VerdictHolds, View, AllTerminalFor, Judgement, Requeue, EndSession
<1>8. JobAndParticipantAgree'
  BY DEF JobAndParticipantAgree, OpenJobs, Requeue
<1>9. StaleButSafe' /\ FinalIffAllTerminal' /\ AnalysisFollowsVerdict' /\ CancelIsImmediate'
  BY DEF StaleButSafe, FinalIffAllTerminal, AnalysisFollowsVerdict, CancelIsImmediate,
    Uncancelled, Requeue, EndSession
<1> QED
  BY <1>1, <1>2, <1>3, <1>4, <1>5, <1>6, <1>7, <1>8, <1>9

\* The last attempt has failed: the participant is to be given up.
LEMMA GiveUpPreserves ==
  ASSUME RunInv, NEW p \in Participants, GiveUp(p)
  PROVE  RunInv'
<1> USE DEF RunInv
<1>1. TypeOK'
  BY DEF TypeOK, GiveUp
<1>2. OpenJobs'
  BY DEF TypeOK, OpenJobs, Uncancelled, GiveUp
<1>3. RunLockHeld'
  BY DEF RunLockHeld, GiveUp
<1>4. PartLocksHeld'
  BY DEF PartLocksHeld, GiveUp
<1>5. OutcomeWritten'
  BY DEF TypeOK, OutcomeWritten, PartLocksHeld, GiveUp
<1>6. VerdictHolds'
  BY DEF VerdictHolds, View, AllTerminalFor, Judgement, GiveUp
<1>7. /\ CancelSweeps' /\ StaleButSafe' /\ FinalIffAllTerminal' /\ JobAndParticipantAgree'
      /\ AnalysisFollowsVerdict' /\ CancelIsImmediate'
  BY DEF CancelSweeps, StaleButSafe, FinalIffAllTerminal, JobAndParticipantAgree,
    AnalysisFollowsVerdict, CancelIsImmediate, Uncancelled, View, GiveUp
<1> QED
  BY <1>1, <1>2, <1>3, <1>4, <1>5, <1>6, <1>7

\* Giving up writes an outcome like any other.
LEMMA WriteErroredPreserves ==
  ASSUME RunInv, NEW p \in Participants, WriteErrored(p)
  PROVE  RunInv'
<1> USE DEF RunInv
<1>1. TypeOK'
  BY DEF TypeOK, WriteErrored, WritePart
<1>2. OpenJobs'
  BY DEF OpenJobs, Uncancelled, WriteErrored
<1>3. RunLockHeld'
  BY DEF RunLockHeld, WriteErrored
<1>4. PartLocksHeld'
  BY DEF TypeOK, PartLocksHeld, WriteErrored, WritePart
<1>5. OutcomeWritten'
  BY DEF TypeOK, OutcomeWritten, OpenJobs, WriteErrored, WritePart
<1>6. CancelSweeps'
  BY DEF CancelSweeps, View, WriteErrored, WritePart
<1>7. VerdictHolds'
  BY DEF VerdictHolds, View, AllTerminalFor, Judgement, WriteErrored, WritePart
<1>8. /\ StaleButSafe' /\ FinalIffAllTerminal' /\ JobAndParticipantAgree'
      /\ AnalysisFollowsVerdict' /\ CancelIsImmediate'
  BY DEF StaleButSafe, FinalIffAllTerminal, JobAndParticipantAgree, AnalysisFollowsVerdict,
    CancelIsImmediate, Uncancelled, WriteErrored
<1> QED
  BY <1>1, <1>2, <1>3, <1>4, <1>5, <1>6, <1>7, <1>8

\* A session that is lost writes nothing; its job stays RUNNING.
LEMMA AbandonJobPreserves ==
  ASSUME RunInv, NEW p \in Participants, AbandonJob(p), pc[p] # "idle",
         faults' \in 0..MaxFaults
  PROVE  RunInv'
<1> USE DEF RunInv
<1>1. TypeOK'
  <2>1. /\ runLock' \in Sessions \cup {None} /\ runNew' \in RunStatuses
        /\ partLock' \in [Participants -> Sessions \cup {None}]
        /\ partNew' \in [Participants -> PartStatuses]
    BY DEF TypeOK, AbandonJob, Rollback, Unlock
  <2> QED
    BY <2>1 DEF TypeOK, Outboxes, AbandonJob, Rollback, EndSession
<1>2. OpenJobs'
  BY DEF TypeOK, OpenJobs, Uncancelled, AbandonJob, Rollback, EndSession
<1>3. RunLockHeld'
  BY DEF TypeOK, RunLockHeld, AbandonJob, Rollback, Unlock, EndSession
<1>4. PartLocksHeld'
  BY DEF PartLocksHeld, AbandonJob, Rollback, Unlock, EndSession
<1>5. OutcomeWritten'
  BY DEF TypeOK, OutcomeWritten, AbandonJob, Rollback, Unlock, EndSession
<1>6. CancelSweeps'
  BY DEF CancelSweeps, View, AbandonJob, Rollback, Unlock, EndSession
<1>7. VerdictHolds'
  BY DEF TypeOK, VerdictHolds, RunLockHeld, View, AllTerminalFor, Judgement, AbandonJob,
    Rollback, Unlock, EndSession
<1>8. /\ StaleButSafe' /\ FinalIffAllTerminal' /\ JobAndParticipantAgree'
      /\ AnalysisFollowsVerdict' /\ CancelIsImmediate'
  BY DEF StaleButSafe, FinalIffAllTerminal, JobAndParticipantAgree, AnalysisFollowsVerdict,
    CancelIsImmediate, Uncancelled, AbandonJob, Rollback, EndSession
<1> QED
  BY <1>1, <1>2, <1>3, <1>4, <1>5, <1>6, <1>7, <1>8

-----------------------------------------------------------------------------
(* The steps of a cancel. *)

\* cancel_run has only read.
LEMMA CheckCancelPreserves ==
  ASSUME RunInv, NEW c \in Cancels, CheckCancel(c)
  PROVE  RunInv'
<1> USE DEF RunInv
<1>1. TypeOK'
  BY DEF TypeOK, CheckCancel
<1>2. OpenJobs'
  BY DEF OpenJobs, Uncancelled, CheckCancel
<1>3. RunLockHeld'
  BY DEF RunLockHeld, CheckCancel
<1>4. PartLocksHeld'
  BY DEF PartLocksHeld, CheckCancel
<1>5. CancelSweeps'
  BY DEF CancelSweeps, View, CheckCancel
<1>6. AnalysisFollowsVerdict'
  BY DEF AnalysisFollowsVerdict, Uncancelled, CheckCancel
<1>7. /\ OutcomeWritten' /\ StaleButSafe' /\ VerdictHolds' /\ FinalIffAllTerminal'
      /\ JobAndParticipantAgree' /\ CancelIsImmediate'
  BY DEF OutcomeWritten, StaleButSafe, VerdictHolds, FinalIffAllTerminal,
    JobAndParticipantAgree, CancelIsImmediate, View, AllTerminalFor, Judgement, CheckCancel
<1> QED
  BY <1>1, <1>2, <1>3, <1>4, <1>5, <1>6, <1>7

\* A cancel gets the run's row; CANCELLING is never committed.
LEMMA MarkCancellingPreserves ==
  ASSUME RunInv, NEW c \in Cancels, MarkCancelling(c)
  PROVE  RunInv'
<1> USE DEF RunInv
<1>1. TypeOK'
  BY DEF TypeOK, MarkCancelling, WriteRun
<1>2. OpenJobs'
  BY DEF OpenJobs, Uncancelled, MarkCancelling
<1>3. RunLockHeld'
  BY DEF TypeOK, RunLockHeld, MarkCancelling, WriteRun
<1>4. PartLocksHeld'
  BY DEF PartLocksHeld, MarkCancelling
<1>5. CancelSweeps'
  BY DEF CancelSweeps, View, MarkCancelling
<1>6. VerdictHolds'
  BY DEF VerdictHolds, RunLockHeld, MarkCancelling, WriteRun
<1>7. AnalysisFollowsVerdict'
  BY DEF AnalysisFollowsVerdict, Uncancelled, MarkCancelling
<1>8. /\ OutcomeWritten' /\ StaleButSafe' /\ FinalIffAllTerminal' /\ JobAndParticipantAgree'
      /\ CancelIsImmediate'
  BY DEF OutcomeWritten, StaleButSafe, FinalIffAllTerminal, JobAndParticipantAgree,
    CancelIsImmediate, MarkCancelling
<1> QED
  BY <1>1, <1>2, <1>3, <1>4, <1>5, <1>6, <1>7, <1>8

\* The sweep of the pending jobs is decided when the row locks are.
LEMMA CancelPendingPreserves ==
  ASSUME RunInv, NEW c \in Cancels, CancelPending(c)
  PROVE  RunInv'
<1> USE DEF RunInv
<1>1. TypeOK'
  BY DEF TypeOK, CancelPending
<1>2. OpenJobs'
  BY DEF OpenJobs, Uncancelled, CancelPending
<1>3. RunLockHeld'
  BY DEF RunLockHeld, CancelPending
<1>4. PartLocksHeld'
  BY DEF PartLocksHeld, CancelPending
<1>5. CancelSweeps'
  BY DEF TypeOK, CancelSweeps, PartLocksHeld, View, CancelPending
<1>6. AnalysisFollowsVerdict'
  BY DEF AnalysisFollowsVerdict, Uncancelled, CancelPending
<1>7. /\ OutcomeWritten' /\ StaleButSafe' /\ VerdictHolds' /\ FinalIffAllTerminal'
      /\ JobAndParticipantAgree' /\ CancelIsImmediate'
  BY DEF OutcomeWritten, StaleButSafe, VerdictHolds, FinalIffAllTerminal,
    JobAndParticipantAgree, CancelIsImmediate, View, AllTerminalFor, Judgement,
    CancelPending
<1> QED
  BY <1>1, <1>2, <1>3, <1>4, <1>5, <1>6, <1>7

\* A cancel locks the row of a participant it abandons.
LEMMA AbandonPartPreserves ==
  ASSUME RunInv, NEW c \in Cancels, NEW p \in Participants, AbandonPart(c, p)
  PROVE  RunInv'
<1> USE DEF RunInv
<1>1. TypeOK'
  BY DEF TypeOK, AbandonPart, WritePart, AllTerminalFor
<1>2. PartLocksHeld'
  BY DEF TypeOK, PartLocksHeld, AbandonPart, WritePart
<1>3. OutcomeWritten'
  BY DEF TypeOK, OutcomeWritten, AbandonPart, WritePart
<1>4. CancelSweeps'
  BY DEF TypeOK, CancelSweeps, View, AbandonPart, WritePart
<1>5. VerdictHolds'
  BY DEF VerdictHolds, RunLockHeld, AbandonPart
<1>6. /\ OpenJobs' /\ RunLockHeld' /\ StaleButSafe' /\ FinalIffAllTerminal'
      /\ JobAndParticipantAgree' /\ AnalysisFollowsVerdict' /\ CancelIsImmediate'
  BY DEF OpenJobs, RunLockHeld, StaleButSafe, FinalIffAllTerminal, JobAndParticipantAgree,
    AnalysisFollowsVerdict, CancelIsImmediate, Uncancelled, AbandonPart
<1> QED
  BY <1>1, <1>2, <1>3, <1>4, <1>5, <1>6

\* The commit of a cancel abandons everybody who is pending and nobody else.
LEMMA CommitCancelWrites ==
  ASSUME RunInv, NEW c \in Cancels, CommitCancel(c)
  PROVE  /\ run' = "CANCELLED" /\ runLock = c
         /\ part' = [q \in Participants |-> IF part[q] = "PENDING" THEN "ABANDONED" ELSE part[q]]
         /\ \A q \in Participants : partLock[q] = c => part[q] = "PENDING"
         /\ \A q \in Participants : part'[q] \in Terminal
<1> USE DEF RunInv
<1>1. /\ run' = "CANCELLED" /\ runLock = c
      /\ \A q \in Participants : View(c, q) \in Terminal
  BY DEF RunLockHeld, CancelSweeps, AllTerminalFor, CommitCancel, Commit
<1>2. \A q \in Participants : partLock[q] = c => part[q] = "PENDING" /\ View(c, q) = "ABANDONED"
  BY DEF PartLocksHeld, View
<1>3. \A q \in Participants : View(c, q) = IF part[q] = "PENDING" THEN "ABANDONED" ELSE part[q]
  BY <1>1, <1>2 DEF View
<1> QED
  BY <1>1, <1>2, <1>3 DEF CommitCancel, Commit

\* A cancel's commit settles the run and all its participants.
LEMMA CommitCancelPreserves ==
  ASSUME RunInv, NEW c \in Cancels, CommitCancel(c)
  PROVE  RunInv'
<1> USE DEF RunInv
<1>1. run' = "CANCELLED" /\ runLock = c
  BY CommitCancelWrites
<1>2. part' = [q \in Participants |-> IF part[q] = "PENDING" THEN "ABANDONED" ELSE part[q]]
  BY CommitCancelWrites
<1>3. \A q \in Participants : partLock[q] = c => part[q] = "PENDING"
  BY CommitCancelWrites
<1>4. \A q \in Participants : part'[q] \in Terminal
  BY CommitCancelWrites
<1>5. ~ Uncancelled /\ ~ Uncancelled'
  BY DEF Uncancelled, CommitCancel
<1>6. TypeOK'
  BY <1>4 DEF TypeOK, CommitCancel, Commit, Unlock
<1>7. OpenJobs'
  <2>1. \A q \in Participants : part[q] \in {"PENDING", "ABANDONED"} => part'[q] = "ABANDONED"
    BY <1>2
  <2>2. \A q \in Participants : pc[q] # "idle" => job'[q] = "RUNNING"
    BY DEF CommitCancel, OpenJobs, CancelSweeps
  <2> QED
    BY <1>5, <2>1, <2>2 DEF OpenJobs, CommitCancel
<1>8. RunLockHeld'
  BY DEF TypeOK, RunLockHeld, CommitCancel, Commit, Unlock
<1>9. PartLocksHeld'
  BY DEF PartLocksHeld, RunLockHeld, CommitCancel, Commit, Unlock
<1>10. OutcomeWritten'
  BY <1>2 DEF OutcomeWritten, CommitCancel, Commit, Unlock
<1>11. CancelSweeps'
  BY DEF TypeOK, CancelSweeps, RunLockHeld, CommitCancel
<1>12. StaleButSafe'
  BY <1>1 DEF StaleButSafe, CommitCancel
<1>13. VerdictHolds'
  BY DEF VerdictHolds, RunLockHeld, CommitCancel
<1>14. FinalIffAllTerminal' /\ CancelIsImmediate'
  BY <1>1, <1>4 DEF FinalIffAllTerminal, CancelIsImmediate
<1>15. JobAndParticipantAgree'
  BY <1>2 DEF JobAndParticipantAgree, OpenJobs, CancelSweeps, CommitCancel
<1>16. AnalysisFollowsVerdict'
  BY <1>1, <1>4, <1>5 DEF AnalysisFollowsVerdict
<1> QED
  BY <1>6, <1>7, <1>8, <1>9, <1>10, <1>11, <1>12, <1>13, <1>14, <1>15, <1>16

\* A cancel that fails leaves nothing behind.
LEMMA RollbackCancelPreserves ==
  ASSUME RunInv, NEW c \in Cancels, RollbackCancel(c), faults' \in 0..MaxFaults
  PROVE  RunInv'
<1> USE DEF RunInv
<1>1. TypeOK'
  <2>1. /\ runLock' \in Sessions \cup {None} /\ runNew' \in RunStatuses
        /\ partLock' \in [Participants -> Sessions \cup {None}]
        /\ partNew' \in [Participants -> PartStatuses]
    BY DEF TypeOK, RollbackCancel, Rollback, Unlock
  <2> QED
    BY <2>1 DEF TypeOK, RollbackCancel, Rollback
<1>2. OpenJobs'
  BY DEF OpenJobs, Uncancelled, RollbackCancel, Rollback
<1>3. RunLockHeld'
  BY DEF TypeOK, RunLockHeld, RollbackCancel, Rollback, Unlock
<1>4. PartLocksHeld'
  BY DEF PartLocksHeld, RollbackCancel, Rollback, Unlock
<1>5. OutcomeWritten'
  BY DEF OutcomeWritten, RollbackCancel, Rollback, Unlock
<1>6. CancelSweeps'
  BY DEF TypeOK, CancelSweeps, View, RollbackCancel, Rollback, Unlock
<1>7. VerdictHolds'
  BY DEF VerdictHolds, RunLockHeld, View, AllTerminalFor, Judgement, RollbackCancel,
    Rollback, Unlock
<1>8. AnalysisFollowsVerdict'
  BY DEF AnalysisFollowsVerdict, Uncancelled, RollbackCancel, Rollback
<1>9. StaleButSafe' /\ FinalIffAllTerminal' /\ JobAndParticipantAgree' /\ CancelIsImmediate'
  BY DEF StaleButSafe, FinalIffAllTerminal, JobAndParticipantAgree, CancelIsImmediate,
    RollbackCancel, Rollback
<1> QED
  BY <1>1, <1>2, <1>3, <1>4, <1>5, <1>6, <1>7, <1>8, <1>9

-----------------------------------------------------------------------------
(* The invariant. *)

\* Nobody has started.
LEMMA InvariantInit == Init => RunInv
<1> SUFFICES ASSUME Init PROVE RunInv
  OBVIOUS
<1>1. TypeOK
  BY DEF Init, TypeOK, Outboxes
<1>2. /\ OpenJobs /\ RunLockHeld /\ PartLocksHeld /\ OutcomeWritten /\ CancelSweeps
      /\ StaleButSafe /\ VerdictHolds
  BY DEF Init, OpenJobs, RunLockHeld, PartLocksHeld, OutcomeWritten, CancelSweeps,
    StaleButSafe, VerdictHolds
<1>3. /\ FinalIffAllTerminal /\ JobAndParticipantAgree /\ AnalysisFollowsVerdict
      /\ CancelIsImmediate
  BY DEF Init, FinalIffAllTerminal, JobAndParticipantAgree, AnalysisFollowsVerdict,
    CancelIsImmediate
<1> QED
  BY <1>1, <1>2, <1>3 DEF RunInv

\* Every step keeps the invariant.
LEMMA InvariantStep == RunInv /\ [Next]_vars => RunInv'
<1> SUFFICES ASSUME RunInv, [Next]_vars PROVE RunInv'
  OBVIOUS
<1>1. ASSUME NEW p \in Participants, Claim(p) PROVE RunInv'
  BY <1>1, ClaimPreserves
<1>2. ASSUME NEW p \in Participants, Work(p) PROVE RunInv'
  BY <1>2, LoadRunPreserves, WriteOutcomePreserves, LockForFinalizePreserves,
    FinalizeIfCompletePreserves, RequeuePreserves, GiveUpPreserves, WriteErroredPreserves
    DEF Work
<1>3. ASSUME NEW p \in Participants, HandlerRaises(p) PROVE RunInv'
  BY <1>3, HandlerRaisesPreserves
<1>4. faults \in Nat /\ faults <= MaxFaults /\ MaxFaults \in Nat
  BY DEF RunInv, TypeOK
<1>5. ASSUME NEW p \in Participants, LoseSession(p) PROVE RunInv'
  BY <1>4, <1>5, AbandonJobPreserves DEF LoseSession
<1>6. ASSUME NEW p \in Participants, CommitJob(p) PROVE RunInv'
  BY <1>6, CommitJobPreserves
<1>7. ASSUME NEW c \in Cancels, CheckCancel(c) PROVE RunInv'
  BY <1>7, CheckCancelPreserves
<1>8. ASSUME NEW c \in Cancels, CancelStep(c) PROVE RunInv'
  BY <1>8, MarkCancellingPreserves, CancelPendingPreserves, CommitCancelPreserves,
    AbandonPartPreserves DEF CancelStep
<1>9. ASSUME NEW c \in Cancels, AbortCancel(c) PROVE RunInv'
  BY <1>4, <1>9, RollbackCancelPreserves DEF AbortCancel
<1>10. ASSUME NEW p \in Participants, NEW c \in Cancels, BreakDeadlock(p, c) PROVE RunInv'
  BY <1>4, <1>10, RollbackCancelPreserves, HandlerRaisesPreserves, AbandonJobPreserves DEF
    BreakDeadlock, Deadlocked
<1>11. CASE UNCHANGED vars
  <2>1. TypeOK'
    BY <1>11 DEF RunInv, TypeOK, vars
  <2>2. OpenJobs' /\ RunLockHeld' /\ PartLocksHeld' /\ OutcomeWritten'
    BY <1>11 DEF RunInv, OpenJobs, RunLockHeld, PartLocksHeld, OutcomeWritten, Uncancelled,
      vars
  <2>3. CancelSweeps' /\ StaleButSafe' /\ VerdictHolds'
    BY <1>11 DEF RunInv, CancelSweeps, StaleButSafe, VerdictHolds, View, AllTerminalFor,
      Judgement, vars
  <2>4. /\ FinalIffAllTerminal' /\ JobAndParticipantAgree' /\ AnalysisFollowsVerdict'
        /\ CancelIsImmediate'
    BY <1>11 DEF RunInv, FinalIffAllTerminal, JobAndParticipantAgree,
      AnalysisFollowsVerdict, CancelIsImmediate, Uncancelled, vars
  <2> QED
    BY <2>1, <2>2, <2>3, <2>4 DEF RunInv
<1> QED
  BY <1>1, <1>2, <1>3, <1>5, <1>6, <1>7, <1>8, <1>9, <1>10, <1>11 DEF Next, Silent

\* The rows, the locks and what every session knows of them are always as the
\* invariant describes (simulate_participant.py:45-72, usecases/simulations.py:220-235).
THEOREM RunInvariant == Spec => []RunInv
  BY InvariantInit, InvariantStep, PTL DEF Spec

\* A run has a final status exactly when all its participants do: no worker decides
\* too early and the last one always decides (simulate_participant.py:45-61).
THEOREM FinalIffAllTerminalAlways == Spec => []FinalIffAllTerminal
<1>1. RunInv => FinalIffAllTerminal
  BY DEF RunInv
<1> QED
  BY <1>1, RunInvariant, PTL

\* A finished job and its participant tell the same story.
THEOREM JobAndParticipantAlwaysAgree == Spec => []JobAndParticipantAgree
<1>1. RunInv => JobAndParticipantAgree
  BY DEF RunInv
<1> QED
  BY <1>1, RunInvariant, PTL

\* The analysis of a run is queued with its verdict and, without a cancel, once.
THEOREM AnalysisAlwaysFollowsVerdict == Spec => []AnalysisFollowsVerdict
<1>1. RunInv => AnalysisFollowsVerdict
  BY DEF RunInv
<1> QED
  BY <1>1, RunInvariant, PTL

-----------------------------------------------------------------------------
(* Refinement of RunContract. *)

\* A new run is a new run of the contract.
LEMMA ContractInit == Init => Contract!CInit
  BY DEF Init, Contract!CInit

\* The commit of a worker is the contract settling its participant.
LEMMA CommitJobSettles ==
  ASSUME RunInv, NEW p \in Participants, CommitJob(p)
  PROVE  \E end \in Contract!Ends : Contract!Settle(p, end)
<1>1. part[p] \in {"PENDING", "ABANDONED"}
  BY DEF RunInv, OpenJobs, CommitJob
<1>2. Contract!Ends = Terminal
  BY DEF Contract!Ends
<1>3. Contract!Over(part') <=> AllTerminalFor(p)
  BY <1>2, CommitJobWrites DEF Contract!Over
<1>4. Contract!Judgement(part') = Judgement(p)
  BY CommitJobWrites DEF Contract!Judgement, Judgement
<1>5. Contract!Settle(p, View(p, p))
  BY <1>1, <1>3, <1>4, CommitJobWrites DEF Contract!Settle, RunInv, TypeOK
<1> QED
  BY <1>2, <1>5, CommitJobWrites

\* The commit of a cancel is the contract's cancel.
LEMMA CommitCancelCancels ==
  ASSUME RunInv, NEW c \in Cancels, CommitCancel(c)
  PROVE  Contract!Cancel
  BY CommitCancelWrites DEF Contract!Cancel, CommitCancel

\* Every other step is a stutter of the contract.
LEMMA ContractStep == RunInv /\ [Next]_vars => [Contract!CNext]_(Contract!cvars)
<1> SUFFICES ASSUME RunInv, [Next]_vars PROVE [Contract!CNext]_(Contract!cvars)
  OBVIOUS
<1>1. ASSUME NEW p \in Participants, CommitJob(p) PROVE Contract!CNext
  BY <1>1, CommitJobSettles DEF Contract!CNext
<1>2. ASSUME NEW c \in Cancels, CommitCancel(c) PROVE Contract!CNext
  BY <1>2, CommitCancelCancels DEF Contract!CNext
<1> DEFINE Same == UNCHANGED <<run, part, aggregates>>
<1>3. ASSUME NEW p \in Participants, Claim(p) \/ Work(p) \/ HandlerRaises(p) \/ LoseSession(p)
      PROVE  Same
  BY <1>3 DEF Claim, Work, LoadRun, WriteOutcome, LockForFinalize, FinalizeIfComplete,
    Requeue, GiveUp, WriteErrored, HandlerRaises, LoseSession, AbandonJob, Rollback
<1>4. ASSUME NEW c \in Cancels,
             CheckCancel(c) \/ MarkCancelling(c) \/ CancelPending(c) \/ AbortCancel(c)
               \/ \E p \in Participants : AbandonPart(c, p)
      PROVE  Same
  BY <1>4 DEF CheckCancel, MarkCancelling, CancelPending, AbandonPart, AbortCancel,
    RollbackCancel, Rollback
<1>5. ASSUME NEW p \in Participants, NEW c \in Cancels, BreakDeadlock(p, c) PROVE Same
  BY <1>5 DEF BreakDeadlock, RollbackCancel, HandlerRaises, AbandonJob, Rollback
<1>6. CASE UNCHANGED vars
  BY <1>6 DEF vars, Contract!cvars
<1> QED
  BY <1>1, <1>2, <1>3, <1>4, <1>5, <1>6 DEF Next, Silent, CancelStep, Contract!cvars

\* To anyone who only reads committed rows the workers, their retries and losses and
\* the cancels are participants settling one at a time, or all of them at once.
THEOREM RunImplementsContract == Spec => ImplementsRunContract
  BY ContractInit, ContractStep, RunInvariant, PTL DEF Spec, ImplementsRunContract,
    Contract!CSpec
=============================================================================
