--------------------------- MODULE JobQueueProofs ---------------------------
(***************************************************************************)
(* Theorems about JobQueue, for any number of jobs, loops, cancels,        *)
(* attempts and faults.  One lemma per action shows that it keeps QueueInv;*)
(* the theorems follow from the invariant.                                 *)
(***************************************************************************)
EXTENDS JobQueue, TLAPS

\* Rows of an open transaction: nobody owns, locks or counts them.
LEMMA EnqueueKeeps ==
    ASSUME QueueInv, NEW S \in SUBSET Jobs, Enqueue(S)
    PROVE  QueueInv'
<1> USE QueueAssumption DEF QueueInv, Statuses, Enqueue,
        rows, loops, cancels, history
<1>1. TypeOK'
  BY DEF TypeOK
<1>2. OneOwner'
  BY DEF OneOwner
<1>3. LoopsHoldTheirRows'
  BY DEF LoopsHoldTheirRows, TypeOK
<1>4. LocksHaveHolders'
  BY DEF LocksHaveHolders
<1>5. StartsAreAccounted'
  BY DEF StartsAreAccounted
<1>6. ExactlyOnce'
  BY DEF ExactlyOnce
<1> QED
  BY <1>1, <1>2, <1>3, <1>4, <1>5, <1>6

\* The rows become PENDING with no starts.
LEMMA CommitEnqueueKeeps ==
    ASSUME QueueInv, NEW t, CommitEnqueue(t)
    PROVE  QueueInv'
<1> USE QueueAssumption DEF QueueInv, Statuses, CommitEnqueue,
        rows, loops, cancels, history
<1>1. TypeOK'
  BY DEF TypeOK
<1>2. OneOwner'
  BY DEF OneOwner
<1>3. LoopsHoldTheirRows'
  BY DEF LoopsHoldTheirRows, TypeOK
<1>4. LocksHaveHolders'
  BY DEF LocksHaveHolders
<1>5. StartsAreAccounted'
  BY DEF StartsAreAccounted
<1>6. ExactlyOnce'
  BY DEF ExactlyOnce
<1> QED
  BY <1>1, <1>2, <1>3, <1>4, <1>5, <1>6

\* The row was unlocked and PENDING, so no other loop has it.
LEMMA SelectKeeps ==
    ASSUME QueueInv, NEW w \in Workers, Select(w)
    PROVE  QueueInv'
<1> USE QueueAssumption DEF QueueInv, Statuses, Select, Oldest, Claimable,
        rows, loops, cancels, history
<1>1. TypeOK'
  BY DEF TypeOK
<1>2. OneOwner'
  BY DEF OneOwner, TypeOK, LoopsHoldTheirRows
<1>3. LoopsHoldTheirRows'
  BY DEF LoopsHoldTheirRows, TypeOK
<1>4. LocksHaveHolders'
  BY DEF LocksHaveHolders, TypeOK, LoopsHoldTheirRows
<1>5. StartsAreAccounted'
  BY DEF StartsAreAccounted
<1>6. ExactlyOnce'
  BY DEF ExactlyOnce
<1> QED
  BY <1>1, <1>2, <1>3, <1>4, <1>5, <1>6

\* The row is the loop's own; the start is the attempt now running.
LEMMA ClaimKeeps ==
    ASSUME QueueInv, NEW w \in Workers, Claim(w)
    PROVE  QueueInv'
<1> USE QueueAssumption DEF QueueInv, Statuses, Claim,
        rows, loops, cancels, history
<1>1. TypeOK'
  BY DEF TypeOK, LoopsHoldTheirRows
<1>2. OneOwner'
  BY DEF OneOwner
<1>3. LoopsHoldTheirRows'
  BY DEF LoopsHoldTheirRows, TypeOK
<1>4. LocksHaveHolders'
  BY DEF LocksHaveHolders, TypeOK
<1>5. StartsAreAccounted'
  BY DEF StartsAreAccounted, TypeOK, LoopsHoldTheirRows
<1>6. ExactlyOnce'
  BY DEF ExactlyOnce, LoopsHoldTheirRows
<1> QED
  BY <1>1, <1>2, <1>3, <1>4, <1>5, <1>6

\* RUNNING becomes DONE: the start in progress is the one that succeeded.
LEMMA FinishKeeps ==
    ASSUME QueueInv, NEW w \in Workers, Finish(w)
    PROVE  QueueInv'
<1> USE QueueAssumption DEF QueueInv, Statuses, Finish, Free, Drop,
        rows, loops, cancels, history
<1>1. TypeOK'
  BY DEF TypeOK, LoopsHoldTheirRows
<1>2. OneOwner'
  BY DEF OneOwner
<1>3. LoopsHoldTheirRows'
  BY DEF LoopsHoldTheirRows, TypeOK, OneOwner
<1>4. LocksHaveHolders'
  BY DEF LocksHaveHolders, LoopsHoldTheirRows
<1>5. StartsAreAccounted'
  BY DEF StartsAreAccounted, LoopsHoldTheirRows
<1>6. ExactlyOnce'
  BY DEF ExactlyOnce, TypeOK, LoopsHoldTheirRows
<1> QED
  BY <1>1, <1>2, <1>3, <1>4, <1>5, <1>6

\* A RUNNING row is unlocked, so the loop gets its lock.
LEMMA RaiseKeeps ==
    ASSUME QueueInv, NEW w \in Workers, Raise(w)
    PROVE  QueueInv'
<1> USE QueueAssumption DEF QueueInv, Statuses, Raise,
        rows, loops, cancels, history
<1>1. TypeOK'
  BY DEF TypeOK
<1>2. OneOwner'
  BY DEF OneOwner
<1>3. LoopsHoldTheirRows'
  BY DEF LoopsHoldTheirRows, TypeOK, OneOwner
<1>4. LocksHaveHolders'
  BY DEF LocksHaveHolders
<1>5. StartsAreAccounted'
  BY DEF StartsAreAccounted
<1>6. ExactlyOnce'
  BY DEF ExactlyOnce
<1> QED
  BY <1>1, <1>2, <1>3, <1>4, <1>5, <1>6

\* The attempt in progress becomes a recorded failure, the last one FAILED.
LEMMA RecordFailureKeeps ==
    ASSUME QueueInv, NEW w \in Workers, RecordFailure(w)
    PROVE  QueueInv'
<1> USE QueueAssumption DEF QueueInv, Statuses, RecordFailure, TriesLeft, HookOutcomes, Free,
        Drop, rows, loops, cancels, history
<1>1. cur[w] \in Jobs /\ status[cur[w]] = "RUNNING"
  BY DEF TypeOK, LoopsHoldTheirRows
<1>2. attempts[cur[w]] \in Nat /\ attempts[cur[w]] < MaxAttempts
  <2>1. attempts[cur[w]] \in 0..MaxAttempts
    BY <1>1 DEF TypeOK
  <2>2. attempts[cur[w]] # MaxAttempts
    BY <1>1 DEF StartsAreAccounted
  <2> QED
    BY <2>1, <2>2
<1>3. TypeOK'
  <2>1. attempts[cur[w]] + 1 \in 0..MaxAttempts
    BY <1>2
  <2> QED
    BY <2>1 DEF TypeOK
<1>4. OneOwner'
  BY DEF OneOwner
<1>5. LoopsHoldTheirRows'
  BY DEF LoopsHoldTheirRows, TypeOK
<1>6. LocksHaveHolders'
  BY DEF LocksHaveHolders, TypeOK
<1>7. StartsAreAccounted'
  <2>1. /\ cur[w] \in Jobs
        /\ status[cur[w]] = "RUNNING"
        /\ attempts[cur[w]] \in Nat /\ attempts[cur[w]] < MaxAttempts
    BY <1>1, <1>2
  <2> DEFINE j == cur[w]
             last == attempts[j] + 1 = MaxAttempts
  <2>2. /\ attempts'[j] = attempts[j] + 1
        /\ status'[j] = IF last THEN "FAILED" ELSE "PENDING"
        /\ starts'[j] = attempts[j] + 1
    BY <2>1 DEF TypeOK, StartsAreAccounted
  <2>3. hook'[j] # "none" <=> last /\ j \in Tracked
    <3>1. hook[j] = "none"
      BY <2>1 DEF StartsAreAccounted
    <3>2. TriesLeft(attempts[j] + 1) <=> ~last
      BY <2>1
    <3>3. CASE last /\ j \in Tracked
      BY <2>1, <3>2, <3>3 DEF TypeOK
    <3>4. CASE ~(last /\ j \in Tracked)
      BY <2>1, <3>1, <3>2, <3>4
    <3> QED
      BY <3>3, <3>4
  <2>4. \A k \in Jobs \ {j} : /\ attempts'[k] = attempts[k] /\ status'[k] = status[k]
                              /\ starts'[k] = starts[k] /\ hook'[k] = hook[k]
    BY <2>1 DEF TypeOK
  <2> QED
    BY <2>1, <2>2, <2>3, <2>4 DEF StartsAreAccounted
<1>8. ExactlyOnce'
  BY DEF ExactlyOnce, LoopsHoldTheirRows
<1> QED
  BY <1>3, <1>4, <1>5, <1>6, <1>7, <1>8

\* The loop lets go; a row that stays RUNNING keeps its lost start.
LEMMA LoseJobKeeps ==
    ASSUME QueueInv, NEW w \in Workers, LoseJob(w)
    PROVE  QueueInv'
<1> USE QueueAssumption DEF QueueInv, Statuses, LoseJob, Vanish, Unlocked, Free, Drop,
        rows, loops, cancels, history
<1>1. TypeOK'
  BY DEF TypeOK
<1>2. OneOwner'
  BY DEF OneOwner
<1>3. LoopsHoldTheirRows'
  BY DEF LoopsHoldTheirRows, TypeOK
<1>4. LocksHaveHolders'
  BY DEF LocksHaveHolders
<1>5. StartsAreAccounted'
  BY DEF StartsAreAccounted
<1>6. ExactlyOnce'
  BY DEF ExactlyOnce
<1> QED
  BY <1>1, <1>2, <1>3, <1>4, <1>5, <1>6

\* The loop lets go for good; the row stays PENDING, or is RUNNING and claimed.
LEMMA LoopStopsKeeps ==
    ASSUME QueueInv, NEW w \in Workers, pc[w] \in {"idle", "claiming"}, LoopStops(w)
    PROVE  QueueInv'
<1> USE QueueAssumption DEF QueueInv, Statuses, LoopStops, Unlocked, Drop,
        rows, loops, cancels, history
<1>1. TypeOK'
  BY DEF TypeOK, LoopsHoldTheirRows
<1>2. OneOwner'
  BY DEF OneOwner
<1>3. LoopsHoldTheirRows'
  BY DEF LoopsHoldTheirRows, OneOwner, TypeOK
<1>4. LocksHaveHolders'
  BY DEF LocksHaveHolders, LoopsHoldTheirRows, TypeOK
<1>5. StartsAreAccounted'
  BY DEF StartsAreAccounted, TypeOK, LoopsHoldTheirRows
<1>6. ExactlyOnce'
  <2>1. CASE UNCHANGED <<status, starts>>
    BY <2>1 DEF ExactlyOnce
  <2>2. CASE /\ pc[w] = "claiming"
             /\ status' = [status EXCEPT ![cur[w]] = "RUNNING"]
    <3>1. cur[w] \in Jobs /\ status[cur[w]] = "PENDING"
      BY <2>2 DEF TypeOK, LoopsHoldTheirRows
    <3> QED
      BY <2>2, <3>1 DEF ExactlyOnce, TypeOK
  <2> QED
    BY <2>1, <2>2
<1> QED
  BY <1>1, <1>2, <1>3, <1>4, <1>5, <1>6

\* Every loop lets go at once.
LEMMA ProcessDiesKeeps ==
    ASSUME QueueInv, ProcessDies
    PROVE  QueueInv'
<1> USE QueueAssumption DEF QueueInv, Statuses, ProcessDies, Unlocked,
        rows, loops, cancels, history
<1>1. TypeOK'
  <2>1. lock' \in [Jobs -> Workers \cup Cancels \cup {None}]
    BY DEF TypeOK
  <2>2. faults' \in 0..MaxFaults
    BY DEF TypeOK
  <2> QED
    BY <2>1, <2>2 DEF TypeOK
<1>2. OneOwner'
  BY DEF OneOwner
<1>3. LoopsHoldTheirRows'
  BY DEF LoopsHoldTheirRows
<1>4. LocksHaveHolders'
  BY DEF LocksHaveHolders
<1>5. StartsAreAccounted'
  BY DEF StartsAreAccounted
<1>6. ExactlyOnce'
  BY DEF ExactlyOnce
<1> QED
  BY <1>1, <1>2, <1>3, <1>4, <1>5, <1>6

\* Only up changes.
LEMMA RestartKeeps ==
    ASSUME QueueInv, Restart
    PROVE  QueueInv'
<1> USE QueueAssumption DEF QueueInv, Statuses, Restart,
        rows, loops, cancels, history
<1>1. TypeOK'
  BY DEF TypeOK
<1>2. OneOwner'
  BY DEF OneOwner
<1>3. LoopsHoldTheirRows'
  BY DEF LoopsHoldTheirRows
<1>4. LocksHaveHolders'
  BY DEF LocksHaveHolders
<1>5. StartsAreAccounted'
  BY DEF StartsAreAccounted
<1>6. ExactlyOnce'
  BY DEF ExactlyOnce
<1> QED
  BY <1>1, <1>2, <1>3, <1>4, <1>5, <1>6

\* Only the cancel's list of rows changes.
LEMMA BeginCancelKeeps ==
    ASSUME QueueInv, NEW c \in Cancels, BeginCancel(c)
    PROVE  QueueInv'
<1> USE QueueAssumption DEF QueueInv, Statuses, BeginCancel,
        rows, loops, cancels, history
<1>1. TypeOK'
  BY DEF TypeOK
<1>2. OneOwner'
  BY DEF OneOwner
<1>3. LoopsHoldTheirRows'
  BY DEF LoopsHoldTheirRows
<1>4. LocksHaveHolders'
  BY DEF LocksHaveHolders
<1>5. StartsAreAccounted'
  BY DEF StartsAreAccounted
<1>6. ExactlyOnce'
  BY DEF ExactlyOnce
<1> QED
  BY <1>1, <1>2, <1>3, <1>4, <1>5, <1>6

\* The row was unlocked; it is locked only if it is still PENDING.
LEMMA CancelRowKeeps ==
    ASSUME QueueInv, NEW c \in Cancels, NEW j \in Jobs, CancelRow(c, j)
    PROVE  QueueInv'
<1> USE QueueAssumption DEF QueueInv, Statuses, CancelRow,
        rows, loops, cancels, history
<1>1. TypeOK'
  BY DEF TypeOK
<1>2. OneOwner'
  BY DEF OneOwner
<1>3. LoopsHoldTheirRows'
  BY DEF LoopsHoldTheirRows
<1>4. LocksHaveHolders'
  BY DEF LocksHaveHolders
<1>5. StartsAreAccounted'
  BY DEF StartsAreAccounted
<1>6. ExactlyOnce'
  BY DEF ExactlyOnce
<1> QED
  BY <1>1, <1>2, <1>3, <1>4, <1>5, <1>6

\* The rows it holds were PENDING, so no loop is running them.
LEMMA CommitCancelKeeps ==
    ASSUME QueueInv, NEW c \in Cancels, CommitCancel(c)
    PROVE  QueueInv'
<1> USE QueueAssumption DEF QueueInv, Statuses, CommitCancel, Unlocked,
        rows, loops, cancels, history
<1>1. TypeOK'
  BY DEF TypeOK
<1>2. OneOwner'
  BY DEF OneOwner
<1>3. LoopsHoldTheirRows'
  BY DEF LoopsHoldTheirRows, TypeOK
<1>4. LocksHaveHolders'
  BY DEF LocksHaveHolders
<1>5. StartsAreAccounted'
  BY DEF StartsAreAccounted, LocksHaveHolders
<1>6. ExactlyOnce'
  BY DEF ExactlyOnce, LocksHaveHolders
<1> QED
  BY <1>1, <1>2, <1>3, <1>4, <1>5, <1>6

\* The rows it holds stay PENDING.
LEMMA AbortCancelKeeps ==
    ASSUME QueueInv, NEW c \in Cancels, AbortCancel(c)
    PROVE  QueueInv'
<1> USE QueueAssumption DEF QueueInv, Statuses, AbortCancel, Unlocked,
        rows, loops, cancels, history
<1>1. TypeOK'
  BY DEF TypeOK
<1>2. OneOwner'
  BY DEF OneOwner
<1>3. LoopsHoldTheirRows'
  BY DEF LoopsHoldTheirRows, TypeOK
<1>4. LocksHaveHolders'
  BY DEF LocksHaveHolders
<1>5. StartsAreAccounted'
  BY DEF StartsAreAccounted
<1>6. ExactlyOnce'
  BY DEF ExactlyOnce
<1> QED
  BY <1>1, <1>2, <1>3, <1>4, <1>5, <1>6

-----------------------------------------------------------------------------
\* Every step keeps rows, locks, loops and counters in agreement.
LEMMA QueueInvStep == QueueInv /\ [Next]_vars => QueueInv'
<1> SUFFICES ASSUME QueueInv, [Next]_vars
             PROVE  QueueInv'
  OBVIOUS
<1>1. CASE UNCHANGED vars
  BY <1>1 DEF vars, QueueInv, TypeOK, OneOwner, LoopsHoldTheirRows, LocksHaveHolders,
              StartsAreAccounted, ExactlyOnce
<1>2. CASE \E S \in SUBSET Jobs : Enqueue(S)
  BY <1>2, EnqueueKeeps
<1>3. CASE \E j \in Jobs : CommitEnqueue(created[j])
  BY <1>3, CommitEnqueueKeeps
<1>4. ASSUME NEW w \in Workers, WorkerStep(w)
      PROVE  QueueInv'
  BY <1>4, SelectKeeps, ClaimKeeps, FinishKeeps, RaiseKeeps, RecordFailureKeeps DEF WorkerStep
<1>5. ASSUME NEW w \in Workers, LoseJob(w) \/ ClaimFails(w)
      PROVE  QueueInv'
  BY <1>5, LoseJobKeeps, LoopStopsKeeps, ProcessDiesKeeps DEF ClaimFails
<1>6. CASE Restart \/ Kill
  BY <1>6, RestartKeeps, ProcessDiesKeeps DEF Kill
<1>7. ASSUME NEW c \in Cancels, BeginCancel(c) \/ CancelStep(c) \/ AbortCancel(c)
      PROVE  QueueInv'
  BY <1>7, BeginCancelKeeps, CancelRowKeeps, CommitCancelKeeps, AbortCancelKeeps DEF CancelStep
<1> QED
  BY <1>1, <1>2, <1>3, <1>4, <1>5, <1>6, <1>7 DEF Next, ServiceStep

\* In every reachable state rows, locks, loops and counters agree: the row a loop
\* has is in the status and under the lock its program counter implies.
THEOREM QueueInvariant == Spec => []QueueInv
<1>1. Init => QueueInv
  BY QueueAssumption DEF Init, QueueInv, TypeOK, Statuses, OneOwner, LoopsHoldTheirRows,
     LocksHaveHolders, StartsAreAccounted, ExactlyOnce
<1> QED
  BY <1>1, QueueInvStep, PTL DEF Spec

\* _claim_one_job never gives one job to two loops.
THEOREM OneOwnerAlways == Spec => []OneOwner
<1>1. QueueInv => OneOwner
  BY DEF QueueInv
<1> QED
  BY <1>1, QueueInvariant, PTL

\* A job's work is committed exactly once if it is DONE and not at all otherwise,
\* whatever is retried, lost or killed.
THEOREM ExactlyOnceAlways == Spec => []ExactlyOnce
<1>1. QueueInv => ExactlyOnce
  BY DEF QueueInv
<1> QED
  BY <1>1, QueueInvariant, PTL

\* No job's handler is started more than MAX_ATTEMPTS times.
THEOREM BoundedStartsAlways == Spec => []BoundedStarts
<1>1. QueueInv => BoundedStarts
  BY QueueAssumption DEF QueueInv, TypeOK, StartsAreAccounted, BoundedStarts
<1> QED
  BY <1>1, QueueInvariant, PTL

\* FAILED means MAX_ATTEMPTS claims and as many recorded failures, and the
\* permanent-failure handler has no part in any other commit.
THEOREM FailureIsRecordedAlways == Spec => []FailureIsRecorded
<1>1. QueueInv => FailureIsRecorded
  BY QueueAssumption DEF QueueInv, TypeOK, StartsAreAccounted, FailureIsRecorded
<1> QED
  BY <1>1, QueueInvariant, PTL

-----------------------------------------------------------------------------
\* A step leaves a settled row alone: it is locked by nobody and no loop has it.
LEMMA SettledStep ==
    ASSUME QueueInv, [Next]_vars, NEW j \in Jobs, status[j] \in Settled
    PROVE  status'[j] = status[j] /\ effects'[j] = effects[j] /\ starts'[j] = starts[j]
<1>1. \A w \in Workers : cur[w] # j
  BY QueueAssumption DEF QueueInv, TypeOK, LoopsHoldTheirRows, Settled
<1>2. lock[j] \notin Cancels
  BY DEF QueueInv, LocksHaveHolders, Settled
<1> USE <1>1, <1>2 DEF QueueInv, TypeOK, Settled
<1>3. CASE UNCHANGED vars
  BY <1>3 DEF vars
<1>4. ASSUME NEW S \in SUBSET Jobs, Enqueue(S)
      PROVE  status'[j] = status[j] /\ effects'[j] = effects[j] /\ starts'[j] = starts[j]
  BY <1>4 DEF Enqueue, history
<1>5. ASSUME NEW t, CommitEnqueue(t)
      PROVE  status'[j] = status[j] /\ effects'[j] = effects[j] /\ starts'[j] = starts[j]
  BY <1>5 DEF CommitEnqueue, history
<1>6. ASSUME NEW w \in Workers, WorkerStep(w) \/ LoseJob(w)
      PROVE  status'[j] = status[j] /\ effects'[j] = effects[j] /\ starts'[j] = starts[j]
  <2>1. CASE Select(w) \/ Raise(w) \/ LoseJob(w)
    BY <2>1 DEF Select, Raise, LoseJob, Vanish, history
  <2>2. CASE Claim(w) \/ Finish(w) \/ RecordFailure(w)
    BY <2>2 DEF Claim, Finish, RecordFailure
  <2> QED
    BY <1>6, <2>1, <2>2 DEF WorkerStep
<1>7. CASE ProcessDies \/ Restart
  BY <1>7 DEF ProcessDies, Restart, rows, history
<1>8. ASSUME NEW w \in Workers, LoopStops(w)
      PROVE  status'[j] = status[j] /\ effects'[j] = effects[j] /\ starts'[j] = starts[j]
  BY <1>8 DEF LoopStops
<1>9. ASSUME NEW c \in Cancels, BeginCancel(c) \/ CancelStep(c) \/ AbortCancel(c)
      PROVE  status'[j] = status[j] /\ effects'[j] = effects[j] /\ starts'[j] = starts[j]
  BY <1>9 DEF BeginCancel, CancelStep, CancelRow, CommitCancel, AbortCancel, rows, history
<1> QED
  BY <1>3, <1>4, <1>5, <1>6, <1>7, <1>8, <1>9 DEF Next, ServiceStep, ClaimFails, Kill

\* DONE, FAILED and CANCELLED are final: such a row is never started, re-run or
\* cancelled again.
THEOREM SettledRowsAreFinal == Spec => SettledIsFinal
<1>1. QueueInv /\ [Next]_vars =>
        [\A j \in Jobs : status[j] \in Settled =>
            status'[j] = status[j] /\ effects'[j] = effects[j] /\ starts'[j] = starts[j]]_vars
  BY SettledStep
<1> QED
  BY <1>1, QueueInvariant, PTL DEF Spec, SettledIsFinal

-----------------------------------------------------------------------------
(* The refinement.  Claims, lock steps, rollbacks and faults are stutters of *)
(* the contract; each commit is one of its steps.                            *)

\* The empty jobs table is the contract's initial state.
LEMMA InitMeetsContract == Init => Contract!CInit
  BY DEF Init, Contract!CInit, Phase

\* A step of loops and transactions is a contract step or a stutter.
LEMMA StepMeetsContract ==
    ASSUME QueueInv, [Next]_vars
    PROVE  [Contract!CNext]_(Contract!cvars)
<1> USE QueueAssumption DEF QueueInv, TypeOK, Statuses, Phase, Contract!cvars, Contract!Move,
        rows, loops, cancels, history
<1> DEFINE Stutter == Phase' = Phase /\ attempts' = attempts /\ effects' = effects
<1>1. Stutter => UNCHANGED Contract!cvars
  OBVIOUS
<1>2. CASE UNCHANGED vars
  BY <1>2 DEF vars
<1>3. ASSUME NEW S \in SUBSET Jobs, Enqueue(S)
      PROVE  Stutter
  BY <1>3 DEF Enqueue
<1>4. ASSUME NEW t, CommitEnqueue(t)
      PROVE  \E S \in SUBSET Jobs : Contract!Submit(S)
  <2>1. PICK S \in SUBSET Jobs : S = {j \in Jobs : status[j] = "INSERTED" /\ created[j] = t}
    OBVIOUS
  <2>2. Contract!Submit(S)
    BY <1>4, <2>1 DEF CommitEnqueue, Contract!Submit
  <2> QED
    BY <2>2
<1>5. ASSUME NEW w \in Workers, Select(w) \/ Raise(w) \/ LoseJob(w)
      PROVE  Stutter
  BY <1>5 DEF Select, Raise, LoseJob, Vanish
<1>6. ASSUME NEW w \in Workers, Claim(w) \/ Finish(w) \/ RecordFailure(w)
      PROVE  Contract!CNext
  <2>1. PICK j \in Jobs : j = cur[w]
    BY <1>6 DEF LoopsHoldTheirRows, Claim, Finish, RecordFailure
  <2>2. CASE Claim(w)
    <3>1. Contract!Take(j)
      BY <2>1, <2>2 DEF Claim, Contract!Take, LoopsHoldTheirRows
    <3> QED
      BY <3>1 DEF Contract!CNext
  <2>3. CASE Finish(w)
    <3>1. Contract!Complete(j)
      BY <2>1, <2>3 DEF Finish, Contract!Complete, LoopsHoldTheirRows
    <3> QED
      BY <3>1 DEF Contract!CNext
  <2>4. CASE RecordFailure(w)
    <3>1. status[j] = "RUNNING" /\ attempts[j] \in Nat /\ attempts[j] < MaxAttempts
      BY <2>1, <2>4 DEF RecordFailure, LoopsHoldTheirRows, StartsAreAccounted
    <3>2. CASE attempts[j] + 1 < MaxAttempts
      <4>1. Contract!Retry(j)
        BY <2>1, <2>4, <3>1, <3>2 DEF RecordFailure, TriesLeft, Contract!Retry
      <4> QED
        BY <4>1 DEF Contract!CNext
    <3>3. CASE attempts[j] + 1 = MaxAttempts
      <4>1. Contract!GiveUp(j)
        BY <2>1, <2>4, <3>1, <3>3 DEF RecordFailure, TriesLeft, Contract!GiveUp
      <4> QED
        BY <4>1 DEF Contract!CNext
    <3> QED
      BY <3>1, <3>2, <3>3
  <2> QED
    BY <1>6, <2>2, <2>3, <2>4
<1>7. CASE ProcessDies \/ Restart
  BY <1>7 DEF ProcessDies, Restart
<1>8. ASSUME NEW w \in Workers, LoopStops(w)
       PROVE  Stutter \/ Contract!CNext
  <2>1. CASE UNCHANGED <<status, starts>>
    BY <1>8, <2>1 DEF LoopStops
  <2>2. CASE /\ pc[w] = "claiming"
             /\ status' = [status EXCEPT ![cur[w]] = "RUNNING"]
    <3>1. PICK j \in Jobs : j = cur[w]
      BY <2>2 DEF LoopsHoldTheirRows
    <3>2. Contract!Take(j)
      BY <1>8, <2>2, <3>1 DEF LoopStops, Contract!Take, LoopsHoldTheirRows
    <3> QED
      BY <3>2 DEF Contract!CNext
  <2> QED
    BY <1>8, <2>1, <2>2 DEF LoopStops
<1>9. ASSUME NEW c \in Cancels, BeginCancel(c) \/ AbortCancel(c) \/ \E j \in Jobs : CancelRow(c, j)
      PROVE  Stutter
  BY <1>9 DEF BeginCancel, AbortCancel, CancelRow
<1>10. ASSUME NEW c \in Cancels, CommitCancel(c)
      PROVE  Stutter \/ \E S \in SUBSET Jobs : Contract!Withdraw(S)
  <2>1. PICK S \in SUBSET Jobs : S = {j \in Jobs : lock[j] = c}
    OBVIOUS
  <2>2. CASE S = {}
    BY <1>10, <2>1, <2>2 DEF CommitCancel
  <2>3. CASE S # {}
    <3>1. Contract!Withdraw(S)
      BY <1>10, <2>1, <2>3 DEF CommitCancel, Contract!Withdraw, LocksHaveHolders
    <3> QED
      BY <3>1
  <2> QED
    BY <2>2, <2>3
<1> QED
  BY <1>1, <1>2, <1>3, <1>4, <1>5, <1>6, <1>7, <1>8, <1>9, <1>10
  DEF Next, ServiceStep, WorkerStep, CancelStep, ClaimFails, Kill, Contract!CNext

\* The queue implements the contract.
THEOREM QueueImplementsContract == Spec => ImplementsContract
<1>1. QueueInv /\ [Next]_vars => [Contract!CNext]_(Contract!cvars)
  BY StepMeetsContract
<1> QED
  BY <1>1, InitMeetsContract, QueueInvariant, PTL
  DEF Spec, ImplementsContract, Contract!CSpec

=============================================================================
