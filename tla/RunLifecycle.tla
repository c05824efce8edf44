---------------------------- MODULE RunLifecycle ----------------------------
(***************************************************************************)
(* One synthetic simulation run: its simulate_participant jobs, the        *)
(* "am I the last participant?" finalization, retries and permanent        *)
(* failures, and the researcher's cancel request                           *)
(* (workers/jobs/simulate_participant.py, usecases/simulations.py,         *)
(* services/simulation_run_service.py, workers/runner.py).                 *)
(*                                                                         *)
(* Every handler is one READ COMMITTED transaction, modelled statement by  *)
(* statement: run and part are the committed rows, runLock and partLock[p] *)
(* their Postgres row locks, runNew and partNew[p] the version the lock's  *)
(* holder has written and nobody else sees.  A write waits for the lock;   *)
(* a plain read does not.  A participant and its job, participant_run and  *)
(* worker session share the name p.  No row is deleted here, so the        *)
(* permanent-failure handler, which looks its rows up and writes them,     *)
(* fails by database errors only; runner.py would swallow any other, and   *)
(* JobQueue does.                                                          *)
(***************************************************************************)
EXTENDS Naturals, FiniteSets

CONSTANTS
    Participants,  \* the participants of the run, each with one job
    Cancels,       \* cancel_run requests, each tried once
    NumWorkers,    \* NUM_WORKERS
    MaxAttempts,   \* MAX_ATTEMPTS
    MaxFaults,     \* bound: sessions lost without a trace (crash, dropped connection)
    None

ASSUME RunAssumption ==
    /\ IsFiniteSet(Participants) /\ Participants # {}
    /\ NumWorkers \in Nat \ {0}
    /\ MaxAttempts \in Nat \ {0}
    /\ MaxFaults \in Nat
    /\ Participants \cap Cancels = {}
    /\ None \notin Participants \cup Cancels

VARIABLES
    run, runLock, runNew,         \* the simulation_runs row
    part, partLock, partNew,      \* the participant_runs rows
    job, attempts,                \* the jobs rows
    pc, seen, giving, outbox,     \* worker sessions
    cpc, cjobs, ctodo,            \* cancel sessions
    aggregates,                   \* committed aggregate_run jobs
    faults

runRow   == <<run, runLock, runNew>>
partRows == <<part, partLock, partNew>>
jobRows  == <<job, attempts>>
workers  == <<pc, seen, giving, outbox>>
cancels  == <<cpc, cjobs, ctodo>>
vars     == <<run, runLock, runNew, part, partLock, partNew, job, attempts,
              pc, seen, giving, outbox, cpc, cjobs, ctodo, aggregates, faults>>

RunFinal    == {"COMPLETED", "FAILED", "CANCELLED"}
RunStatuses == {"RUNNING", "CANCELLING"} \cup RunFinal

\* What the simulation graph can end with; "ERRORED" is FAILED with the
\* job_permanently_failed marker in final_outcome, which finalize_run counts.
Outcomes     == {"COMPLETED", "FAILED", "ABANDONED"}
Terminal     == Outcomes \cup {"ERRORED"}
PartStatuses == {"PENDING"} \cup Terminal

Sessions == Participants \cup Cancels
Active   == {p \in Participants : pc[p] # "idle"}
Notes    == [status : RunStatuses, completed : 0..Cardinality(Participants)]
Outboxes == [enqueue : BOOLEAN, note : Notes] \cup {None}

TypeOK ==
    /\ run \in RunStatuses
    /\ runNew \in RunStatuses
    /\ runLock \in Sessions \cup {None}
    /\ part \in [Participants -> PartStatuses]
    /\ partNew \in [Participants -> PartStatuses]
    /\ partLock \in [Participants -> Sessions \cup {None}]
    /\ job \in [Participants -> {"PENDING", "RUNNING", "DONE", "FAILED", "CANCELLED"}]
    /\ attempts \in [Participants -> 0..MaxAttempts]
    /\ pc \in [Participants -> {"idle", "claimed", "simulating", "failing", "erroring",
                                "written", "locked", "finalized"}]
    /\ seen \in [Participants -> RunStatuses]
    /\ giving \in [Participants -> BOOLEAN]
    /\ outbox \in [Participants -> Outboxes]
    /\ cpc \in [Cancels -> {"start", "checked", "marked", "abandoning", "end"}]
    /\ cjobs \in [Cancels -> SUBSET Participants]
    /\ ctodo \in [Cancels -> SUBSET Participants]
    /\ aggregates \in Nat
    /\ faults \in 0..MaxFaults

\* create_run committed the run, its participant_runs and its jobs together.
Init ==
    /\ run = "RUNNING" /\ runNew = "RUNNING" /\ runLock = None
    /\ part = [p \in Participants |-> "PENDING"]
    /\ partNew = [p \in Participants |-> "PENDING"]
    /\ partLock = [p \in Participants |-> None]
    /\ job = [p \in Participants |-> "PENDING"]
    /\ attempts = [p \in Participants |-> 0]
    /\ pc = [p \in Participants |-> "idle"]
    /\ seen = [p \in Participants |-> "RUNNING"]
    /\ giving = [p \in Participants |-> FALSE]
    /\ outbox = [p \in Participants |-> None]
    /\ cpc = [c \in Cancels |-> "start"]
    /\ cjobs = [c \in Cancels |-> {}]
    /\ ctodo = [c \in Cancels |-> {}]
    /\ aggregates = 0
    /\ faults = 0

-----------------------------------------------------------------------------
(* Transactions of a session s. *)

\* A participant_runs row as s reads it: its own write, else the committed row.
View(s, q) == IF partLock[q] = s THEN partNew[q] ELSE part[q]

AllTerminalFor(s) == \A q \in Participants : View(s, q) \in Terminal

WriteRun(s, v) ==
    /\ runLock \in {None, s}
    /\ runLock' = s
    /\ runNew' = v

WritePart(s, q, v) ==
    /\ partLock[q] \in {None, s}
    /\ partLock' = [partLock EXCEPT ![q] = s]
    /\ partNew' = [partNew EXCEPT ![q] = v]

Unlock(s) ==
    /\ runLock' = IF runLock = s THEN None ELSE runLock
    /\ partLock' = [q \in Participants |-> IF partLock[q] = s THEN None ELSE partLock[q]]

Commit(s, newRun) ==
    /\ Unlock(s)
    /\ run' = newRun
    /\ runNew' = IF runLock = s THEN newRun ELSE runNew
    /\ part' = [q \in Participants |-> View(s, q)]
    /\ UNCHANGED partNew

Rollback(s) ==
    /\ Unlock(s)
    /\ runNew' = IF runLock = s THEN run ELSE runNew
    /\ partNew' = [q \in Participants |-> IF partLock[q] = s THEN part[q] ELSE partNew[q]]
    /\ UNCHANGED <<run, part>>

-----------------------------------------------------------------------------
(* A worker running p's job. *)

Goto(p, l) == pc' = [pc EXCEPT ![p] = l]

\* A loop gets p's job.  Rows a cancel has marked but not committed are locked.
Claim(p) ==
    /\ pc[p] = "idle" /\ job[p] = "PENDING"
    /\ Cardinality(Active) < NumWorkers
    /\ \A c \in Cancels : p \notin cjobs[c]
    /\ job' = [job EXCEPT ![p] = "RUNNING"]
    /\ Goto(p, "claimed")
    /\ UNCHANGED <<runRow, partRows, attempts, seen, giving, outbox, cancels, aggregates, faults>>

\* runs.get_by_id at the top of the handler: this object's status is never
\* refreshed, lock_for_finalize included, as the session already holds it.
LoadRun(p) ==
    /\ pc[p] = "claimed"
    /\ seen' = [seen EXCEPT ![p] = run]
    /\ Goto(p, "simulating")
    /\ UNCHANGED <<runRow, partRows, jobRows, giving, outbox, cancels, aggregates, faults>>

\* The simulation ended with outcome o; observations and outcome are flushed.
WriteOutcome(p) ==
    /\ pc[p] = "simulating"
    /\ \E o \in Outcomes : WritePart(p, p, o)
    /\ Goto(p, "written")
    /\ UNCHANGED <<runRow, part, jobRows, seen, giving, outbox, cancels, aggregates, faults>>

\* Mutant: nobody locks the run before is_run_complete.
LockForFinalizeNot(p) ==
    /\ pc[p] = "written"
    /\ seen' = IF giving[p] THEN [seen EXCEPT ![p] = run] ELSE seen
    /\ Goto(p, "locked")
    /\ UNCHANGED <<runRow, partRows, jobRows, giving, outbox, cancels, aggregates, faults>>

\* lock_for_finalize.  After a failed attempt the rollback has expired the run
\* object, so only then does this read refresh it.
LockForFinalize(p) ==
    /\ pc[p] = "written"
    /\ WriteRun(p, run)
    /\ seen' = IF giving[p] THEN [seen EXCEPT ![p] = run] ELSE seen
    /\ Goto(p, "locked")
    /\ UNCHANGED <<run, partRows, jobRows, giving, outbox, cancels, aggregates, faults>>

\* finalize_run's verdict, from the session's run object and the rows it reads.
Judgement(p) == IF \A q \in Participants : View(p, q) = "ERRORED" THEN "FAILED" ELSE "COMPLETED"
Verdict(p)   == IF seen[p] = "CANCELLING" THEN "CANCELLED" ELSE Judgement(p)

\* Mutant: FAILED runs are not analyzed.
QueuesOnlyCompleted(complete, status) == complete /\ status = "COMPLETED"

\* The chain aggregate_run -> validate_run -> generate_insights is started.
QueuesAnalysis(complete, status) == complete /\ status \in {"COMPLETED", "FAILED"}

\* Mutant: the snapshot is taken before finalize_run.
SnapshotBefore(p, status) ==
    [status |-> seen[p],
     completed |-> Cardinality({q \in Participants : View(p, q) \in Terminal})]

\* Mutant: the snapshot counts settled jobs.
SnapshotOfJobs(p, status) ==
    [status |-> status,
     completed |-> Cardinality({q \in Participants : job[q] \in {"DONE", "FAILED", "CANCELLED"}})]

\* What NOTIFY will say: the run object's status and count_terminal.
Snapshot(p, status) ==
    [status |-> status,
     completed |-> Cardinality({q \in Participants : View(p, q) \in Terminal})]

\* is_run_complete, finalize_run, the aggregate_run job and the NOTIFY.  The ORM
\* writes a status only if it differs from the one the object was loaded with.
FinalizeIfComplete(p) ==
    LET complete == AllTerminalFor(p)
        status   == IF complete THEN Verdict(p) ELSE seen[p]
    IN  /\ pc[p] = "locked"
        /\ IF status # seen[p] THEN WriteRun(p, status) ELSE UNCHANGED <<runLock, runNew>>
        /\ outbox' = [outbox EXCEPT ![p] =
              [enqueue |-> QueuesAnalysis(complete, status), note |-> Snapshot(p, status)]]
        /\ Goto(p, "finalized")
        /\ UNCHANGED <<run, partRows, jobRows, seen, giving, cancels, aggregates, faults>>

EndSession(p) ==
    /\ Goto(p, "idle")
    /\ giving' = [giving EXCEPT ![p] = FALSE]
    /\ outbox' = [outbox EXCEPT ![p] = None]
    /\ UNCHANGED <<seen, cancels>>

\* The worker's commit: DONE with the outcome, or FAILED with the bookkeeping.
CommitJob(p) ==
    /\ pc[p] = "finalized"
    /\ Commit(p, IF runLock = p THEN runNew ELSE run)
    /\ job' = [job EXCEPT ![p] = IF giving[p] THEN "FAILED" ELSE "DONE"]
    /\ attempts' = [attempts EXCEPT ![p] = IF giving[p] THEN @ + 1 ELSE @]
    /\ aggregates' = aggregates + (IF outbox[p].enqueue THEN 1 ELSE 0)
    /\ EndSession(p)
    /\ UNCHANGED faults

\* The handler raises, wherever it is: rollback.
HandlerRaises(p) ==
    /\ pc[p] \in {"claimed", "simulating", "written", "locked", "finalized"}
    /\ ~giving[p]
    /\ Rollback(p)
    /\ outbox' = [outbox EXCEPT ![p] = None]
    /\ Goto(p, "failing")
    /\ UNCHANGED <<jobRows, seen, giving, cancels, aggregates, faults>>

\* Mutant: no limit on retries.
RequeueAlways(p) ==
    /\ pc[p] = "failing"
    /\ job' = [job EXCEPT ![p] = "PENDING"]
    /\ attempts' = [attempts EXCEPT ![p] = @ + 1]
    /\ EndSession(p)
    /\ UNCHANGED <<runRow, partRows, aggregates, faults>>

Requeue(p) ==
    /\ pc[p] = "failing"
    /\ attempts[p] + 1 < MaxAttempts
    /\ job' = [job EXCEPT ![p] = "PENDING"]
    /\ attempts' = [attempts EXCEPT ![p] = @ + 1]
    /\ EndSession(p)
    /\ UNCHANGED <<runRow, partRows, aggregates, faults>>

\* Mutant: no ON_PERMANENT_FAILURE handler.
GiveUpSilently(p) ==
    /\ pc[p] = "failing"
    /\ attempts[p] + 1 >= MaxAttempts
    /\ job' = [job EXCEPT ![p] = "FAILED"]
    /\ attempts' = [attempts EXCEPT ![p] = @ + 1]
    /\ EndSession(p)
    /\ UNCHANGED <<runRow, partRows, aggregates, faults>>

\* The permanent-failure handler reads the participant_run, and writes to it
\* only if that read was not terminal.
GiveUp(p) ==
    /\ pc[p] = "failing"
    /\ attempts[p] + 1 >= MaxAttempts
    /\ giving' = [giving EXCEPT ![p] = TRUE]
    /\ Goto(p, IF part[p] \in Terminal THEN "written" ELSE "erroring")
    /\ UNCHANGED <<runRow, partRows, jobRows, seen, outbox, cancels, aggregates, faults>>

WriteErrored(p) ==
    /\ pc[p] = "erroring"
    /\ WritePart(p, p, "ERRORED")
    /\ Goto(p, "written")
    /\ UNCHANGED <<runRow, part, jobRows, seen, giving, outbox, cancels, aggregates, faults>>

\* The transaction ends without a trace and the job stays RUNNING.
AbandonJob(p) ==
    /\ Rollback(p)
    /\ EndSession(p)
    /\ UNCHANGED <<jobRows, aggregates>>

LoseSession(p) ==
    /\ pc[p] # "idle"
    /\ faults < MaxFaults
    /\ faults' = faults + 1
    /\ AbandonJob(p)

-----------------------------------------------------------------------------
(* cancel_run. *)

CGoto(c, l) == cpc' = [cpc EXCEPT ![c] = l]

\* get_run and the status check: a plain read.  A finished run is refused.
CheckCancel(c) ==
    /\ cpc[c] = "start"
    /\ run \notin RunFinal
    /\ CGoto(c, "checked")
    /\ UNCHANGED <<runRow, partRows, jobRows, workers, cjobs, ctodo, aggregates, faults>>

MarkCancelling(c) ==
    /\ cpc[c] = "checked"
    /\ WriteRun(c, "CANCELLING")
    /\ CGoto(c, "marked")
    /\ UNCHANGED <<run, partRows, jobRows, workers, cjobs, ctodo, aggregates, faults>>

\* Mutant: no abandon_pending_participant_runs.
CancelJobsOnly(c) ==
    /\ cpc[c] = "marked"
    /\ cjobs' = [cjobs EXCEPT ![c] = {p \in Participants : job[p] = "PENDING"}]
    /\ CGoto(c, "abandoning")
    /\ UNCHANGED <<runRow, partRows, jobRows, workers, ctodo, aggregates, faults>>

\* cancel_pending takes the rows that are PENDING now, and the UPDATE of
\* abandon_pending_participant_runs starts on those that are.
CancelPending(c) ==
    /\ cpc[c] = "marked"
    /\ cjobs' = [cjobs EXCEPT ![c] = {p \in Participants : job[p] = "PENDING"}]
    /\ ctodo' = [ctodo EXCEPT ![c] = {p \in Participants : part[p] = "PENDING"}]
    /\ CGoto(c, "abandoning")
    /\ UNCHANGED <<runRow, partRows, jobRows, workers, aggregates, faults>>

\* That UPDATE reaches p's row, waits for its lock and re-reads it.
AbandonPart(c, p) ==
    /\ cpc[c] = "abandoning" /\ p \in ctodo[c]
    /\ partLock[p] = None
    /\ IF part[p] = "PENDING" THEN WritePart(c, p, "ABANDONED")
                              ELSE UNCHANGED <<partLock, partNew>>
    /\ ctodo' = [ctodo EXCEPT ![c] = @ \ {p}]
    /\ UNCHANGED <<runRow, part, jobRows, workers, cpc, cjobs, aggregates, faults>>

CommitCancel(c) ==
    /\ cpc[c] = "abandoning" /\ ctodo[c] = {}
    /\ Commit(c, IF AllTerminalFor(c) THEN "CANCELLED" ELSE "CANCELLING")
    /\ job' = [p \in Participants |-> IF p \in cjobs[c] THEN "CANCELLED" ELSE job[p]]
    /\ cjobs' = [cjobs EXCEPT ![c] = {}]
    /\ CGoto(c, "end")
    /\ UNCHANGED <<attempts, workers, ctodo, aggregates, faults>>

RollbackCancel(c) ==
    /\ Rollback(c)
    /\ cjobs' = [cjobs EXCEPT ![c] = {}]
    /\ ctodo' = [ctodo EXCEPT ![c] = {}]
    /\ CGoto(c, "end")
    /\ UNCHANGED <<jobRows, workers, aggregates>>

\* The request dies before its commit.
AbortCancel(c) ==
    /\ cpc[c] \in {"checked", "marked", "abandoning"}
    /\ faults < MaxFaults
    /\ faults' = faults + 1
    /\ RollbackCancel(c)

-----------------------------------------------------------------------------
(* A worker holds its participant_runs row and wants the run; a cancel holds *)
(* the run and wants that row.  Postgres aborts one of them.                 *)
Deadlocked(p, c) ==
    /\ pc[p] = "written" /\ partLock[p] = p
    /\ runLock = c /\ p \in ctodo[c]

\* A victim in its handler retries; one in its bookkeeping ends in a commit
\* that Postgres turns into a rollback.
BreakDeadlock(p, c) ==
    /\ Deadlocked(p, c)
    /\ \/ RollbackCancel(c) /\ UNCHANGED faults
       \/ HandlerRaises(p)
       \/ giving[p] /\ AbandonJob(p) /\ UNCHANGED faults

Work(p) ==
    \/ LoadRun(p) \/ WriteOutcome(p) \/ LockForFinalize(p) \/ FinalizeIfComplete(p)
    \/ Requeue(p) \/ GiveUp(p) \/ WriteErrored(p)

WorkerStep(p) == Work(p) \/ CommitJob(p)

CancelStep(c) ==
    \/ MarkCancelling(c) \/ CancelPending(c) \/ CommitCancel(c)
    \/ \E p \in Participants : AbandonPart(c, p)

\* Every step but the commit of a job, which alone delivers a NOTIFY.
Silent ==
    \/ \E p \in Participants : Claim(p) \/ Work(p) \/ HandlerRaises(p) \/ LoseSession(p)
    \/ \E c \in Cancels : CheckCancel(c) \/ CancelStep(c) \/ AbortCancel(c)
    \/ \E p \in Participants, c \in Cancels : BreakDeadlock(p, c)

Next == Silent \/ \E p \in Participants : CommitJob(p)

Spec == Init /\ [][Next]_vars

\* The loops poll, so a PENDING job is claimed once a loop stays free for it; a
\* transaction that can go on does; Postgres breaks every deadlock.
Fairness ==
    /\ \A p \in Participants : WF_vars(Claim(p)) /\ WF_vars(WorkerStep(p))
    /\ \A c \in Cancels : WF_vars(CancelStep(c))
    /\ \A p \in Participants, c \in Cancels : WF_vars(BreakDeadlock(p, c))

FairSpec == Spec /\ Fairness
-----------------------------------------------------------------------------
(* Properties. *)

\* A run is final exactly when all its participants are: nobody finalizes early,
\* and of any number of participants finishing at once the last to commit does
\* finalize (lock_for_finalize), as does a cancel that leaves nobody behind.
FinalIffAllTerminal ==
    run \in RunFinal <=> \A p \in Participants : part[p] \in Terminal

\* A settled job and its participant_run tell the same story: DONE has a simulated
\* outcome, FAILED has an outcome all the same, CANCELLED was abandoned unless it
\* had been settled before, and the error marker is only ever left by a failed job.
JobAndParticipantAgree ==
    \A p \in Participants :
        /\ job[p] = "DONE" => part[p] \in Outcomes
        /\ job[p] = "FAILED" => part[p] \in Terminal
        /\ job[p] = "CANCELLED" => part[p] = "ABANDONED"
        /\ part[p] = "ERRORED" => job[p] = "FAILED"

\* No cancel request has been let in.
Uncancelled == \A c \in Cancels : cpc[c] = "start"

\* A run that ended by itself is analyzed: its aggregate_run job is committed with
\* the verdict, never without it and never forgotten; and until somebody cancels,
\* once, whatever is retried, lost or given up (simulate_participant.py:45-61).
AnalysisFollowsVerdict ==
    /\ run \in {"COMPLETED", "FAILED"} => aggregates >= 1
    /\ aggregates >= 1 => \A p \in Participants : part[p] \in Terminal
    /\ Uncancelled => aggregates = IF run \in RunFinal THEN 1 ELSE 0

\* A cancelled run has no participant left behind: CANCELLING is committed by
\* nobody, because whoever is not abandoned has an outcome by then.
CancelIsImmediate == run # "CANCELLING"

\* To those who read its committed rows the run is a RunContract: with all its
\* sessions, statements and locks, every commit settles one participant or cancels
\* all that are pending, and the last one decides the run with the same commit.
\* (simulate_participant.py:45-72, simulations.py:220-235)
Contract == INSTANCE RunContract WITH verdict <- run, rows <- part, analyses <- aggregates
ImplementsRunContract == Contract!CSpec

\* With cancels, deadlocks and lost sessions, one thing only keeps a run from
\* ending: a participant whose job was lost while a worker had it.
Lost(p) == job[p] = "RUNNING" /\ pc[p] = "idle" /\ part[p] = "PENDING"

EndsUnlessJobLost ==
    <>[](run \in RunFinal \/ \E p \in Participants : Lost(p))

\* simulation_run_service.py:162-167: a run that was cancelled "must not silently
\* become COMPLETED/FAILED as if nothing was cancelled".
CancelledStaysCancelled == [][run = "CANCELLED" => run' = "CANCELLED"]_vars

-----------------------------------------------------------------------------
(* The inductive invariant. *)

\* A session is at work on a RUNNING job; a job that has not settled has an attempt
\* left, and nobody but a cancel has written its participant's row.
OpenJobs ==
    \A p \in Participants :
      /\ pc[p] # "idle" => job[p] = "RUNNING"
      /\ giving[p] => pc[p] \in {"erroring", "written", "locked", "finalized"}
      /\ pc[p] = "erroring" => giving[p]
      /\ job[p] \in {"PENDING", "RUNNING"} =>
           /\ attempts[p] < MaxAttempts
           /\ part[p] = "PENDING" \/ (part[p] = "ABANDONED" /\ ~ Uncancelled)

\* The row of the run is locked by whoever is between taking it and its commit.
RunLockHeld ==
    /\ \A p \in Participants : runLock = p <=> pc[p] \in {"locked", "finalized"}
    /\ \A c \in Cancels : runLock = c <=> cpc[c] \in {"marked", "abandoning"}

\* A participant's row is locked by its own worker, or by a cancel that abandons it.
PartLocksHeld ==
    \A q \in Participants :
      \/ partLock[q] = None
      \/ partLock[q] = q /\ pc[q] \in {"written", "locked", "finalized"}
      \/ /\ partLock[q] \in Cancels /\ cpc[partLock[q]] = "abandoning"
         /\ partNew[q] = "ABANDONED" /\ part[q] = "PENDING"

\* What a worker has written when it goes for the run's lock.
OutcomeWritten ==
    \A p \in Participants : pc[p] \in {"written", "locked", "finalized"} =>
      IF giving[p] THEN \/ partLock[p] = p /\ partNew[p] = "ERRORED"
                        \/ partLock[p] # p /\ part[p] \in Terminal
                   ELSE partLock[p] = p /\ partNew[p] \in Outcomes

\* What a cancel has found, and has still to reach.
CancelSweeps ==
    \A c \in Cancels :
      /\ cpc[c] = "abandoning" => \A q \in Participants : q \in ctodo[c] \/ View(c, q) \in Terminal
      /\ \A p \in cjobs[c] : cpc[c] = "abandoning" /\ job[p] = "PENDING"

\* The run object of a session may be stale, but a final run stays final.
StaleButSafe ==
    \A p \in Participants :
      /\ seen[p] # "CANCELLING"
      /\ seen[p] \in RunFinal => run \in RunFinal

\* What finalize_run has decided under the lock still holds at the commit.
VerdictHolds ==
    \A p \in Participants :
      /\ pc[p] = "locked" => runNew = run
      /\ pc[p] = "finalized" =>
           /\ outbox[p] \in [enqueue : BOOLEAN, note : Notes]
           /\ outbox[p].enqueue <=> AllTerminalFor(p)
           /\ runNew = run \/ (AllTerminalFor(p) /\ runNew = Judgement(p))
           /\ AllTerminalFor(p) => runNew \in RunFinal

RunInv ==
    /\ TypeOK /\ OpenJobs /\ RunLockHeld /\ PartLocksHeld /\ OutcomeWritten
    /\ CancelSweeps /\ StaleButSafe /\ VerdictHolds
    /\ FinalIffAllTerminal /\ JobAndParticipantAgree /\ AnalysisFollowsVerdict /\ CancelIsImmediate
=============================================================================
