------------------------------ MODULE JobQueue ------------------------------
(***************************************************************************)
(* The Postgres job queue: app/workers/runner.py (claim, run, retry, give  *)
(* up) with app/services/job_service.py (enqueue, cancel_pending) and the  *)
(* two ways to start it, runner.py itself and app/workers/service.py.      *)
(*                                                                         *)
(* A row of the jobs table is status[j], attempts[j], created[j].  lock[j] *)
(* is the Postgres row lock: the worker or cancel request whose open       *)
(* transaction wrote the row.  The columns hold committed values; what an  *)
(* open transaction will write is a function of its program counter.  A    *)
(* handler's own writes are one unit of work: effects[j] counts how often  *)
(* they were committed.                                                    *)
(***************************************************************************)
EXTENDS Naturals, FiniteSets

CONSTANTS
    Jobs,         \* rows that may ever be inserted
    Targets,      \* the rows cancel_pending's WHERE matches (one run's jobs)
    Tracked,      \* jobs whose type has an ON_PERMANENT_FAILURE handler
    Workers,      \* the NUM_WORKERS loops of one worker process
    Cancels,      \* transactions that call cancel_pending
    Hosted,       \* the loops run under service.py, not runner.py's own main
    MaxAttempts,  \* MAX_ATTEMPTS
    MaxFaults,    \* bound: dropped connections and process deaths
    None

ASSUME QueueAssumption ==
    /\ Hosted \in BOOLEAN
    /\ MaxAttempts \in Nat \ {0}
    /\ MaxFaults \in Nat
    /\ Targets \subseteq Jobs
    /\ Tracked \subseteq Jobs
    /\ Workers \cap Cancels = {}
    /\ None \notin Jobs \cup Workers \cup Cancels

VARIABLES
    status, attempts, created, lock,  \* the jobs table
    now,                              \* transaction timestamps, server side
    pc, cur,                          \* each worker loop and its job_id
    up,                               \* the worker process is running
    cpc, ctodo,                       \* each cancel transaction, rows it has yet to visit
    effects, hook, starts, faults     \* history: committed handler runs, what became of
                                      \* the permanent-failure handler, committed claims

rows    == <<status, attempts, created, lock, now>>
loops   == <<pc, cur, up>>
cancels == <<cpc, ctodo>>
history == <<effects, hook, starts, faults>>
vars    == <<status, attempts, created, lock, now, pc, cur, up, cpc, ctodo,
             effects, hook, starts, faults>>

\* "INSERTED" is a row of a transaction that has not committed: nobody sees it.
\* A producer that rolls back leaves nothing behind, so it is one that never began.
Statuses == {"ABSENT", "INSERTED", "PENDING", "RUNNING", "DONE", "FAILED", "CANCELLED"}
Settled  == {"DONE", "FAILED", "CANCELLED"}

TypeOK ==
    /\ status \in [Jobs -> Statuses]
    /\ attempts \in [Jobs -> 0..MaxAttempts]
    /\ created \in [Jobs -> Nat]
    /\ lock \in [Jobs -> Workers \cup Cancels \cup {None}]
    /\ now \in Nat
    /\ pc \in [Workers -> {"idle", "claiming", "handling", "failing", "stopped"}]
    /\ cur \in [Workers -> Jobs \cup {None}]
    /\ up \in BOOLEAN
    /\ cpc \in [Cancels -> {"start", "updating", "end"}]
    /\ ctodo \in [Cancels -> SUBSET Jobs]
    /\ effects \in [Jobs -> Nat]
    /\ hook \in [Jobs -> {"none", "done", "swallowed"}]
    /\ starts \in [Jobs -> Nat]
    /\ faults \in 0..MaxFaults

Init ==
    /\ status = [j \in Jobs |-> "ABSENT"]
    /\ attempts = [j \in Jobs |-> 0]
    /\ created = [j \in Jobs |-> 0]
    /\ lock = [j \in Jobs |-> None]
    /\ now = 0
    /\ pc = [w \in Workers |-> "idle"]
    /\ cur = [w \in Workers |-> None]
    /\ up = TRUE
    /\ cpc = [c \in Cancels |-> "start"]
    /\ ctodo = [c \in Cancels |-> {}]
    /\ effects = [j \in Jobs |-> 0]
    /\ hook = [j \in Jobs |-> "none"]
    /\ starts = [j \in Jobs |-> 0]
    /\ faults = 0

-----------------------------------------------------------------------------
(* Producers.  created_at defaults to now(), the time the inserting         *)
(* transaction began, so the jobs of one transaction tie, and a slow        *)
(* producer commits jobs that are older than some already claimed.          *)

Enqueue(S) ==
    /\ S # {}
    /\ \A j \in S : status[j] = "ABSENT"
    /\ status' = [j \in Jobs |-> IF j \in S THEN "INSERTED" ELSE status[j]]
    /\ created' = [j \in Jobs |-> IF j \in S THEN now + 1 ELSE created[j]]
    /\ now' = now + 1
    /\ UNCHANGED <<attempts, lock, loops, cancels, history>>

CommitEnqueue(t) ==
    /\ \E j \in Jobs : status[j] = "INSERTED" /\ created[j] = t
    /\ status' = [j \in Jobs |-> IF status[j] = "INSERTED" /\ created[j] = t
                                 THEN "PENDING" ELSE status[j]]
    /\ UNCHANGED <<attempts, created, lock, now, loops, cancels, history>>

-----------------------------------------------------------------------------
(* A worker loop. *)

Free(w) == [pc EXCEPT ![w] = "idle"]
Drop(w) == [cur EXCEPT ![w] = None]

Unlocked(S) == [j \in Jobs |-> IF lock[j] \in S THEN None ELSE lock[j]]

\* Mutant: the claim reads without FOR UPDATE SKIP LOCKED.
ClaimableUnderLock == {j \in Jobs : status[j] = "PENDING"}

\* What FOR UPDATE SKIP LOCKED may return: PENDING rows nobody has locked.
Claimable == {j \in Jobs : status[j] = "PENDING" /\ lock[j] = None}

Oldest(S) == {j \in S : \A k \in S : created[j] <= created[k]}

Select(w) ==
    /\ up /\ pc[w] = "idle"
    /\ \E j \in Oldest(Claimable) :
         /\ lock' = [lock EXCEPT ![j] = w]
         /\ cur' = [cur EXCEPT ![w] = j]
    /\ pc' = [pc EXCEPT ![w] = "claiming"]
    /\ UNCHANGED <<status, attempts, created, now, up, cancels, history>>

Claim(w) ==
    /\ pc[w] = "claiming"
    /\ status' = [status EXCEPT ![cur[w]] = "RUNNING"]
    /\ lock' = [lock EXCEPT ![cur[w]] = None]
    /\ pc' = [pc EXCEPT ![w] = "handling"]
    /\ starts' = [starts EXCEPT ![cur[w]] = @ + 1]
    /\ UNCHANGED <<attempts, created, now, cur, up, cancels, effects, hook, faults>>

\* The handler returned: its writes and status = DONE are one commit.
Finish(w) ==
    /\ pc[w] = "handling"
    /\ status' = [status EXCEPT ![cur[w]] = "DONE"]
    /\ effects' = [effects EXCEPT ![cur[w]] = @ + 1]
    /\ pc' = Free(w)
    /\ cur' = Drop(w)
    /\ UNCHANGED <<attempts, created, lock, now, up, cancels, hook, starts, faults>>

\* Mutant: no session.rollback(), so the failed handler's writes are committed.
RaiseWithoutRollback(w) ==
    /\ pc[w] = "handling"
    /\ lock' = [lock EXCEPT ![cur[w]] = w]
    /\ pc' = [pc EXCEPT ![w] = "failing"]
    /\ effects' = [effects EXCEPT ![cur[w]] = @ + 1]
    /\ UNCHANGED <<status, attempts, created, now, cur, up, cancels, hook, starts, faults>>

\* The handler raised: its transaction is rolled back and a second one bumps
\* attempts, which locks the row until that transaction ends.
Raise(w) ==
    /\ pc[w] = "handling"
    /\ lock' = [lock EXCEPT ![cur[w]] = w]
    /\ pc' = [pc EXCEPT ![w] = "failing"]
    /\ UNCHANGED <<status, attempts, created, now, cur, up, cancels, history>>

\* Mutant: one attempt too few.
TriesLeftEarly(n) == n + 1 < MaxAttempts

TriesLeft(n) == n < MaxAttempts

\* The loop is free again and its transaction wrote nothing.
Vanish(w) ==
    /\ lock' = Unlocked({w})
    /\ pc' = Free(w)
    /\ cur' = Drop(w)
    /\ UNCHANGED <<status, attempts, created, now, up, cancels, effects, hook, starts>>

\* What the commit that writes FAILED holds of ON_PERMANENT_FAILURE: all of its
\* writes, or, when it raised without breaking the transaction, none or some of
\* them, for the exception is logged and swallowed.
HookOutcomes == {"done", "swallowed"}

\* Commit of that second transaction: back to the queue, or FAILED, for a type
\* that has a permanent-failure handler after calling it.
RecordFailure(w) ==
    LET j == cur[w]
        n == attempts[j] + 1
    IN  /\ pc[w] = "failing"
        /\ attempts' = [attempts EXCEPT ![j] = n]
        /\ status' = [status EXCEPT ![j] = IF TriesLeft(n) THEN "PENDING" ELSE "FAILED"]
        /\ IF ~TriesLeft(n) /\ j \in Tracked
           THEN \E h \in HookOutcomes : hook' = [hook EXCEPT ![j] = h]
           ELSE hook' = hook
        /\ lock' = [lock EXCEPT ![j] = None]
        /\ pc' = Free(w)
        /\ cur' = Drop(w)
        /\ UNCHANGED <<created, now, up, cancels, effects, starts, faults>>

\* An exception leaves _process_job (the commit, or a statement of the retry
\* bookkeeping, failed), or the permanent-failure handler's SQL error was swallowed
\* and the commit of its aborted transaction is a rollback.  The loop logs it
\* and goes on; the row stays RUNNING.
LoseJob(w) ==
    /\ pc[w] \in {"handling", "failing"}
    /\ faults < MaxFaults
    /\ faults' = faults + 1
    /\ Vanish(w)

\* Every open transaction of the process is rolled back.
ProcessDies ==
    /\ faults < MaxFaults
    /\ faults' = faults + 1
    /\ up' = FALSE
    /\ lock' = Unlocked(Workers)
    /\ pc' = [w \in Workers |-> "idle"]
    /\ cur' = [w \in Workers |-> None]
    /\ UNCHANGED <<status, attempts, created, now, cancels, effects, hook, starts>>

\* Mutant: the failed claim's session is never closed.
LoopStopsInTransaction(w) ==
    /\ faults < MaxFaults
    /\ faults' = faults + 1
    /\ pc' = [pc EXCEPT ![w] = "stopped"]
    /\ cur' = Drop(w)
    /\ UNCHANGED <<rows, up, cancels, effects, hook, starts>>

\* The loop's task ends with an error.  Its transaction is rolled back, or was
\* committed although the answer never came.
LoopStops(w) ==
    /\ faults < MaxFaults
    /\ faults' = faults + 1
    /\ \/ UNCHANGED <<status, starts>>
       \/ /\ pc[w] = "claiming"
          /\ status' = [status EXCEPT ![cur[w]] = "RUNNING"]
          /\ starts' = [starts EXCEPT ![cur[w]] = @ + 1]
    /\ lock' = Unlocked({w})
    /\ pc' = [pc EXCEPT ![w] = "stopped"]
    /\ cur' = Drop(w)
    /\ UNCHANGED <<attempts, created, now, up, cancels, effects, hook>>

\* The claim is outside the loop's try, so an error in it ends the loop and
\* gather().  asyncio.run() then cancels the other loops; in service.py they go
\* on, the event loop being uvicorn's, and /health still answers 200.
ClaimFails(w) ==
    /\ up /\ pc[w] \in {"idle", "claiming"}
    /\ IF Hosted THEN LoopStops(w) ELSE ProcessDies

Kill == up /\ ProcessDies

Restart ==
    /\ ~up
    /\ up' = TRUE
    /\ UNCHANGED <<rows, pc, cur, cancels, history>>

-----------------------------------------------------------------------------
(* cancel_pending: one UPDATE over the rows that are PENDING when it starts; *)
(* each is re-read under its lock, so a row claimed meanwhile is left alone. *)

BeginCancel(c) ==
    /\ cpc[c] = "start"
    /\ cpc' = [cpc EXCEPT ![c] = "updating"]
    /\ ctodo' = [ctodo EXCEPT ![c] = {j \in Targets : status[j] = "PENDING"}]
    /\ UNCHANGED <<rows, loops, history>>

\* Mutant: the UPDATE's WHERE is not re-evaluated on the locked row.
CancelRowBlindly(c, j) ==
    /\ cpc[c] = "updating"
    /\ j \in ctodo[c]
    /\ lock[j] = None
    /\ lock' = [lock EXCEPT ![j] = c]
    /\ ctodo' = [ctodo EXCEPT ![c] = @ \ {j}]
    /\ UNCHANGED <<status, attempts, created, now, loops, cpc, history>>

CancelRow(c, j) ==
    /\ cpc[c] = "updating"
    /\ j \in ctodo[c]
    /\ lock[j] = None
    /\ lock' = [lock EXCEPT ![j] = IF status[j] = "PENDING" THEN c ELSE None]
    /\ ctodo' = [ctodo EXCEPT ![c] = @ \ {j}]
    /\ UNCHANGED <<status, attempts, created, now, loops, cpc, history>>

CommitCancel(c) ==
    /\ cpc[c] = "updating"
    /\ ctodo[c] = {}
    /\ status' = [j \in Jobs |-> IF lock[j] = c THEN "CANCELLED" ELSE status[j]]
    /\ lock' = Unlocked({c})
    /\ cpc' = [cpc EXCEPT ![c] = "end"]
    /\ UNCHANGED <<attempts, created, now, loops, ctodo, history>>

\* The request fails before its commit.
AbortCancel(c) ==
    /\ cpc[c] = "updating"
    /\ lock' = Unlocked({c})
    /\ cpc' = [cpc EXCEPT ![c] = "end"]
    /\ ctodo' = [ctodo EXCEPT ![c] = {}]
    /\ UNCHANGED <<status, attempts, created, now, loops, history>>

-----------------------------------------------------------------------------
WorkerStep(w) == Select(w) \/ Claim(w) \/ Finish(w) \/ Raise(w) \/ RecordFailure(w)

CancelStep(c) == (\E j \in Jobs : CancelRow(c, j)) \/ CommitCancel(c)

ServiceStep ==
    \/ \E S \in SUBSET Jobs : Enqueue(S)
    \/ \E j \in Jobs : CommitEnqueue(created[j])
    \/ \E w \in Workers : WorkerStep(w) \/ LoseJob(w) \/ ClaimFails(w)
    \/ Restart
    \/ \E c \in Cancels : BeginCancel(c) \/ CancelStep(c) \/ AbortCancel(c)

Next == ServiceStep \/ Kill

Spec == Init /\ [][Next]_vars

\* Connections are lost, but the process is not killed from outside.
UnkilledSpec == Init /\ [][ServiceStep]_vars

\* Loops keep polling, a transaction that began ends, a dead process is
\* restarted; nothing obliges a client to enqueue or cancel.
Fairness ==
    /\ \A w \in Workers : WF_vars(WorkerStep(w))
    /\ \A c \in Cancels : WF_vars(CancelStep(c))
    /\ WF_vars(\E j \in Jobs : CommitEnqueue(created[j]))
    /\ WF_vars(Restart)

FairSpec == Spec /\ Fairness
-----------------------------------------------------------------------------
(* Properties. *)

\* FOR UPDATE SKIP LOCKED hands a row to one loop only: no two loops of the
\* process are ever claiming or working on the same job.
OneOwner ==
    \A v, w \in Workers : v # w /\ cur[v] # None => cur[v] # cur[w]

\* A handler's writes and its DONE are one commit, so however often the job is
\* retried, dropped or the process dies, its work is in the database exactly
\* once if the job is DONE and not at all otherwise.
ExactlyOnce ==
    \A j \in Jobs : effects[j] = IF status[j] = "DONE" THEN 1 ELSE 0

\* No job is handed to a loop more than MAX_ATTEMPTS times, although a lost
\* attempt is never counted: a job whose attempt was lost is not re-run.
BoundedStarts == \A j \in Jobs : starts[j] <= MaxAttempts

\* FAILED is written only after MAX_ATTEMPTS recorded failures of as many claims,
\* so a lost attempt or a cancel never adds up to one, and what a permanent-failure
\* handler wrote is committed with its job's FAILED or not at all.  That it wrote
\* all it should is not promised: its own error may have been swallowed.
FailureIsRecorded ==
    \A j \in Jobs :
        /\ status[j] = "FAILED" => attempts[j] = MaxAttempts /\ starts[j] = MaxAttempts
        /\ hook[j] # "none" <=> status[j] = "FAILED" /\ j \in Tracked

\* A settled row is never written again: a cancelled job is not started, a
\* running one not cancelled, a finished or failed one not retried.
SettledIsFinal ==
    [][\A j \in Jobs : status[j] \in Settled =>
          status'[j] = status[j] /\ effects'[j] = effects[j] /\ starts'[j] = starts[j]]_vars

\* Whatever its handler does, whatever connections are lost, however often the
\* process dies: a committed job settles unless its own attempt was lost, or no
\* loop of the process is left to claim it (runner.py:58-130).
JobsSettleWhileALoopLives ==
    \A j \in Jobs :
        status[j] = "PENDING" ~>
            \/ status[j] \in Settled
            \/ status[j] = "RUNNING" /\ \A w \in Workers : cur[w] # j
            \/ \A w \in Workers : pc[w] = "stopped"

\* The contract sees a row once the transaction that inserted it commits.
Phase == [j \in Jobs |-> IF status[j] = "INSERTED" THEN "ABSENT" ELSE status[j]]

Contract == INSTANCE JobContract WITH phase <- Phase, tries <- attempts, work <- effects

\* Every behaviour of loops, row locks and transactions is one that the
\* abstract contract allows.
ImplementsContract == Contract!CSpec

-----------------------------------------------------------------------------
(* The inductive invariant behind the theorems of JobQueueProofs. *)

\* A loop has a job exactly while it is busy, and the row is in the state and
\* under the lock that the loop's program counter implies.
LoopsHoldTheirRows ==
    \A w \in Workers :
        /\ pc[w] \in {"idle", "stopped"} <=> cur[w] = None
        /\ pc[w] = "claiming" => status[cur[w]] = "PENDING" /\ lock[cur[w]] = w
        /\ pc[w] = "handling" => status[cur[w]] = "RUNNING" /\ lock[cur[w]] = None
        /\ pc[w] = "failing" => status[cur[w]] = "RUNNING" /\ lock[cur[w]] = w

\* A row lock has a reason: the loop that works on the row, or a cancel that is
\* updating it, and then the row is PENDING.
LocksHaveHolders ==
    \A j \in Jobs :
        /\ lock[j] \in Workers => cur[lock[j]] = j
        /\ lock[j] \in Cancels => status[j] = "PENDING" /\ cpc[lock[j]] = "updating"

\* Claims are the recorded failures plus the attempt that is running, was lost
\* while running, or succeeded.
StartsAreAccounted ==
    \A j \in Jobs :
        /\ starts[j] = attempts[j] + (IF status[j] \in {"RUNNING", "DONE"} THEN 1 ELSE 0)
        /\ status[j] = "FAILED" <=> attempts[j] = MaxAttempts
        /\ hook[j] # "none" <=> status[j] = "FAILED" /\ j \in Tracked

\* Rows, locks and loops never disagree, and neither do the counters.
QueueInv ==
    /\ TypeOK
    /\ OneOwner
    /\ LoopsHoldTheirRows
    /\ LocksHaveHolders
    /\ StartsAreAccounted
    /\ ExactlyOnce
=============================================================================
