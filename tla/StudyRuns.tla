----------------------------- MODULE StudyRuns -----------------------------
(***************************************************************************)
(* One study: its lifecycle, its setup (task, audience, screens), the      *)
(* synthetic runs that create_run and publish start, and the human runs    *)
(* whose sessions testers complete with a capture token                    *)
(* (usecases/studies.py, simulations.py, tasks.py, audiences.py,           *)
(* journey_capture.py, core/auth.py and the services they compose).        *)
(*                                                                         *)
(* A request is one READ COMMITTED transaction of a client: it opens by    *)
(* reading rows, and what it read may be stale when it commits.  Where the *)
(* code flushes before it reads again, the flush is a step of its own:     *)
(* publish holds the lock of the study row from there on, complete_session *)
(* the lock of its session's row.  An ORM object loaded by a request keeps *)
(* the status it was loaded with, and a status that is assigned the value  *)
(* it was loaded with is not written.  How the participants of a synthetic *)
(* run end it is RunLifecycle's subject and one step here.                 *)
(***************************************************************************)
EXTENDS Naturals, FiniteSets

CONSTANTS
    Clients,      \* requests that can be in flight at once
    Runs,         \* bound: rows of simulation_runs
    Slots,        \* bound: capture sessions of one human run
    Tasks,        \* bound: rows of tasks
    MaxPeople,    \* bound: generated participants, and the sizes asked for
    MaxRequests,  \* bound: requests made in a behaviour
    None

ASSUME StudyAssumption ==
    /\ IsFiniteSet(Runs) /\ IsFiniteSet(Slots) /\ IsFiniteSet(Clients)
    /\ MaxPeople \in Nat \ {0}
    /\ MaxRequests \in Nat
    /\ None \notin Runs \cup Slots \cup Clients \cup Tasks

VARIABLES
    study,     \* the studies row: status, population_size (0: not set), not deleted
    tasks,     \* what each task lets a run do
    audience,  \* the latest audience: is there one, how many participants it has
    analyzed,  \* has_analyzed_screens
    runs,      \* simulation_runs; "by" and "seen" record who created the row and
               \* which rows that request had seen
    sessions,  \* participant_runs of the human runs
    txn,       \* the request each client has in flight
    clashed,   \* history: runs with two completions in flight at once
    late,      \* history: runs with a session that came after or with their verdict
    requests

setup   == <<tasks, audience, analyzed>>
history == <<clashed, late>>
vars    == <<study, tasks, audience, analyzed, runs, sessions, txn, clashed, late, requests>>

StudyStatuses == {"DRAFT", "READY", "RUNNING", "COMPLETED", "FAILED"}
RunFinal      == {"COMPLETED", "FAILED", "CANCELLED"}
RunStatuses   == {"none", "RUNNING", "CANCELLING"} \cup RunFinal
\* The terminal statuses, as finalize_run tells them apart: with or without an
\* "error" key in the final_outcome the client sent.
Outcomes      == {"ENDED", "ERRORED"}
\* "open": no finish line; "astray": one that names an unknown screen.
TaskKinds     == {"open", "astray", "sound"}
Sizes         == 0..MaxPeople

\* STUDY_STATUS_TRANSITIONS
Transitions == [DRAFT |-> {"READY"}, READY |-> {"RUNNING", "DRAFT"},
                RUNNING |-> {"COMPLETED", "FAILED"}, COMPLETED |-> {}, FAILED |-> {}]

NoRun == [status |-> "none", source |-> "SYNTHETIC", size |-> 0, by |-> "none", seen |-> {}]
Idle  == [op |-> "idle", step |-> "read", run |-> None, slot |-> None, task |-> None,
          status |-> "none", outcome |-> "none", size |-> 0, seen |-> {}, last |-> FALSE]

RunRows ==
    [status : RunStatuses, source : {"SYNTHETIC", "HUMAN"}, size : Nat,
     by : {"none", "start", "publish", "human"}, seen : SUBSET Runs]
Txns ==
    [op : {"idle", "patch", "delete", "start", "publish", "session", "complete", "cancel"},
     step : {"read", "written", "checked"},
     run : Runs \cup {None}, slot : Slots \cup {None}, task : Tasks \cup {None},
     status : RunStatuses \cup StudyStatuses, outcome : {"none"} \cup Outcomes,
     size : Nat, seen : SUBSET Runs, last : BOOLEAN]

TypeOK ==
    /\ study \in [status : StudyStatuses, size : Sizes, live : BOOLEAN]
    /\ tasks \in [Tasks -> {"none"} \cup TaskKinds]
    /\ audience \in [defined : BOOLEAN, people : Sizes]
    /\ analyzed \in BOOLEAN
    /\ runs \in [Runs -> RunRows]
    /\ sessions \in [Runs -> [Slots -> {"none", "IN_PROGRESS"} \cup Outcomes]]
    /\ txn \in [Clients -> Txns]
    /\ clashed \subseteq Runs
    /\ late \subseteq Runs
    /\ requests \in 0..MaxRequests

\* A new study, or one whose setup was completed in one sitting.
Init ==
    /\ \/ /\ study = [status |-> "DRAFT", size |-> 0, live |-> TRUE]
          /\ tasks = [t \in Tasks |-> "none"]
          /\ audience = [defined |-> FALSE, people |-> 0]
          /\ analyzed = FALSE
       \/ /\ study = [status |-> "DRAFT", size |-> 1, live |-> TRUE]
          /\ \E t \in Tasks : tasks = [u \in Tasks |-> IF u = t THEN "sound" ELSE "none"]
          /\ audience = [defined |-> TRUE, people |-> MaxPeople]
          /\ analyzed = TRUE
    /\ runs = [r \in Runs |-> NoRun]
    /\ sessions = [r \in Runs |-> [s \in Slots |-> "none"]]
    /\ txn = [c \in Clients |-> Idle]
    /\ clashed = {}
    /\ late = {}
    /\ requests = 0

-----------------------------------------------------------------------------
(* Rows and transactions. *)

Made    == {r \in Runs : runs[r].status # "none"}
Active(r) == runs[r].status \in RunStatuses \ (RunFinal \cup {"none"})
People(r) == {s \in Slots : sessions[r][s] # "none"}

Request == requests < MaxRequests /\ requests' = requests + 1

Open(c, request) ==
    /\ txn[c] = Idle
    /\ Request
    /\ txn' = [txn EXCEPT ![c] = request]

At(c, op, step) == txn[c].op = op /\ txn[c].step = step
Close(c) == txn' = [txn EXCEPT ![c] = Idle]

\* publish has flushed its UPDATE of the study row and not committed yet.
StudyLocked == \E c \in Clients : At(c, "publish", "written") \/ At(c, "publish", "checked")

\* c has flushed the outcome of a session it has not committed yet.
Completing(c, r) == At(c, "complete", "written") /\ txn[c].run = r

\* A refused request, a failing statement, a client that goes away: the
\* session closes and everything the request flushed is rolled back.
Rollback(c) ==
    /\ txn[c] # Idle
    /\ Close(c)
    /\ UNCHANGED <<study, setup, runs, sessions, history, requests>>

-----------------------------------------------------------------------------
(* The study row. *)

\* PATCH: the transition is checked against the status that was read.
PatchOpen(c) ==
    /\ study.live
    /\ \E status \in Transitions[study.status] \cup {"none"}, size \in Sizes :
         Open(c, [Idle EXCEPT !.op = "patch", !.status = status, !.size = size])
    /\ UNCHANGED <<study, setup, runs, sessions, history>>

PatchCommit(c) ==
    /\ At(c, "patch", "read")
    /\ ~ StudyLocked
    /\ study' = [study EXCEPT
                   !.status = IF txn[c].status = "none" THEN @ ELSE txn[c].status,
                   !.size = IF txn[c].size = 0 THEN @ ELSE txn[c].size]
    /\ Close(c)
    /\ UNCHANGED <<setup, runs, sessions, history, requests>>

DeleteOpen(c) ==
    /\ study.live
    /\ Open(c, [Idle EXCEPT !.op = "delete"])
    /\ UNCHANGED <<study, setup, runs, sessions, history>>

DeleteCommit(c) ==
    /\ At(c, "delete", "read")
    /\ ~ StudyLocked
    /\ study' = [study EXCEPT !.live = FALSE]
    /\ Close(c)
    /\ UNCHANGED <<setup, runs, sessions, history, requests>>

\* Tasks, the audience and its participants: one write each.
WriteTask ==
    /\ study.live
    /\ \E t \in Tasks, kind \in TaskKinds : tasks' = [tasks EXCEPT ![t] = kind]
    /\ Request
    /\ UNCHANGED <<study, audience, analyzed, runs, sessions, txn, history>>

DefineAudience ==
    /\ study.live
    /\ audience' = [defined |-> TRUE, people |-> 0]
    /\ Request
    /\ UNCHANGED <<study, tasks, analyzed, runs, sessions, txn, history>>

\* Generating twice adds to the participants that are there.
Generate ==
    /\ study.live /\ audience.defined
    /\ \E n \in 1..(MaxPeople - audience.people) : audience' = [audience EXCEPT !.people = @ + n]
    /\ Request
    /\ UNCHANGED <<study, tasks, analyzed, runs, sessions, txn, history>>

\* The stimulus jobs have read the screens.
ScreensAnalyzed ==
    /\ ~ analyzed /\ analyzed' = TRUE
    /\ UNCHANGED <<study, tasks, audience, runs, sessions, txn, history, requests>>

-----------------------------------------------------------------------------
(* Starting synthetic runs. *)

\* A size or a task of None is resolved by the study; 0 is a size nobody set.
StartOpen(c) ==
    /\ study.live
    /\ study.status \in {"READY", "RUNNING", "COMPLETED"}
    /\ \E size \in (Sizes \ {0}) \cup {study.size}, task \in Tasks \cup {None} :
         /\ size # 0
         /\ Open(c, [Idle EXCEPT !.op = "start", !.step = "written",
                                 !.size = size, !.task = task])
    /\ UNCHANGED <<study, setup, runs, sessions, history>>

PublishOpen(c) ==
    /\ study.live
    /\ study.status = "DRAFT"
    /\ study.size # 0
    /\ Open(c, [Idle EXCEPT !.op = "publish"])
    /\ UNCHANGED <<study, setup, runs, sessions, history>>

\* Mutant: publish looks for an active run before it takes the row's lock.
PublishWriteUnlocked(c) ==
    /\ At(c, "publish", "read")
    /\ study.live
    /\ txn' = [txn EXCEPT ![c].step = "written", ![c].size = study.size]
    /\ UNCHANGED <<study, setup, runs, sessions, history, requests>>

\* update(study, status="READY"): the flush waits for the row's lock, the
\* refresh reads the row again, and create_run its owner and deleted_at.
PublishWrite(c) ==
    /\ At(c, "publish", "read")
    /\ ~ StudyLocked
    /\ study.live
    /\ txn' = [txn EXCEPT ![c].step = "written", ![c].size = study.size]
    /\ UNCHANGED <<study, setup, runs, sessions, history, requests>>

Existing == {t \in Tasks : tasks[t] # "none"}

\* _resolve_task: the one that was asked for, else the only one there is.
Resolved(task) == IF task # None THEN {task} \cap Existing
                  ELSE IF Cardinality(Existing) = 1 THEN Existing ELSE {}

\* task_has_finish_line and _verify_screen_keys_exist
Runnable(task) == \E t \in Resolved(task) : tasks[t] = "sound"

\* Mutant: only synthetic runs are looked at.
CreateCheckSyntheticOnly(c) ==
    /\ txn[c].op \in {"start", "publish"} /\ txn[c].step = "written"
    /\ \A r \in Made : runs[r].source = "SYNTHETIC" => ~ Active(r)
    /\ analyzed
    /\ Runnable(txn[c].task)
    /\ audience.defined /\ audience.people > 0
    /\ txn[c].size <= audience.people
    /\ txn' = [txn EXCEPT ![c].step = "checked", ![c].seen = Made]
    /\ UNCHANGED <<study, setup, runs, sessions, history, requests>>

CreateCheck(c) ==
    /\ txn[c].op \in {"start", "publish"} /\ txn[c].step = "written"
    /\ \A r \in Made : ~ Active(r)
    /\ analyzed
    /\ Runnable(txn[c].task)
    /\ audience.defined /\ audience.people > 0
    /\ txn[c].size <= audience.people
    /\ txn' = [txn EXCEPT ![c].step = "checked", ![c].seen = Made]
    /\ UNCHANGED <<study, setup, runs, sessions, history, requests>>

\* The run, its participant_runs, their jobs and, for publish, the study's
\* status are one commit.
CreateCommit(c) ==
    /\ txn[c].op \in {"start", "publish"} /\ txn[c].step = "checked"
    /\ \E r \in Runs \ Made :
         runs' = [runs EXCEPT ![r] = [status |-> "RUNNING", source |-> "SYNTHETIC",
                                      size |-> txn[c].size, by |-> txn[c].op,
                                      seen |-> txn[c].seen]]
    /\ study' = IF txn[c].op = "publish" THEN [study EXCEPT !.status = "READY"] ELSE study
    /\ Close(c)
    /\ UNCHANGED <<setup, sessions, history, requests>>

\* The last participant ends the run (RunLifecycle).
SyntheticRunEnds(r) ==
    /\ runs[r].source = "SYNTHETIC" /\ runs[r].status = "RUNNING"
    /\ \E verdict \in {"COMPLETED", "FAILED"} : runs' = [runs EXCEPT ![r].status = verdict]
    /\ UNCHANGED <<study, setup, sessions, txn, history, requests>>

-----------------------------------------------------------------------------
(* Human runs: capture sessions and their completion. *)

CreateHumanRun ==
    /\ study.live /\ Existing # {}
    /\ \E r \in Runs \ Made :
         runs' = [runs EXCEPT ![r] = [status |-> "RUNNING", source |-> "HUMAN", size |-> 0,
                                      by |-> "human", seen |-> {}]]
    /\ Request
    /\ UNCHANGED <<study, setup, sessions, txn, history>>

\* increment_population_size adds one to the size that was loaded.
SessionOpen(c) ==
    /\ study.live
    /\ \E r \in Made :
         /\ runs[r].source = "HUMAN"
         /\ Open(c, [Idle EXCEPT !.op = "session", !.run = r, !.size = runs[r].size + 1])
    /\ UNCHANGED <<study, setup, runs, sessions, history>>

\* A session of r committed now finds the run over, or about to be.
TooLate(r) == \/ runs[r].status \in RunFinal
              \/ \E d \in Clients : Completing(d, r) /\ txn[d].last
LateWith(r) == IF TooLate(r) THEN late \cup {r} ELSE late

\* Mutant: the session is only inserted the first time it is asked for.
SessionCommitCountsFirst(c) ==
    LET r == txn[c].run
    IN  /\ At(c, "session", "read")
        /\ \E s \in Slots : sessions' = [sessions EXCEPT ![r][s] =
                                           IF @ = "none" THEN "IN_PROGRESS" ELSE @]
        /\ runs' = [runs EXCEPT ![r].size = txn[c].size]
        /\ late' = LateWith(r)
        /\ Close(c)
        /\ UNCHANGED <<study, setup, clashed, requests>>

SessionCommit(c) ==
    LET r == txn[c].run
    IN  /\ At(c, "session", "read")
        /\ \E s \in Slots \ People(r) : sessions' = [sessions EXCEPT ![r][s] = "IN_PROGRESS"]
        /\ runs' = [runs EXCEPT ![r].size = txn[c].size]
        /\ late' = LateWith(r)
        /\ Close(c)
        /\ UNCHANGED <<study, setup, clashed, requests>>

\* Mutant: the token of an ended session is still accepted.
CompleteOpenAgain(c) ==
    /\ \E r \in Made, s \in Slots, outcome \in Outcomes :
         /\ s \in People(r)
         /\ Open(c, [Idle EXCEPT !.op = "complete", !.run = r, !.slot = s,
                                 !.status = runs[r].status, !.outcome = outcome])
    /\ UNCHANGED <<study, setup, runs, sessions, history>>

\* get_capture_token: the token names the session; an ended one is refused.
\* The run is loaded with it (selectinload), so its status is the one of now.
CompleteOpen(c) ==
    /\ \E r \in Made, s \in Slots, outcome \in Outcomes :
         /\ sessions[r][s] = "IN_PROGRESS"
         /\ Open(c, [Idle EXCEPT !.op = "complete", !.run = r, !.slot = s,
                                 !.status = runs[r].status, !.outcome = outcome])
    /\ UNCHANGED <<study, setup, runs, sessions, history>>

\* A session of r as c reads it: its own write, else the committed row.
View(c, r, s) == IF txn[c].slot = s THEN txn[c].outcome ELSE sessions[r][s]

\* Mutant: is_run_complete counts before the outcome is flushed.
AllEndedBeforeFlush(c, r) == \A s \in People(r) : sessions[r][s] \in Outcomes

AllEnded(c, r) == \A s \in People(r) : View(c, r, s) \in Outcomes

\* complete_participant_run's flush waits for the session's row; then
\* is_run_complete counts what c can see, without lock_for_finalize.
CompleteWrite(c) ==
    LET r == txn[c].run
        others == {d \in Clients : Completing(d, r)}
    IN  /\ At(c, "complete", "read")
        /\ \A d \in others : txn[d].slot # txn[c].slot
        /\ txn' = [txn EXCEPT ![c].step = "written", ![c].last = AllEnded(c, r)]
        /\ clashed' = IF others = {} THEN clashed ELSE clashed \cup {r}
        /\ UNCHANGED <<study, setup, runs, sessions, late, requests>>

\* finalize_run on the run object of the token check; it counts once more.
Verdict(c, r) ==
    IF txn[c].status = "CANCELLING" THEN "CANCELLED"
    ELSE IF \A s \in People(r) : View(c, r, s) = "ERRORED" THEN "FAILED" ELSE "COMPLETED"

CompleteCommit(c) ==
    LET r == txn[c].run
    IN  /\ At(c, "complete", "written")
        /\ sessions' = [sessions EXCEPT ![r][txn[c].slot] = txn[c].outcome]
        /\ runs' = IF txn[c].last /\ Verdict(c, r) # txn[c].status
                   THEN [runs EXCEPT ![r].status = Verdict(c, r)] ELSE runs
        /\ Close(c)
        /\ UNCHANGED <<study, setup, history, requests>>

-----------------------------------------------------------------------------
(* cancel_run, of either kind of run. *)

CancelOpen(c) ==
    /\ study.live
    /\ \E r \in Made :
         /\ Active(r)
         /\ Open(c, [Idle EXCEPT !.op = "cancel", !.run = r, !.status = runs[r].status])
    /\ UNCHANGED <<study, setup, runs, sessions, history>>

\* The participants of a synthetic run are abandoned with it, so that it is
\* complete; a human run's sessions are left alone, and a run without
\* sessions is never complete.
Complete(r) ==
    \/ runs[r].source = "SYNTHETIC"
    \/ People(r) # {} /\ \A s \in People(r) : sessions[r][s] \in Outcomes

CancelCommit(c) ==
    LET r == txn[c].run
        status == IF Complete(r) THEN "CANCELLED"
                  ELSE IF txn[c].status = "CANCELLING" THEN runs[r].status
                  ELSE "CANCELLING"
    IN  /\ At(c, "cancel", "read")
        /\ runs' = [runs EXCEPT ![r].status = status]
        /\ Close(c)
        /\ UNCHANGED <<study, setup, sessions, history, requests>>

-----------------------------------------------------------------------------
StudyStep(c) == \/ PatchOpen(c) \/ PatchCommit(c) \/ DeleteOpen(c) \/ DeleteCommit(c)
                \/ StartOpen(c) \/ PublishOpen(c) \/ PublishWrite(c)
                \/ CreateCheck(c) \/ CreateCommit(c)
                \/ CancelOpen(c) \/ CancelCommit(c) \/ Rollback(c)
CaptureStep(c) == \/ SessionOpen(c) \/ SessionCommit(c)
                  \/ CompleteOpen(c) \/ CompleteWrite(c) \/ CompleteCommit(c)
SetupStep == WriteTask \/ DefineAudience \/ Generate \/ ScreensAnalyzed \/ CreateHumanRun

Next == \/ SetupStep
        \/ \E c \in Clients : StudyStep(c) \/ CaptureStep(c)
        \/ \E r \in Runs : SyntheticRunEnds(r)

Spec == Init /\ [][Next]_vars

-----------------------------------------------------------------------------
(* Properties. *)

\* However many publish requests pass the DRAFT check at once, they never
\* leave two active runs: publish flushes the study row before create_run looks
\* for an active run, so the later one waits for the earlier one's run.
\* (usecases/simulations.py:195-203)
PublishesSerialised ==
    \A r, q \in Made :
      r # q /\ runs[r].by = "publish" /\ runs[q].by = "publish" => ~ (Active(r) /\ Active(q))

\* A synthetic run starts beside a RUNNING one, synthetic or human, only if its
\* request looked for active runs before the other row was committed.
\* (usecases/simulations.py:125-133)
OnlyOverlapStartsTwo ==
    \A r, q \in Made :
      r # q /\ runs[q].source = "SYNTHETIC" /\ Active(q) /\ runs[r].status = "RUNNING"
        => r \notin runs[q].seen

\* Sessions created at the same moment may each add one to the size they have
\* loaded, so a human run's population_size can fall short of its sessions;
\* it never counts a session that does not exist.
\* (simulation_run_service.py:61-64, journey_capture.py:68-81)
SizeNeverOvercounts ==
    \A r \in Made : runs[r].source = "HUMAN" => runs[r].size <= Cardinality(People(r))

\* A human run whose sessions have all ended, with none of its requests in
\* flight, is still RUNNING only if two testers completed at the same moment, each
\* before it could see the other: complete_session takes no lock_for_finalize.
\* (usecases/journey_capture.py:119-128)
OnlyAClashStrandsARun ==
    \A r \in Made \ clashed :
      /\ runs[r].source = "HUMAN" /\ People(r) # {}
      /\ \A s \in People(r) : sessions[r][s] \in Outcomes
      /\ \A c \in Clients : txn[c].run # r
      => runs[r].status # "RUNNING"

\* The verdict of a human run stays what it is, or is given again by a request
\* that had loaded the run before it, unless a session was added to the run when
\* it was over, or while the last of the others was being completed: nothing in
\* create_session looks at the run, but a token of an ended session is refused
\* and cancel_run refuses a run that is over.
\* (usecases/journey_capture.py:58-90, core/auth.py:90-107, simulations.py:222)
VerdictIsKept ==
    [][\A r \in Made \ late :
         /\ runs[r].source = "HUMAN" /\ runs[r].status \in RunFinal
         /\ runs'[r].status # runs[r].status
         => \E c \in Clients :
              /\ txn[c].op \in {"complete", "cancel"} /\ txn[c].run = r
              /\ txn[c].status \notin RunFinal
              /\ txn'[c] = Idle]_vars

-----------------------------------------------------------------------------
(* The inductive invariant. *)

\* Synthetic runs are those that start and publish have created; only human runs
\* have sessions.
Kinds ==
    \A r \in Runs :
      /\ r \in Made => (runs[r].source = "SYNTHETIC" <=> runs[r].by \in {"start", "publish"})
      /\ r \notin Made => runs[r].seen = {}
      /\ People(r) # {} => r \in Made /\ runs[r].source = "HUMAN"

\* What a request has in hand.
InFlight ==
    \A c \in Clients :
      /\ txn[c].op = "patch" =>
           txn[c].status \in StudyStatuses \cup {"none"} /\ txn[c].size \in Sizes
      /\ txn[c].op \in {"session", "complete", "cancel"} => txn[c].run \in Made
      /\ \A r \in Runs : txn[c].run = r =>
           /\ txn[c].op = "session" => runs[r].source = "HUMAN"
           /\ txn[c].op = "complete" => txn[c].slot \in People(r) /\ txn[c].outcome \in Outcomes

\* The lock of the study row: one publish at a time looks for an active run and
\* creates one, and what it has seen holds until its commit.
OnePublisher ==
    \A c, d \in Clients :
      /\ At(c, "publish", "written") \/ At(c, "publish", "checked")
      /\ At(d, "publish", "written") \/ At(d, "publish", "checked")
      => c = d

PublishedAreOver ==
    \A c \in Clients : At(c, "publish", "checked") =>
      \A r \in Made : runs[r].by = "publish" => ~ Active(r)

\* No run is RUNNING again.
SeenAreOver ==
    /\ \A r \in Runs : \A q \in runs[r].seen : q \in Made /\ runs[q].status # "RUNNING"
    /\ \A c \in Clients : txn[c].step = "checked" =>
         \A q \in txn[c].seen : q \in Made /\ runs[q].status # "RUNNING"
    /\ \A c \in Clients, q \in Runs :
         txn[c].op = "complete" /\ txn[c].run = q /\ txn[c].status # "RUNNING" =>
           runs[q].status # "RUNNING"

\* A session counts itself and those that were there.
SizeInReach ==
    \A c \in Clients, r \in Runs : txn[c].op = "session" /\ txn[c].run = r =>
      txn[c].size <= Cardinality(People(r)) + 1

\* Until there is a clash, one request completes a session, and if it has not
\* found itself to be the last one, another session is still open.
Unclashed ==
    \A c \in Clients, r \in Runs \ clashed : Completing(c, r) =>
      /\ \A d \in Clients : Completing(d, r) => d = c
      /\ ~ txn[c].last => \E s \in People(r) \ {txn[c].slot} : sessions[r][s] \notin Outcomes

EndedAreOver ==
    \A r \in Made \ clashed :
      /\ runs[r].source = "HUMAN" /\ People(r) # {}
      /\ \A s \in People(r) : sessions[r][s] \in Outcomes
      => runs[r].status # "RUNNING"

StudyInv ==
    /\ TypeOK /\ Kinds /\ InFlight /\ OnePublisher /\ PublishedAreOver /\ SeenAreOver
    /\ SizeInReach /\ Unclashed /\ EndedAreOver
    /\ PublishesSerialised /\ SizeNeverOvercounts

\* Who finds itself the last one leaves no session open, nor does a verdict; so
\* whoever completes a session of a run that is over had loaded it before.
OverIsOver ==
    \A r \in Runs \ late :
      /\ runs[r].source = "HUMAN" /\ runs[r].status \in RunFinal =>
           \A s \in People(r) : sessions[r][s] \in Outcomes
      /\ \A c \in Clients : Completing(c, r) /\ txn[c].last =>
           \A s \in People(r) : View(c, r, s) \in Outcomes

LoadedBefore ==
    \A c \in Clients, r \in Runs \ late :
      txn[c].op \in {"complete", "cancel"} /\ txn[c].run = r => txn[c].status \notin RunFinal

VerdictInv == OverIsOver /\ LoadedBefore
=============================================================================
