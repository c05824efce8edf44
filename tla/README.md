# SynKoala in TLA+

SynKoala runs usability studies with synthetic participants. A researcher
uploads the screens of a product, a vision model finds their elements, an
audience of synthetic participants is sampled, and every participant walks
through the screens to do a task. The walks are aggregated into metrics,
validated against human benchmarks and turned into insights. The back end is
Python (FastAPI, SQLAlchemy, Postgres, LangGraph); a worker process takes all
slow work from a job queue in Postgres.

This directory holds TLA+ models of its core, TLC configurations that check
them, and proofs that TLAPS checks. Line numbers refer to `src/app`.

## Inventory

| Component | State | Operations | Interacts with | What makes it correct |
|---|---|---|---|---|
| Job queue (`workers/runner.py`, `workers/service.py`, `services/job_service.py`) | `jobs` rows, one worker loop each for up to 5 concurrent jobs | enqueue, claim with `FOR UPDATE SKIP LOCKED`, run, retry up to 3 attempts, give up, cancel pending | every handler; cancel of a run | a job has one owner, its work is committed once, FAILED means three recorded failures, settled rows are final, jobs settle |
| Run orchestrator (`usecases/simulations.py`, `services/simulation_run_service.py`, `workers/jobs/simulate_participant.py`) | `simulation_runs`, `participant_runs` | create run, finish a participant, finalize, permanent failure, cancel | queue, simulation engine, analysis chain, progress stream | a run is final exactly when its participants are, the verdict fits the outcomes, it is analyzed once, a cancel leaves nobody behind |
| Simulation engine (`agents/graphs/simulation_graph.py`, `agents/providers/participant_model.py`) | one participant's walk: screen, history, scans, progress, events | ten graph nodes and their conditional edges | called by the participant job | every walk ends, the event log can be replayed, COMPLETED is earned, a drop-off has the cause it names |
| Progress stream (`api/v1/simulations.py`, `db/listen.py`) | a listener connection and a queue | snapshot, LISTEN, forward, time out | orchestrator's NOTIFY | a viewer learns that the run ended, never too early, and the stream ends |
| Study lifecycle (`usecases/studies.py`, `services/study_service.py`) | `studies` | create, update, publish, delete | create run | one run at a time; what cannot be kept is confined to overlapping requests |
| Human runs (`usecases/journey_capture.py`, `core/auth.py`) | the run tables, source HUMAN | create run and session, record, complete | run orchestrator's cancel | a run ends when its last tester does, its size is not overcounted, a verdict is overturned only by who was there before it or let in after it |
| Stimulus analysis (`usecases/stimulus.py`, `workers/jobs/analyze_stimulus.py`, `services/stimulus_service.py`) | `screens`, `ui_elements`, `screen_transitions` | upload, request analysis, one job per stimulus, the last one infers the graph | vision model, queue, simulation engine | keys are told apart, elements saved once, the graph inferred from all screens and every edge of it usable |
| Figma import (`workers/jobs/import_figma_prototype.py`, `services/figma_import_service.py`) | the same tables | read the document, upsert screens, replace elements and transitions | Figma, queue | re-import works, transitions hang on live elements |
| Figma OAuth (`services/figma_oauth_service.py`, `usecases/auth.py`) | `figma_connections` | link, refresh, hand out a token | Figma import | a link is never undone, the token belongs to the account and lasts |
| Analysis chain (`aggregate_run`, `validate_run`, `generate_insights` jobs) | `metrics`, `segment_results`, `validation_results`, `insights` | read, delete and insert, enqueue the next link | queue, orchestrator | in the end one analysis, of all that is committed, and no insight without its evidence |
| Analytics, validation and insight engines | none (pure) | compute metrics, segments, facts, filters, strengths | analysis chain | the baseline is a lower bound of the way to a critical action, segments add up, citations are checked |
| Audience engine, tasks | rows | create, generate, edit | create run asks for them | - |
| Users and projects, storage, settings, results queries | rows and files | create, read | HTTP API | - |
| Web and mobile clients | user interface | call the HTTP API | HTTP API | - |

What is hard here: five loops, HTTP requests and a possibly killed process work
on the same rows in READ COMMITTED transactions; some handlers read a row
before they lock it; ORM sessions keep the first version of a row they loaded;
errors are caught, retried and sometimes swallowed; and the walk is a long
hand-written state machine with several budgets. `PROJECT.json` lists each of
these hazards at its line, with the properties that cover it.

## Modules

| Module | Stands for |
|---|---|
| `JobContract` | what the queue promises: an abstract specification without loops, locks or transactions |
| `JobQueue` | the queue itself; its property `ImplementsContract` is `JobContract`'s specification under a refinement mapping |
| `RunContract` | what a run promises whoever reads its committed rows |
| `RunLifecycle` | one synthetic run: participants' transactions against cancels; it implements `RunContract` |
| `RunProgress` | `RunLifecycle` composed with the event streams of its viewers |
| `SimulationGraph` | one participant's walk |
| `StudyRuns` | one study, its setup, the requests that start, cancel and complete its runs, and human runs |
| `StimulusPipeline` | uploads, analysis requests and the analysis and import jobs of a study |
| `ScreenGraphInference`, `FigmaDocument` | pure: from the vision model's answers, and from a Figma document, to a screen graph; used by `StimulusPipeline` |
| `FigmaTokens` | one user's Figma connection, with a clock |
| `AnalysisChain` | the three analysis jobs of a run over their tables |
| `AnalyticsEngine`, `EvidenceEngine` | pure: metrics and segments; facts, citations and strengths; used by `AnalysisChain` |
| `*MC` | symmetry sets and the small studies, documents and answers TLC uses |
| `*Proofs` | theorems about `JobQueue`, `RunLifecycle`, `RunProgress`, `SimulationGraph`, `StudyRuns`, `FigmaTokens`, `AnalysisChain` (with its engines) and `StimulusPipeline` |

### JobQueue

`status`, `attempts`, `created` are the columns of a `jobs` row, `lock` is its
row lock. A loop `w` is `pc[w]` and `cur[w]` (its local `job_id`). Transactions
that only read are one action; those that lock and then write are two, so that
others can come in between: `Select` and `Claim` are `_claim_one_job`,
`Raise` and `RecordFailure` the `except` branch of `_process_job`, `Finish` its
`else` branch. A handler's own writes are one unit, counted in `effects` when
they are committed. `Enqueue` and `CommitEnqueue` are apart because
`created_at` is the start of the inserting transaction, so a slow producer
commits jobs that are older than some already claimed. `BeginCancel`,
`CancelRow`, `CommitCancel` and `AbortCancel` are the UPDATE of
`cancel_pending`, which visits the rows it found one by one and re-reads each
under its lock, as Postgres does.

`hook` is what became of the type's `ON_PERMANENT_FAILURE` handler in the commit
that wrote FAILED: an error of it that leaves the transaction usable is
`swallowed`, and FAILED is committed with some or none of its writes
(`tests/test_runner_permanent_failure.py:110-130` asserts it). So
`FailureIsRecorded` does not say that it has written all it should.

Faults: `LoseJob` (an exception leaves `_process_job`, or the commit of a
transaction that an SQL error has aborted turns out to be a rollback), `ClaimFails` (an error while
claiming, which is outside the loop's `try`) and `Kill`. What `ClaimFails` does
depends on who started the loops, the constant `Hosted`: with `runner.py`'s own
`main` the process ends; under `service.py` the failed loop ends and the others
go on, unnoticed by `/health`.

### RunLifecycle, RunContract

`run` and `part[p]` are the committed rows, `runLock` and `partLock[p]` their
row locks, `runNew` and `partNew[p]` the uncommitted version of the lock's
holder, `outbox[p]` what a session has flushed besides (the `aggregate_run` job
and the notification). A session reads its own writes and otherwise what is
committed when its statement starts (`View`). `seen[p]` is the
`simulation_runs` object that session p loaded at the top of the handler: the
identity map never refreshes its `status`, and `lock_for_finalize` does not
either, unless a rollback has expired it, as happens before the
permanent-failure handler. This is why `Verdict` looks at `seen` and not at
`run`.

The steps of a worker are `Claim`, `LoadRun`, `WriteOutcome`,
`LockForFinalize`, `FinalizeIfComplete` and `CommitJob`; after an exception
`HandlerRaises`, then `Requeue`, or `GiveUp` and `WriteErrored` followed by the
same finalization. A cancel is `CheckCancel`, `MarkCancelling`,
`CancelPending`, one `AbandonPart` per row, `CommitCancel`. A worker locks its
participant row and then the run, a cancel the other way round:
`BreakDeadlock` makes either of them Postgres's victim. The queue appears only
as far as a run sees it: claiming and the retry bookkeeping are single steps,
as `JobQueue` and its theorems justify. Its permanent-failure handler ends well
or with a database error: the errors that `runner.py` swallows for good, a
`participant_runs` row that was deleted or a malformed payload, do not occur here.

`RunContract` has none of that: a participant settles, or a cancel abandons all
that are pending, and the step that settles the last one decides the run and
has it analyzed. `RunLifecycle` maps to it by forgetting everything but the
committed rows.

### RunProgress

It EXTENDS `RunLifecycle`. `at[s]` is where `event_stream` is, `read` the
status `get_progress` has read before it counts, `queue` the asyncio queue that
`_on_notify` fills when a worker's commit delivers its notification. A message
from before the LISTEN is lost; a cancel sends none; a stream gives up after
`MaxTicks`. `late` remembers that the run was final when the LISTEN took effect.

### SimulationGraph

One action per LangGraph node; the conditional edges are the choice of the next
node. Scores are not modelled: `_softmax_sample` gives every candidate a
positive weight, so any candidate may be drawn, and `Doubts` stands for the
values 0.6 minus the spread of the scores can take. Progress is in hundredths,
uncertainty and patience in tenths; the conditions on them were compared with
the float arithmetic of the code over the whole grid. The event list is kept as
`log`: its length, its last event's type, the screen of its last SCREEN_ENTER
and the number of gazes since. `supersteps` is what LangGraph counts against
`recursion_limit`. A screen of the graph that has no element leaves nothing to
gaze at. `Missing` are screens that only a transition names.

### StudyRuns

`txn[c]` is the request client c has in flight: which one, how far, and what it
has read. Requests that read, check and write in one go have two steps (open,
commit); where the code flushes before it reads again the flush is a step:
`PublishWrite` takes the lock of the study row before `CreateCheck` looks for an
active run, `CompleteWrite` writes a session's outcome before it counts the
others. `finalize_run` goes by the status the run object was loaded with
(`txn[c].status`), and an ORM attribute that is assigned its loaded value is
not written, hence `Verdict(c, r) # txn[c].status`. How the participants of a
synthetic run end it is `RunLifecycle`'s subject and one step here
(`SyntheticRunEnds`). `seen` on a run records which runs its request had seen;
`clashed` which human runs had two completions in flight at once, `late` which
of them got a session when they were over, or while the last of the others was
being completed. All three are history and guard nothing.

### StimulusPipeline, ScreenGraphInference, FigmaDocument

A job is one transaction: `txn[j]` holds what it has loaded and written,
invisible until its commit, but a changed row stays locked. An import upserts
the screens of its file one by one: `InsertScreen` for a node that has no row, and
otherwise `ClearElements`, where the DELETE of `save_figma_screen` starts and takes
its snapshot, and `ReplaceElements`, where it has waited for whoever deletes the same
rows, leaves what was inserted meanwhile, and the row of `screens` is written over,
or not, when nothing of it has changed: SQLAlchemy sends no UPDATE then, and nothing
locks the row. `ResolveHotspots` makes the new graph. The vision model is
any element of `Findings` (elements of a screen), `Classifications` (roles,
twins, summaries) and `Answers` (up to three answers about transitions), bad
answers included: the operators of `ScreenGraphInference` decide what becomes
of unknown keys, twins of twins, repeated and contradictory edges, and when the
inference is asked again. `FigmaDocument` reads a node tree: sections are
looked into, hidden nodes are not, a hotspot may be in a group or lead to a node
inside another frame. `screens` is a function on the ids in use. History
variables name the overlaps the code does not exclude, and the properties say
that nothing goes wrong without them: `missed` (a job looked at the screens
while another had an analysis of one uncommitted), `doubled` (two jobs had
loaded a screen without elements, or an import began to delete the elements of one
while another had replaced them and not committed), `loose` (two jobs replaced the graph without
a role to write in common), `overtaken` (a graph replaced one of more screens)
and `seen` of a screen (what its upload knew). `covered` is the set of screens
the graph in place was inferred from.

### FigmaTokens

`row` is the connection, with its columns `refresh`, `access` and `expires_at`;
only assigned columns are written. Time is a clock; an answer of Figma may be
under way for `Delay` (httpx's timeout), `expires_at` is reckoned when it
arrives. An import keeps the row it has refreshed locked until its end.

### AnalysisChain, AnalyticsEngine, EvidenceEngine

`AnalysisChain` has one chain per participant whose commit finalized the run:
one for a run that ended by itself, and, as `RunResurrected` shows, one for each
participant that was being simulated when the run was cancelled. A job reads,
computes, deletes what it had found and inserts; the foreign key from insights
to the rows they cite makes a DELETE fail. The computations are the operators
of the two engines: rates are fractions, a log is a sequence of observations,
the baseline the shortest path through the screen graph (`Within[n]` is what the
search has found after n rounds). What the language model drafts is any choice
of citations. Participants end with one of the `Walks` over that graph: the turns
of `SimulationGraph` (`Turn`: a look and, on a screen with a critical element
only when the look was at it, an action), kept with the observations that the
metrics read. A walk ends as `check_task` says (`Checked`): completed by the
success condition if there is one and else by all critical actions, abandoned
when out of moves, scans or (after five steps) patience, failed on a screen with
nothing to do; a screen that is not there makes the job fail, and nothing is
observed (`Crashed`). Left to `SimulationGraph` are uncertainty, which decides
about patience, and the limit of three backtracks.

## Runs

| Run | Bounds | Shows |
|---|---|---|
| `JobQueueFaults` | 3 jobs, 2 loops, 1 cancel, 2 attempts, 2 faults | the safety of the queue, the inductive invariant, and that it implements `JobContract` |
| `JobQueueLive` | 2 jobs, 2 loops, 1 cancel, 2 attempts, 2 faults, `Hosted` | jobs settle unless their own attempt was lost or no loop is left |
| `RunSafe` | 3 participants, 3 loops, 2 cancels, 2 attempts, 1 lost session or request | finalization, jobs, analysis and cancels agree; the inductive invariant; the refinement of `RunContract` |
| `RunProgress` | 2 participants, 2 loops, 1 cancel, 2 attempts, 1 fault, 1 stream of 2 ticks | what a viewer is told, that streams end, and that only a lost job keeps a run from ending |
| `RunResurrected` | 2 participants, 1 cancel, nothing lost | violated: see the findings |
| `SimGated` | 4 screens, 7 steps, 3 scans per visit | the safety of a walk with a gated screen and a success condition, and the inductive invariant |
| `SimExplore` | 2 screens, one bare, one missing, 10 steps, 2 scans | every walk ends; impatience, dead ends and a KeyError happen |
| `StudyRunsSafe` | 2 clients, 2 runs, 2 sessions, 2 tasks, 2 people, 5 requests | publishes are serialised; each thing that can go wrong needs the overlap that causes it |
| `StimulusSafe` | 2 clients, 3 screens, 3 jobs, 1 attempt, 2 Figma files | keys, elements and edges stay consistent but for named overlaps |
| `StimulusWholeGraph` | 1 client, 3 screens, 3 jobs, a careful model | violated: see the findings |
| `FigmaTokensSafe` | 2 imports, 2 links, lifetime 3, buffer 2, delay 1, time to 6, 2 tries | a link is kept, the token is of the account and lasts |
| `AnalysisSafe` | 2 participants, 3 screens, 2 attempts, 2 moves each, 1 scan, a success condition | one current analysis, no insight without evidence, the arithmetic of baseline and segments |

Why these bounds are enough to be interesting. Two loops are enough for a race
over a row and three jobs for one job to be retried, one cancelled and one
finished at once; with two attempts there is a first that is retried and a last
that is not. Races between participants are between the last two, and a third
one makes the difference between "my sibling" and "everybody"; two cancels can
overlap each other. `SimGated` has room for going back and forth, for all three
scans on two visits, and for a dead end and success in one walk; its seven steps
allow to be impatient, which needs more than five. `SimExplore` has ten steps
because uncertainty starts at 0.3 and needs several steps on the bare screen
before patience ends. Five requests let two clients publish, start, cancel and
complete against each other, with a run before; two runs and two sessions are
what a clash takes. Three screens are the fewest on which a twin, a severed flow
and a contradiction can meet, and three jobs are two analyses of one screenshot
and an import, one analysis and two imports of a file that has lost a frame in
between or not, three imports, or one analysis per screenshot. A lifetime of 3 with a buffer of
2 lets a token be fresh, due and expired within the time bound, twice. Two
participants fill both halves of a segment, one on the threshold, and the trait
split and the chains need no third; their walks are four: to the critical
element, scans that miss it, a way back, and a success below the baseline. All bounds are constants: `MaxFaults`,
`MaxRequests`, `MaxScreens`, `MaxJobs`, `MaxTime`, `MaxMoves` and the sets bound
the instance; `MaxAttempts`, `NumWorkers`, `MaxSteps`, `MaxScans`, `MaxTicks`,
`Buffer` and `Delay` are the code's own limits, made small.

CHECK_DEADLOCK is off throughout: a queue whose producers are silent, a run
that has ended, a walk that is over and a study nobody asks anything of really
stop. Symmetry (loops, participants, clients, imports) is used in runs without
liveness properties only.

## Fairness

`JobQueue`: weak fairness of each loop's own steps (the loops poll for ever, and
a transaction that can go on does), of each cancel once it has begun, of the
commit of an enqueueing transaction, and of the restart of a dead process by its
platform. Nothing obliges a client to enqueue or cancel, a handler to fail, or a
fault to happen. `RunLifecycle` and `RunProgress`: the same for claims, worker
and cancel steps; Postgres breaks every deadlock; and a stream's steps, of which
the timeout of `queue.get` is one, so that it goes on when nothing is sent.
`SimulationGraph`: `ainvoke` runs the graph until it ends. Strong fairness is
never needed: `SKIP LOCKED` never waits, and the locks of `RunLifecycle` are
released by transactions that end. `StudyRuns`, `StimulusPipeline`,
`FigmaTokens` and `AnalysisChain` state safety only.

## What is proved

Each module of proofs holds for every value of the constants and has the
assumption of its module as its only one. An invariant is proved by one lemma
per action, and in it one step per part of the invariant the action can disturb.

`JobQueueProofs`, for any jobs, loops, cancels, attempts and faults:

- `QueueInvariant`: `QueueInv` holds in every reachable state. It is inductive:
  `OneOwner` alone is not, because what keeps a second loop off a row is that
  the first one holds its lock while claiming (`LoopsHoldTheirRows`), and that
  no lock is left behind (`LocksHaveHolders`); and the bound on starts follows
  from what each start became (`StartsAreAccounted`).
- `OneOwnerAlways`, `ExactlyOnceAlways`, `BoundedStartsAlways` and
  `FailureIsRecordedAlways` follow from it.
- `SettledRowsAreFinal`: an action property, from the invariant and the step.
- `QueueImplementsContract`: the initial states map to initial states of
  `JobContract`, and every step, with the invariant, to a step or a stutter.

`RunLifecycleProofs`, for any participants, cancels, loops, attempts and faults:

- `RunInvariant`: `RunInv`. What makes it inductive are the row locks: the lock
  of the run is p's exactly while p is between `lock_for_finalize` and its end,
  and a cancel's exactly while it is marked or abandoning (`RunLockHeld`).
  Whoever holds it is the only one who can commit, so what it sees of the
  participants is what they are after its commit, and the verdict it has written
  (`VerdictHolds`) and the sweep of a cancel (`CancelSweeps`) stay true.
- `FinalIffAllTerminalAlways`, `JobAndParticipantAlwaysAgree` and
  `AnalysisAlwaysFollowsVerdict` follow from it.
- `RunImplementsContract`: the commits of workers and cancels map to steps of
  `RunContract`, everything else to a stutter.

`RunProgressProofs`, on top of `RunInvariant`, for any streams and ticks as well:

- `StreamInvariant`: `StreamInv`. A notification is counted before its commit;
  whoever waits for that commit holds the lock of the run, so the count still
  fits when the commit delivers it (`NotesFit`). Hence counts ascend from what
  was shown through the queue to the rows (`CountsAscend`), and an event that
  says the run has ended is true (`VerdictsAreTrue`).
- `CompletedAlwaysMeansAll`, `AlwaysAnnouncedInTime` and, with the step,
  `CountsNeverGoBack` follow from it.

`SimulationGraphProofs`, for any study, traits, `MaxSteps` and `MaxScans`, with
fewer than a hundred critical actions and no element on two screens:

- `WalkInvariant`: `WalkInv` holds in every reachable state. The properties are
  not inductive: what `execute_action` may do depends on what the gate let
  through (`GateHolds`), which screen and step the last `check_task` left
  (`ScreenIsKnown`), and on progress being that of the acted elements when it is
  judged (`ProgressIsCurrent`). Lemmas about the
  operators (the first critical element is on its screen, shares of critical
  actions grow, what a prefix of the trail is) come before them.
- `RecursionLimitSuffices`: by `StepsAreCounted`, an action costs at most
  `PerStep = 6 + MaxScans` supersteps, so a walk takes at most
  `MaxSteps * PerStep + 1` of the `MaxSteps * (8 + MaxScans) + 20` it is given.
- `CompletionIsAlwaysEarned`, `GateIsNeverPassed`, `TrailIsAlwaysWalkable`,
  `LogFollowsStateAlways`, `ScansAreAlwaysPerScreen` and
  `PatienceLastsOnShownScreens` follow from the invariant, and
  `ProgressIsMonotone` from it and the step.

`StudyRunsProofs`, for any clients, runs, sessions, tasks and requests:

- `StudyInvariant`: `StudyInv`. One publish at a time is between its flush of
  the study row and its commit (`OnePublisher`), and the runs it has found over
  stay over (`PublishedAreOver`), because no run is ever RUNNING again
  (`SeenAreOver`). Until two completions clash, a completion that has not found
  itself to be the last has another open session beside it (`Unclashed`).
- `PublishesAlwaysSerialised`, `OnlyOverlapEverStartsTwo`,
  `SizeNeverEverOvercounts` and `OnlyAClashEverStrandsARun` follow from it, and
  `VerdictIsAlwaysKept` (an action property) from it and `VerdictInv`, also
  inductive: a run that is over has no open session, and whoever has found itself
  to be the last leaves none (`OverIsOver`), as long as no session is `late`; so
  no token of such a run is accepted any more, and who still completes a session
  of it had loaded the run before (`LoadedBefore`).

`FigmaTokensProofs`, for any imports, links, lifetimes, buffers and delays:

- `TokensInvariant`: the row is locked by who has written it, a token in hand
  is of the refresh token it was got for, `expires_at` is late by `Delay` at
  most, and without an overlap everything is of one account.
- `LinkIsAlwaysKept`, `OldAccountOnlyEverByOverlap`, `TokenAlwaysLasts`.

`AnalysisChainProofs`, for any participants, traits, screens, transitions,
siblings, benchmarks, drafts, attempts and moves:

- `ChainSafe`: `ChainInv`. `QuietMeansCurrent` speaks of the end only; the
  invariant says on the way who aggregated last and who validated last, that the
  tables hold what the former computed, of everybody but those whose
  `aggregate_run` is still to come, and that the later jobs of its chain have
  read its rows (`OneAnalysis`). `EvidenceKept` holds whatever overlaps: a DELETE
  of metrics waits for insights that are about to cite them.
- `EvidenceSafe` (`AnalysisInv`) and `CurrentSafe` (`QuietMeansCurrent`) follow.
- `SegmentsSafe` (`SegmentsAddUp`): by `RowsWhole`, also inductive, the rows of a
  chain come and go as a whole, whatever overlaps. The rest is arithmetic over
  arbitrary sets of participants: the low and the high half of a trait divide
  them, so their completions and sizes add up to those of the metric.
- `BaselineSafe` (`NobodyBeatsTheBaseline`): by induction over the turns of a
  walk, its screen and its trail are within some number k of transitions, and its
  log has k interactions and k + 1 SCREEN_ENTERs at least (`Fits`; BACK leaves k
  as it is); the search has closed after as many rounds as there are screens
  (`WithinCloses`). So whoever uses a critical element has what the baseline
  takes. A walk completed below it has met a success condition (`Earned`).

`StimulusPipelineProofs`, for any clients, uploads, jobs, attempts, findings,
answers and Figma files:

- `ReadingSafe` (`StimulusInv`), `KeysSafe` (`KeysClashOnlyByOverlap`): from
  `RowsSafe`, which says what every row is: typed, its id one transaction's own,
  its key none of those the upload saw, its elements those of one reading. It is
  inductive together with `ReplacedOnce`: the import that replaces the elements of a
  screen that is not `doubled` is alone with them, so its DELETE sees all there are.
- `EdgesFire` (`EveryEdgeCanFire`): from `FireInv`. A DELETE of elements finds
  no transition on them, neither stored nor being inserted, and no trigger is
  deleted under an INSERT: the foreign key and the locks of the deleted elements
  together, for only elements of jobs that are done are deleted (`RowsFinished`). It rests
  on lemmas about what the engines hand over: an inferred edge's trigger is an
  element of its own screen, and a document's transitions start at its nodes.
- `OneDestinationSafe` (`OneDestination`): from `MapInv`. The rows that
  `save_screen_roles` has changed stay locked to the end of the transaction, so
  whoever has changed one is alone with the graph; `loose` is when that fails.
- `SomebodyAlwaysInfers` (`SomebodyInfers`): from `InferInv`. While a job's own
  analysis is uncommitted, every screen it leaves to others, or does not cover,
  is unread and nobody who has looked is about to commit it (`LeftToOthers`): such
  a job would have "missed" this one. So the last screen to become read is that
  of a job that covers them all, or somebody is still to look (`SomebodyWill`).

Assumptions. All but these are types: attempts, moves and lifetimes are
positive; `None` is no key, screen or number, and a Figma node id is no slug.
A participant has traits, and integer ones (`ChainAssumption`; the threshold is
in the same unit), since participants are sampled from an audience; the critical
elements are those that match an expected critical action (`ElementAssumption`). What is
parsed of a Figma file are lists of nodes (`DocumentAssumption`); TLC evaluates
it on the documents of the runs.

Only model-checked: liveness (`JobsSettleWhileALoopLives`, `StreamsEnd`,
`EndsUnlessJobLost`, `Terminates`), since fairness and ENABLED are beyond the
prover. Of `Terminates` the bound on a walk's steps is proved
(`RecursionLimitSuffices`).
There are no RECURSIVE operators. The library's induction theorems cannot be
used, since they take an operator as a parameter; where a function is defined by
recursion over numbers (`Walks`, `Within`, the number of a new key) the proofs
use the least member of the set of counterexamples instead (`LeastOfSet`,
`LeastMember`, `Induction`), and the only sums evaluated are those over the two
halves of a trait. Inductive invariants that no run lists (`StudyInv`, `StreamInv`, `VerdictInv`, that
of the Figma tokens, `ChainInv`, `RowsWhole`, `RowsSafe`, `ReplacedOnce`, `FireInv`,
`MapInv`, `InferInv`) were checked by TLC on the instances of the runs before they were
proved, `InferInv` also with five jobs.

## Findings

`PROJECT.json` quotes the text each of these disagrees with.

- `RunResurrected`: a worker with a stale run object turns CANCELLED into
  COMPLETED, and starts an analysis.
- `StimulusWholeGraph`: the job that infers the graph lists its own screen
  without the elements it has just saved, so transitions leaving it are dropped.

## Known deviations

What the models allow because the code does, and the properties carve out:

- A job whose worker dies, or whose bookkeeping is lost, stays RUNNING
  (`locked_at` is written and never read): `JobsSettleWhileALoopLives`,
  `EndsUnlessJobLost`.
- An error in `_claim_one_job` escapes `gather()`; under `service.py` the loop
  is gone and `/health` does not notice.
- A deadlock with a cancel can undo the permanent-failure bookkeeping. A handler
  that raises something else than a database error is swallowed: the job is
  FAILED without all, or any, of its bookkeeping (`hook` of `JobQueue`).
- A cancel that has checked the status early overwrites the outcome of a run
  that has just completed.
- Nothing sets IN_PROGRESS for a synthetic participant, so a cancel abandons
  the ones being simulated too, and a retry may write over ABANDONED.
- Scans add up over actions on one screen, so a participant can be dropped for
  not finding what it has already used; `check_task` reads a missing screen
  before `perceive` can end the walk, which is a KeyError ("crashed").
- Two requests that overlap can start two runs; two testers who complete at
  once can leave their run RUNNING; two sessions at once count as one.
- A session added after its run was COMPLETED, FAILED or CANCELLED finalizes it
  again when it ends, and two requests that have loaded a run before its verdict
  may both decide it: `late` and the last clause of `VerdictIsKept`.
- A human run without sessions stays CANCELLING.
- Two uploads at once can choose one `screen_key`; two analyses of one screen
  can save its elements twice, and so can two imports of one prototype: the DELETE
  of neither sees what the other inserts; two jobs at once can leave the inference to each
  other, or one trigger with two destinations.
- A job that has inferred over two screens, while a third was uploaded and a
  newer job inferred over all three, replaces the newer graph if it is the last
  to commit: `overtaken`.
- An import and an inference replace each other's graph. A re-import fails by
  foreign key when a linked screen's elements are replaced under it.
- A link in the middle of a refresh leaves the old account's access token with
  the new account's refresh token. A refreshed row is locked during the import.
- The baseline leads to a critical action also when the task has a success
  condition, which may need none: a participant can complete it below the
  baseline, and the excess is negative (`NobodyBeatsTheBaseline` says when).
- An import takes the screens of its file in any order and not that of the file, which
  allows more. The end of its DELETE, the UPDATE and the INSERTs are one step: who
  comes in between and needs the elements that the DELETE has locked waits, or is in
  a deadlock, which fails a job (`HandlerRaises`). An UPDATE that changes a frame's size and not its name is left out:
  `analysis` is not written then.
- `aggregate_run` reads the screen graph as it is then; `AnalysisChain` takes it to
  be the one that was walked through, which an import in between would change.
- Only human sessions have a `started_at`: a synthetic run has no task time.
- A second `aggregate_run` of a run whose insights cite its metrics fails by
  foreign key (a chain that a late worker started after a cancel).

## Not modelled

The content of a walk's decisions (scores, positions, durations), text, floats
beyond the thresholds, correlations and divergences, the seeded sampling of
personas and the prior retrieval; observations, voice notes and the expiry of
capture tokens; Figma's HTTP retries, images and guessed roles; encryption,
OAuth state and sign-in; the results queries, heatmap and report, which only
read; users, projects, storage and settings, which are plain rows and I/O; the
clients; the schema history, of which the foreign keys and unique constraints
are used.

## Plan

1. Liveness of `StudyRuns`: a human run without a clash ends.
2. An abstract specification of the analysis tables (nothing, or one analysis of
   a set of participants) that `AnalysisChain` implements while no two jobs of a
   kind overlap, with `OneAnalysis` as its mapping.
