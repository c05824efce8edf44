---------------------------- MODULE AnalysisChain ----------------------------
(***************************************************************************)
(* The analysis of one synthetic run: the chains aggregate_run ->          *)
(* validate_run -> generate_insights (workers/jobs/), which read and       *)
(* replace each other's rows.  Every participant whose commit finalizes    *)
(* the run starts a chain: the last one of a run that ends by itself, and  *)
(* each one that was being simulated when the run was cancelled, since it  *)
(* finalizes from the status it loaded before (RunLifecycle).              *)
(*                                                                         *)
(* A chain has one job at a time and shares the name of its participant.   *)
(* A job is a READ COMMITTED transaction: what it has read, and which rows *)
(* its DELETE has found, is in view[p]; the rows it inserts are seen by    *)
(* its commit.  Which PENDING job a loop takes is any one (JobContract).   *)
(* A foreign key keeps a cited row: deleting it fails.                     *)
(***************************************************************************)
EXTENDS EvidenceEngine

CONSTANTS
    People, Traits,   \* the participants and their traits
    MaxAttempts,      \* MAX_ATTEMPTS
    Siblings,         \* completed runs of the study and task, the latest first
    Present,          \* bound: which of them may be aggregated, and 0 for the
                      \* benchmark, when validate_run looks
    Model,            \* this run's participant_model
    Benchmark, Relationships,   \* a human benchmark
    Expected, Marks,  \* expected_critical_actions, and those each element matches
    HasSuccess, SuccessScreens, SuccessElements,   \* a success condition and what meets it
    Interactable, Kind,   \* interactable elements; an element's default_action_for
    MaxMoves, MaxScans,   \* max_steps and max_scan_attempts
    Noticed,          \* bound: elements that are looked at
    Plain,            \* bound: which of SCROLL and BACK are done
    Citable           \* bound: metrics the language model cites

ASSUME ChainAssumption ==
    /\ IsFiniteSet(People) /\ IsFiniteSet(Screens) /\ None \notin Screens
    /\ MaxAttempts \in Nat \ {0} /\ MaxMoves \in Nat \ {0} /\ MaxScans \in Nat \ {0}
    /\ \A t \in Leads : t.from \in Screens /\ t.trigger \in On[t.from]
    /\ \A p \in People : /\ DOMAIN Traits[p] # {}   \* they are sampled from an audience
                         /\ \A t \in DOMAIN Traits[p] : Traits[p][t] \in Int

ASSUME ElementAssumption ==
    \A s \in Screens : \A e \in On[s] :
      /\ Kind[e] \in {"CLICK", "TYPE", "SELECT"}
      /\ Marks[e] \subseteq Expected
      /\ e \in Critical <=> Marks[e] # {}

VARIABLES
    outcome,    \* what each participant ends with
    ended,      \* whose outcome is committed; the others are ABANDONED so far
    stage, job, tries, step, view,           \* each chain: its job and its transaction
    metrics, segments, validation, insights, \* the tables: rows with the chain they are by
    overlapped  \* history: two jobs of a kind ran at once

tables == <<metrics, segments, validation, insights>>
jobs   == <<stage, job, tries>>
vars   == <<outcome, ended, stage, job, tries, step, view,
            metrics, segments, validation, insights, overlapped>>

NoView == [runs |-> {}, logs |-> {}, metrics |-> {}, segments |-> {}, facts |-> {},
           drafts |-> {}, victims |-> {}]

-----------------------------------------------------------------------------
(* What the participants leave behind: the walks of SimulationGraph, with the *)
(* observations that the metrics read.                                        *)

Event(type, screen, element) ==
    [type |-> type, screen |-> screen, element |-> element,
     dwell |-> IF type = "GAZE" THEN 1 ELSE 0]

Look(w, e) == [w EXCEPT !.log = @ \o <<Event("GAZE", w.at, e)>>]

\* The element of a screen that the scans are for: the first critical one.
Intended(s) == CHOOSE e \in On[s] \cap Critical : TRUE

Acted(r) == {r.log[i].element : i \in Steps(r, Interactions)} \ {None}
Taken(r) == Cardinality(Steps(r, Interactions))

\* A success condition is the only finish line if there is one; otherwise all
\* critical actions are.
Succeeded(w) ==
    IF HasSuccess THEN w.at \in SuccessScreens \/ Acted(w) \cap SuccessElements # {}
    ELSE Expected # {} /\ UNION {Marks[e] : e \in Acted(w)} = Expected

\* The job has failed for good: its screen is not there.
Crashed == [at |-> None, trail |-> <<>>, scans |-> 0, status |-> "FAILED", log |-> <<>>]

\* check_task; who has taken more than five steps may run out of patience.
Checked(w) ==
    IF Succeeded(w) THEN {[w EXCEPT !.status = "COMPLETED"]}
    ELSE IF Taken(w) >= MaxMoves THEN {[w EXCEPT !.status = "ABANDONED"]}
    ELSE IF w.at \notin Screens THEN {Crashed}
    ELSE IF On[w.at] \cap Interactable = {} /\ w.trail = <<>> THEN {[w EXCEPT !.status = "FAILED"]}
    ELSE {[w EXCEPT !.status = s] : s \in {"IN_PROGRESS"} \cup
                                         IF Taken(w) > 5 THEN {"ABANDONED"} ELSE {}}

Move(w, type, e, screen, trail) ==
    Checked([at |-> screen, trail |-> trail, status |-> w.status,
             scans |-> IF screen = w.at THEN w.scans ELSE 0,
             log |-> w.log \o <<Event(type, w.at, e)>> \o
               IF screen = w.at THEN <<>>
               ELSE <<Event("SCREEN_EXIT", w.at, None), Event("SCREEN_ENTER", screen, None)>>])

\* Clicking and selecting take a transition, if there is one; typing does not.
Use(w, e) ==
    LET to == {t.to : t \in {u \in Leads : u.from = w.at /\ u.trigger = e /\ Kind[e] # "TYPE"}}
    IN  IF to = {} THEN Move(w, Kind[e], e, w.at, w.trail)
        ELSE UNION {Move(w, Kind[e], e, s, Append(w.trail, w.at)) : s \in to}

Back(w) ==
    IF Taken(w) = 0 THEN {}
    ELSE IF w.trail = <<>> THEN Move(w, "BACK", None, w.at, <<>>)
    ELSE Move(w, "BACK", None, w.trail[Len(w.trail)], SubSeq(w.trail, 1, Len(w.trail) - 1))

\* Any interactable element, whichever was looked at, scrolling, or going back.
Browse(w) ==
    (UNION {Use(w, e) : e \in On[w.at] \cap Interactable})
      \cup (IF "SCROLL" \in Plain THEN Move(w, "SCROLL", None, w.at, w.trail) ELSE {})
      \cup (IF "BACK" \in Plain THEN Back(w) ELSE {})

\* A look at the intended element is followed by its use; MaxScans others end it.
Scan(w, e) ==
    LET seen == [Look(w, e) EXCEPT !.scans = @ + 1]
    IN  IF e = Intended(w.at) THEN Use(seen, e)
        ELSE {[seen EXCEPT !.status = IF seen.scans >= MaxScans THEN "ABANDONED" ELSE @]}

\* What a walk can be after one look around.
Turn(w) ==
    IF w.status # "IN_PROGRESS" THEN {}
    ELSE IF On[w.at] = {} THEN Browse(w)
    ELSE IF On[w.at] \cap Critical = {} THEN UNION {Browse(Look(w, e)) : e \in On[w.at] \cap Noticed}
    ELSE UNION {Scan(w, e) : e \in On[w.at] \cap Noticed}

FirstWalk ==
    IF Start \notin Screens THEN Crashed
    ELSE [at |-> Start, trail |-> <<>>, scans |-> 0, status |-> "IN_PROGRESS",
          log |-> <<Event("SCREEN_ENTER", Start, None)>>]

\* Before each of at most MaxMoves actions there are at most MaxScans looks.
Turns == MaxMoves * MaxScans

Walks[n \in 0..Turns] ==
    IF n = 0 THEN {FirstWalk}
    ELSE LET shorter == Walks[n - 1] IN shorter \cup UNION {Turn(w) : w \in shorter}

Outcomes ==
    {[status |-> w.status, log |-> w.log] : w \in {v \in Walks[Turns] : v.status # "IN_PROGRESS"}}

\* The rows of the participants of "runs", with the observations of "logs".  A
\* synthetic participant has no started_at, and so no time.
Data(runs, logs) ==
    [p \in People |->
       [status |-> IF p \in runs THEN outcome[p].status ELSE "ABANDONED",
        time   |-> None,
        traits |-> Traits[p],
        log    |-> IF p \in logs THEN outcome[p].log ELSE <<>>]]

TypeOK ==
    /\ ended \subseteq People
    /\ stage \in [People -> {"none", "aggregate", "validate", "insights", "done"}]
    /\ job \in [People -> {"none", "PENDING", "RUNNING", "DONE", "FAILED"}]
    /\ tries \in [People -> 0..MaxAttempts]
    /\ step \in [People -> {"idle", "begun", "half", "read", "written"}]
    /\ DOMAIN view = People /\ \A p \in People : DOMAIN view[p] = DOMAIN NoView
    /\ \A x \in metrics \cup segments \cup validation \cup insights : x.by \in People
    /\ overlapped \in BOOLEAN

Init ==
    /\ outcome \in [People -> Outcomes]
    /\ ended \in (SUBSET People) \ {People}
    /\ stage = [p \in People |-> "none"]
    /\ job = [p \in People |-> "none"]
    /\ tries = [p \in People |-> 0]
    /\ step = [p \in People |-> "idle"]
    /\ view = [p \in People |-> NoView]
    /\ metrics = {} /\ segments = {} /\ validation = {} /\ insights = {}
    /\ overlapped = FALSE

-----------------------------------------------------------------------------
(* Jobs. *)

At(p, kind, place) == stage[p] = kind /\ job[p] = "RUNNING" /\ step[p] = place
Goto(p, place, seen) ==
    /\ step' = [step EXCEPT ![p] = place]
    /\ view' = [view EXCEPT ![p] = seen]

\* The participant's outcome, the run's status and aggregate_run are one commit.
Finalize(p) ==
    /\ p \notin ended
    /\ ended' = ended \cup {p}
    /\ stage' = [stage EXCEPT ![p] = "aggregate"]
    /\ job' = [job EXCEPT ![p] = "PENDING"]
    /\ UNCHANGED <<outcome, tries, step, view, tables, overlapped>>

Claim(p) ==
    /\ job[p] = "PENDING"
    /\ job' = [job EXCEPT ![p] = "RUNNING"]
    /\ Goto(p, "begun", NoView)
    /\ overlapped' = (overlapped \/ \E q \in People \ {p} : stage[q] = stage[p] /\ job[q] = "RUNNING")
    /\ UNCHANGED <<outcome, ended, stage, tries, tables>>

\* Any statement, or the language model, fails.
HandlerRaises(p) ==
    /\ job[p] = "RUNNING"
    /\ tries' = [tries EXCEPT ![p] = @ + 1]
    /\ job' = [job EXCEPT ![p] = IF tries[p] + 1 < MaxAttempts THEN "PENDING" ELSE "FAILED"]
    /\ Goto(p, "idle", NoView)
    /\ UNCHANGED <<outcome, ended, stage, tables, overlapped>>

\* The job is DONE and its successor enqueued with its rows.
Follow(p, kind) ==
    /\ stage' = [stage EXCEPT ![p] = kind]
    /\ job' = [job EXCEPT ![p] = IF kind = "done" THEN "DONE" ELSE "PENDING"]
    /\ tries' = [tries EXCEPT ![p] = 0]
    /\ Goto(p, "idle", NoView)

-----------------------------------------------------------------------------
(* aggregate_run *)

\* list_participant_runs, then list_all_observations.
ReadRuns(p) ==
    /\ At(p, "aggregate", "begun")
    /\ Goto(p, "half", [NoView EXCEPT !.runs = ended])
    /\ UNCHANGED <<outcome, ended, jobs, tables, overlapped>>

ReadObservations(p) ==
    /\ At(p, "aggregate", "half")
    /\ Goto(p, "read", [view[p] EXCEPT !.logs = ended])
    /\ UNCHANGED <<outcome, ended, jobs, tables, overlapped>>

Links(S) == UNION {x.links : x \in S}

\* Committed insight_evidence rows that name a row of S.
References(S) == Links(insights) \cap S # {}

\* Mutant: the new rows are added to those of an earlier job.
DeleteMetricsNot(p) ==
    /\ At(p, "aggregate", "read")
    /\ Goto(p, "written", view[p])
    /\ UNCHANGED <<outcome, ended, jobs, tables, overlapped>>

\* The DELETEs find the committed rows.  Evidence inserted and not committed
\* makes them wait, committed evidence makes them fail.
DeleteMetrics(p) ==
    /\ At(p, "aggregate", "read")
    /\ ~ References(metrics \cup segments)
    /\ \A q \in People : At(q, "insights", "written")
         => Links(view[q].drafts) \cap (metrics \cup segments) = {}
    /\ Goto(p, "written", [view[p] EXCEPT !.victims = metrics \cup segments])
    /\ UNCHANGED <<outcome, ended, jobs, tables, overlapped>>

CommitMetrics(p) ==
    LET data == Data(view[p].runs, view[p].logs)
    IN  /\ At(p, "aggregate", "written")
        /\ metrics' = (metrics \ view[p].victims) \cup
                      {[by |-> p, row |-> x] : x \in ComputeMetrics(data)}
        /\ segments' = (segments \ view[p].victims) \cup
                       {[by |-> p, row |-> x] : x \in ComputeSegments(data)}
        /\ Follow(p, "validate")
        /\ UNCHANGED <<outcome, ended, validation, insights, overlapped>>

-----------------------------------------------------------------------------
(* validate_run *)

\* What is validated.
Found == {x.fact : x \in validation}

\* validate_run and generate_insights read metrics and segment_results in turn,
\* the latter validation_results too.
ReadMetrics(p) ==
    /\ At(p, "validate", "begun") \/ At(p, "insights", "begun")
    /\ Goto(p, "half", [NoView EXCEPT !.metrics = metrics])
    /\ UNCHANGED <<outcome, ended, jobs, tables, overlapped>>

ReadSegments(p) ==
    /\ At(p, "validate", "half") \/ At(p, "insights", "half")
    /\ Goto(p, "read", [view[p] EXCEPT !.segments = segments, !.facts = Found])
    /\ UNCHANGED <<outcome, ended, jobs, tables, overlapped>>

NoSummary == [completion |-> None, size |-> None, clicks |-> <<>>, attention |-> <<>>]

\* The latest completed run of a baseline model is compared with, aggregated or not.
BaselineFacts(own, known) ==
    UNION {LET runs == {i \in DOMAIN Siblings : Siblings[i].model = type}
           IN  IF type = Model \/ runs = {} THEN {}
               ELSE CompareRuns(type, own, IF Min(runs) \in known THEN Siblings[Min(runs)].summary
                                           ELSE NoSummary) :
           type \in {"random", "saliency_only", "task_only"}}

StabilityFacts(own, known) ==
    LET repeats == SelectSeq([i \in DOMAIN Siblings |-> i],
                             LAMBDA i : Siblings[i].model = Model /\ i \in known)
        rates == [i \in DOMAIN repeats |-> Siblings[repeats[i]].summary.completion]
    IN  StabilityCv(IF own.completion = None THEN rates ELSE <<own.completion>> \o rates)

Facts(rows, halves, known) ==
    LET own == Summary(rows)
    IN  BaselineFacts(own, known) \cup StabilityFacts(own, known) \cup
        IF 0 \in known
        THEN CompareRuns("human_benchmark", own, Benchmark)
               \cup DirectionalAgreement(Relationships, halves)
        ELSE {}

DeleteValidation(p) ==
    /\ At(p, "validate", "read")
    /\ \E known \in Present :
         Goto(p, "written", [view[p] EXCEPT
                               !.victims = validation,
                               !.facts = Facts(view[p].metrics, view[p].segments, known)])
    /\ UNCHANGED <<outcome, ended, jobs, tables, overlapped>>

CommitValidation(p) ==
    /\ At(p, "validate", "written")
    /\ validation' = (validation \ view[p].victims) \cup
                     {[by |-> p, fact |-> f] : f \in view[p].facts}
    /\ Follow(p, "insights")
    /\ UNCHANGED <<outcome, ended, metrics, segments, insights, overlapped>>

-----------------------------------------------------------------------------
(* generate_insights *)

\* What the language model may say about the rows it is shown: nothing, or a
\* citation with the row's value, another value, or both; and a segment nobody has.
Citation(x, value) ==
    IF "segment" \in DOMAIN x
    THEN [segment |-> x.segment, metric |-> x.metric, element |-> None, screen |-> None,
          value |-> value]
    ELSE [segment |-> None, metric |-> x.metric, element |-> x.element, screen |-> x.screen,
          value |-> value]

Drafts(rows) ==
    UNION {{[evidence |-> {Citation(x.row, v) : v \in values}, affected |-> names] :
              values \in (SUBSET {x.row.value, Share(-1, 7)}) \ {{}},
              names \in {{}, {<<"nobody", "low">>}}} :
            x \in {y \in rows : y.row.metric \in Citable}}

\* What the accepted draft links to; nothing when none is made or accepted.
Accepted(rows, halves) ==
    {{}} \cup {Validate(draft, rows, halves) : draft \in Drafts(rows \cup halves)}

\* The old insights are deleted and those of the accepted draft inserted; its
\* evidence needs the rows it names, and waits for an uncommitted DELETE of them.
WriteInsights(p) ==
    /\ At(p, "insights", "read")
    /\ \E links \in Accepted(view[p].metrics, view[p].segments) :
         /\ links \subseteq metrics \cup segments
         /\ \A q \in People : At(q, "aggregate", "written") => links \cap view[q].victims = {}
         /\ Goto(p, "written",
                 [view[p] EXCEPT
                    !.victims = insights,
                    !.drafts = IF links = {} THEN {}
                               ELSE {[links |-> links,
                                      strength |-> EvidenceStrength(links, view[p].facts)]}])
    /\ UNCHANGED <<outcome, ended, jobs, tables, overlapped>>

CommitInsights(p) ==
    /\ At(p, "insights", "written")
    /\ insights' = (insights \ view[p].victims) \cup
                   {[by |-> p, links |-> d.links, strength |-> d.strength] : d \in view[p].drafts}
    /\ Follow(p, "done")
    /\ UNCHANGED <<outcome, ended, metrics, segments, validation, overlapped>>

-----------------------------------------------------------------------------
Aggregate(p) == ReadRuns(p) \/ ReadObservations(p) \/ DeleteMetrics(p) \/ CommitMetrics(p)
Evaluate(p)  == \/ ReadMetrics(p) \/ ReadSegments(p) \/ DeleteValidation(p) \/ CommitValidation(p)
                \/ WriteInsights(p) \/ CommitInsights(p)

Next == \E p \in People : \/ Finalize(p) \/ Claim(p) \/ HandlerRaises(p)
                          \/ Aggregate(p) \/ Evaluate(p)

Spec == Init /\ [][Next]_vars

-----------------------------------------------------------------------------
(* Properties. *)

\* Every insight that is stored rests on rows that are still there, each with the
\* sample it takes, even when the metrics are computed anew while the language
\* model is thinking. (insight_engine.py:106-144, generate_insights.py:105-154)
EvidenceStands ==
    \A x \in insights :
      x.links \subseteq metrics \cup segments /\ \A l \in x.links : l.row.size >= MinSample

\* The tables are well formed and no insight has lost its evidence.
AnalysisInv == TypeOK /\ EvidenceStands

\* All chains are through, none has failed, no two jobs of a kind ran at once.
Quiet == (\A p \in People : job[p] \in {"none", "DONE"}) /\ ~ overlapped

Rows(table) == {x.row : x \in table}

\* However many chains a run has had and however often their jobs were tried, the
\* tables hold in the end one analysis, of all that is committed: metrics and
\* segments of all participants, the validation of those metrics against what
\* was there, insights that rest on them.
\* (aggregate_run.py:111-139, validate_run.py:134-154, generate_insights.py:120-154)
QuietMeansCurrent ==
    Quiet /\ (\E p \in People : job[p] = "DONE") =>
      /\ Rows(metrics) = ComputeMetrics(Data(ended, ended))
      /\ Rows(segments) = ComputeSegments(Data(ended, ended))
      /\ \A T \in {metrics, segments, validation} : Cardinality({x.by : x \in T}) <= 1
      /\ \E known \in Present : Found = Facts(metrics, segments, known)
      /\ \A x \in insights : x.strength = EvidenceStrength(x.links, Found)

BelowBaseline(r) ==
    /\ ShortestPathBaseline # None
    /\ \/ Taken(r) < ShortestPathBaseline.actions
       \/ Cardinality(Enters(r)) <= ShortestPathBaseline.screens

\* Nobody gets to a critical element in fewer actions, or over fewer screens, than
\* the baseline the excess is measured against: whoever is below it has used none,
\* and has completed the task, if at all, by a success condition that needs none.
\* (analytics_engine.py:84-129, 320-339; simulation_graph.py:218-248, 506-549)
NobodyBeatsTheBaseline ==
    \A p \in People : BelowBaseline(outcome[p]) =>
      /\ Acted(outcome[p]) \cap Critical = {}
      /\ outcome[p].status = "COMPLETED" => HasSuccess

\* The segments of a trait divide the participants: their completions add up to
\* those of the metrics of the same chain. (analytics_engine.py:341-407)
SegmentsAddUp ==
    \A x \in metrics : x.row.metric = "completion_rate" =>
      \A t \in UNION {DOMAIN Traits[p] : p \in People} :
        LET halves == {y.row : y \in {z \in segments : /\ z.by = x.by
                                                       /\ z.row.metric = "completion_rate"
                                                       /\ z.row.segment[1] = t}}
        IN  /\ Sum(LAMBDA r : r.value.num, halves) = x.row.value.num
            /\ Sum(LAMBDA r : r.size, halves) = x.row.size

-----------------------------------------------------------------------------
(* The inductive invariant. *)

Aggregated == {p \in People : stage[p] \in {"validate", "insights", "done"}}
Validated  == {p \in People : stage[p] \in {"insights", "done"}}

\* A chain is done when its last job is, and a job that may go on has a try left.
JobsFit ==
    \A p \in People :
      /\ job[p] = "none" <=> stage[p] = "none"
      /\ job[p] = "DONE" <=> stage[p] = "done"
      /\ stage[p] # "none" => p \in ended
      /\ job[p] # "FAILED" => tries[p] < MaxAttempts

\* A job's DELETE waits for insights that are about to cite one of its victims, and
\* they are only written when it has not found a row of theirs.
EvidenceKept ==
    /\ \A q \in People : At(q, "insights", "written") =>
         \A d \in view[q].drafts :
           d.links \subseteq metrics \cup segments /\ \A l \in d.links : l.row.size >= MinSample
    /\ \A p \in People : At(p, "aggregate", "written") =>
         /\ Links(insights) \cap view[p].victims = {}
         /\ \A q \in People : At(q, "insights", "written") =>
              Links(view[q].drafts) \cap view[p].victims = {}

\* The rest holds as long as no two jobs of a kind have run at once.
Alone ==
    \A p, q \in People : job[p] = "RUNNING" /\ job[q] = "RUNNING" /\ stage[p] = stage[q] => p = q

\* A job replaces all there is.
WholeTables ==
    \A p \in People :
      /\ At(p, "aggregate", "written") => view[p].victims = metrics \cup segments
      /\ At(p, "validate", "written") => view[p].victims = validation
      /\ At(p, "insights", "written") => view[p].victims = insights

\* Whoever has ended too late to be counted has an aggregate_run of its own to come.
CountedOrToCome(p, S) ==
    p \in S /\ S \subseteq ended /\ \A q \in ended \ S : stage[q] = "aggregate"

AggregatesFit ==
    \A p \in People :
      /\ \A place \in {"half", "read", "written"} :
           At(p, "aggregate", place) => CountedOrToCome(p, view[p].runs)
      /\ \A place \in {"read", "written"} :
           At(p, "aggregate", place) => CountedOrToCome(p, view[p].logs)

\* The tables hold what b has computed: of all but those whose aggregate_run is to come.
TablesOf(b) ==
    \E R, L \in SUBSET ended :
      /\ \A q \in ended \ (R \cap L) : stage[q] = "aggregate"
      /\ metrics = {[by |-> b, row |-> x] : x \in ComputeMetrics(Data(R, L))}
      /\ segments = {[by |-> b, row |-> x] : x \in ComputeSegments(Data(R, L))}

\* b has aggregated last: b's validate_run, and any that begins after it, is of its rows.
AggregatedBy(b) ==
    /\ TablesOf(b)
    /\ b \in Validated => \E known \in Present : Found = Facts(metrics, segments, known)
    /\ \A p \in People : p = b \/ b \in Validated =>
         /\ At(p, "validate", "half") => view[p].metrics = metrics
         /\ At(p, "validate", "read") => view[p].metrics = metrics /\ view[p].segments = segments
         /\ At(p, "validate", "written") =>
              \E known \in Present : view[p].facts = Facts(metrics, segments, known)

\* v has validated last: v's generate_insights, and any that begins after it, weighs by
\* what v has found.
ValidatedBy(v) ==
    /\ \A x \in validation : x.by = v
    /\ stage[v] = "done" => \A x \in insights : x.strength = EvidenceStrength(x.links, Found)
    /\ \A p \in People : p = v \/ stage[v] = "done" =>
         /\ At(p, "insights", "read") => view[p].facts = Found
         /\ At(p, "insights", "written") =>
              \A d \in view[p].drafts : d.strength = EvidenceStrength(d.links, Found)

OneAnalysis ==
    overlapped \/
      /\ Alone /\ WholeTables /\ AggregatesFit
      /\ Aggregated # {} => \E b \in Aggregated : AggregatedBy(b)
      /\ Validated # {} => \E v \in Validated : ValidatedBy(v)

ChainInv == TypeOK /\ JobsFit /\ EvidenceStands /\ EvidenceKept /\ OneAnalysis

\* However the jobs overlap, the rows of a chain are all that it has computed, or
\* none: a later aggregate_run takes them as a whole.
By(table, p) == {x \in table : x.by = p}
RowsOf(p, rows) == {[by |-> p, row |-> x] : x \in rows}

RowsWhole ==
  \A p \in People :
    /\ p \notin Aggregated => By(metrics, p) = {} /\ By(segments, p) = {}
    /\ \/ By(metrics, p) = {}
       \/ \E R, L \in SUBSET People : /\ By(metrics, p) = RowsOf(p, ComputeMetrics(Data(R, L)))
                                      /\ By(segments, p) = RowsOf(p, ComputeSegments(Data(R, L)))
    /\ \A q \in People : At(q, "aggregate", "written") =>
         \/ By(view[q].victims, p) = {}
         \/ p \in Aggregated /\ By(metrics, p) \subseteq view[q].victims
=============================================================================
