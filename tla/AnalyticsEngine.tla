--------------------------- MODULE AnalyticsEngine ---------------------------
(***************************************************************************)
(* The Analytics Engine (services/analytics_engine.py): what aggregate_run *)
(* computes from the participants of a run and their observations.  A run  *)
(* is a function from participants to [status, time, traits, log]; a log   *)
(* is the sequence of its observations, so sequence_no is the position     *)
(* (LogFollowsState of SimulationGraph).  A rate is kept as the fraction   *)
(* [num, den] it is, and traits are in tenths.                             *)
(***************************************************************************)
EXTENDS Integers, Sequences, FiniteSetsExt

CONSTANTS
    Screens, On,    \* the screen graph: the elements on each screen,
    Leads,          \* its transitions [from, trigger, to]
    Critical,       \* the elements that match expected_critical_actions
    Start,          \* where the task starts, or None
    None

Interactions == {"CLICK", "TAP", "SCROLL", "BACK", "OPEN", "SELECT", "TYPE"}
Threshold    == 5   \* SEGMENT_THRESHOLD, in tenths

Share(part, whole) == [num |-> part, den |-> whole]
Row(level, metric, part, size) ==
    [level |-> level, metric |-> metric, element |-> None, screen |-> None,
     value |-> Share(part, size), size |-> size]
Sum(f(_), S) == MapThenSumSet(f, S)

-----------------------------------------------------------------------------
(* The baseline of excess actions and screens. *)

HasCritical(s) == s \in Screens /\ On[s] \cap Critical # {}

\* The screens at most n transitions away: the search meets them in this order.
Within[n \in 0..Cardinality(Screens)] ==
    IF n = 0 THEN {Start}
    ELSE LET nearer == Within[n - 1]
         IN  nearer \cup {t.to : t \in {u \in Leads : u.from \in nearer}}

\* Mutant: the search does not meet the nearest critical screen first.
BaselineDepthFirst ==
    LET found == {n \in DOMAIN Within : \E s \in Within[n] : HasCritical(s)}
    IN  IF Start \notin Screens \/ found = {} THEN None
        ELSE [actions |-> Max(found) + 1, screens |-> Max(found)]

ShortestPathBaseline ==
    LET found == {n \in DOMAIN Within : \E s \in Within[n] : HasCritical(s)}
    IN  IF Start \notin Screens \/ found = {} THEN None
        ELSE [actions |-> Min(found) + 1, screens |-> Min(found)]

-----------------------------------------------------------------------------
(* What one participant did. *)

Steps(r, types)      == {i \in DOMAIN r.log : r.log[i].type \in types}
StepsOn(r, types, e) == {i \in Steps(r, types) : r.log[i].element = e}
Exposed(r)           == {r.log[i].element : i \in DOMAIN r.log} \ {None}
Dwell(r, S)          == Sum(LAMBDA i : r.log[i].dwell, S)
Gazes(r)             == {i \in Steps(r, {"GAZE"}) : r.log[i].element # None}
FirstGaze(r)         == IF Gazes(r) = {} THEN None ELSE r.log[Min(Gazes(r))].element
Enters(r)            == {i \in Steps(r, {"SCREEN_ENTER"}) : r.log[i].screen # None}
LastScreen(r)        == IF Enters(r) = {} THEN None ELSE r.log[Max(Enters(r))].screen

\* The dwell on e before its first interaction.
Hesitation(r, e) ==
    Dwell(r, {i \in StepsOn(r, {"GAZE"}, e) : i < Min(StepsOn(r, Interactions, e))})

-----------------------------------------------------------------------------
(* compute_metrics *)

With(runs, Test(_))      == {p \in DOMAIN runs : Test(runs[p])}
Count(runs, Test(_))     == Cardinality(With(runs, Test))
Completed(r)             == r.status = "COMPLETED"
Abandoned(r)             == r.status = "ABANDONED"
Backtracked(r)           == Steps(r, {"BACK"}) # {}
OfElement(e, row)        == [row EXCEPT !.element = e]
Elements(runs)           == UNION {Exposed(runs[p]) : p \in DOMAIN runs}

TaskSuccess(runs) ==
    LET n == Cardinality(DOMAIN runs)
    IN  {Row("task_success", "completion_rate", Count(runs, Completed), n),
         Row("task_success", "abandonment_rate", Count(runs, Abandoned), n),
         Row("friction", "backtrack_rate", Count(runs, Backtracked), n)}

\* Stuck on the last screen entered, unless the task was completed.
DeadEndRate(runs, s) ==
    LET reached == Count(runs, LAMBDA r : \E i \in Enters(r) : r.log[i].screen = s)
        stuck   == Count(runs, LAMBDA r : LastScreen(r) = s /\ ~ Completed(r))
    IN  [Row("friction", "dead_end_rate", stuck, reached) EXCEPT !.screen = s]

DeadEndRates(runs) ==
    {DeadEndRate(runs, s) :
       s \in UNION {{runs[p].log[i].screen : i \in Enters(runs[p])} : p \in DOMAIN runs}}

\* click_rate and repeated_interaction_rate: of those exposed to e.
InteractionRates(runs, e) ==
    LET exposed == Count(runs, LAMBDA r : e \in Exposed(r))
        acting(k) == Count(runs, LAMBDA r : Cardinality(StepsOn(r, Interactions, e)) >= k)
    IN  {OfElement(e, Row("discoverability", "click_rate", acting(1), exposed)),
         OfElement(e, Row("friction", "repeated_interaction_rate", acting(2), exposed))}

\* revisit_rate: of those who looked at e.
RevisitRate(runs, e) ==
    LET looking(k) == Count(runs, LAMBDA r : Cardinality(StepsOn(r, {"GAZE"}, e)) >= k)
    IN  {OfElement(e, Row("discoverability", "revisit_rate", looking(2), n)) :
           n \in {looking(1)} \ {0}}

\* The sample of an attention share is the run, not the dwell it is a share of.
AttentionShare(runs, e) ==
    LET spent == Sum(LAMBDA p : Dwell(runs[p], StepsOn(runs[p], {"GAZE"}, e)), DOMAIN runs)
        total == Sum(LAMBDA p : Dwell(runs[p], Gazes(runs[p])), DOMAIN runs)
    IN  IF total = 0 \/ \A p \in DOMAIN runs : StepsOn(runs[p], {"GAZE"}, e) = {} THEN {}
        ELSE {[OfElement(e, Row("discoverability", "attention_share", spent,
                                Cardinality(DOMAIN runs))) EXCEPT !.value.den = total]}

FirstAttentionRate(runs, e) ==
    {OfElement(e, Row("discoverability", "first_attention_rate", n, Cardinality(DOMAIN runs))) :
       n \in {Count(runs, LAMBDA r : FirstGaze(r) = e)} \ {0}}

\* hesitation_time: a mean over those who interacted with e.
HesitationTime(runs, e) ==
    LET acting == With(runs, LAMBDA r : StepsOn(r, Interactions, e) # {})
    IN  {OfElement(e, Row("friction", "hesitation_time",
                          Sum(LAMBDA p : Hesitation(runs[p], e), acting), n)) :
           n \in {Cardinality(acting)} \ {0}}

\* Means over everybody, whether they completed the task or not; the first
\* SCREEN_ENTER is counted, though the baseline takes no transition for it.
Excess(runs) ==
    LET n == Cardinality(DOMAIN runs)
        over(types, base) == Sum(LAMBDA p : Cardinality(Steps(runs[p], types)) - base, DOMAIN runs)
    IN  IF ShortestPathBaseline = None THEN {}
        ELSE {Row("friction", "excess_actions",
                  over(Interactions, ShortestPathBaseline.actions), n),
              Row("friction", "excess_screens",
                  over({"SCREEN_ENTER"}, ShortestPathBaseline.screens), n)}

ComputeMetrics(runs) ==
    IF DOMAIN runs = {} THEN {}
    ELSE TaskSuccess(runs) \cup DeadEndRates(runs) \cup Excess(runs)
           \cup UNION {InteractionRates(runs, e) \cup RevisitRate(runs, e)
                         \cup AttentionShare(runs, e) \cup FirstAttentionRate(runs, e)
                         \cup HesitationTime(runs, e) : e \in Elements(runs)}

-----------------------------------------------------------------------------
(* compute_segments *)

\* A trait that a participant does not have counts as 0.
Trait(r, t) == IF t \in DOMAIN r.traits THEN r.traits[t] ELSE 0

\* Mutant: a participant on the threshold is in both segments.
MembersOverlapping(runs, t, half) ==
    With(runs, LAMBDA r : /\ DOMAIN r.traits # {}
                          /\ IF half = "low" THEN Trait(r, t) <= Threshold
                                             ELSE Trait(r, t) >= Threshold)

\* Those without traits (the sessions of testers) are in no segment.
Members(runs, t, half) ==
    With(runs, LAMBDA r : /\ DOMAIN r.traits # {}
                          /\ IF half = "low" THEN Trait(r, t) < Threshold
                                             ELSE Trait(r, t) >= Threshold)

SegmentRow(segment, metric, part, size) ==
    [segment |-> segment, metric |-> metric, value |-> Share(part, size), size |-> size]

SegmentValues(segment, runs) ==
    LET n == Cardinality(DOMAIN runs)
        rate(metric, Test(_)) == SegmentRow(segment, metric, Count(runs, Test), n)
        timed == With(runs, LAMBDA r : r.time # None)
        dwell == Sum(LAMBDA p : Dwell(runs[p], Steps(runs[p], {"GAZE"})), DOMAIN runs)
    IN  {rate("completion_rate", Completed), rate("abandonment_rate", Abandoned),
         rate("backtrack_rate", Backtracked),
         rate("click_rate", LAMBDA r : \E i \in Steps(r, Interactions) : r.log[i].element # None)}
        \cup {SegmentRow(segment, "task_time_ms", Sum(LAMBDA p : runs[p].time, timed), k) :
                k \in {Cardinality(timed)} \ {0}}
        \cup {SegmentRow(segment, "attention_dwell_ms", d, n) : d \in {dwell} \ {0}}
        \cup (IF Critical = {} THEN {}
              ELSE {rate("first_attention_rate", LAMBDA r : FirstGaze(r) \in Critical)})

ComputeSegments(runs) ==
    LET traits == UNION {DOMAIN runs[p].traits : p \in DOMAIN runs}
        members == [s \in traits \X {"low", "high"} |-> Members(runs, s[1], s[2])]
    IN  UNION {SegmentValues(s, [p \in members[s] |-> runs[p]]) :
                 s \in {x \in DOMAIN members : members[x] # {}}}
=============================================================================
