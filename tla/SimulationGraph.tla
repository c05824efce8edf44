--------------------------- MODULE SimulationGraph ---------------------------
(***************************************************************************)
(* One synthetic participant's walk through the screens of a study:        *)
(* app/agents/graphs/simulation_graph.py with the candidates offered by    *)
(* app/agents/providers/participant_model.py.                              *)
(*                                                                         *)
(* Each LangGraph node is an action and each conditional edge a choice of  *)
(* the next node.  A sampled candidate may be any candidate (softmax gives *)
(* each a positive weight).  Progress is in hundredths, uncertainty and    *)
(* patience in tenths.  The event list is kept as log: how many events it  *)
(* has, the last one's type, the screen of its last SCREEN_ENTER and the   *)
(* GAZE events since then.  acted is the set of targets in action_history. *)
(***************************************************************************)
EXTENDS Naturals, Sequences, FiniteSets

CONSTANTS
    Screens,          \* screen_graph.screens
    Missing,          \* screens that occur in transitions only
    Elements,
    Shows,            \* a screen's elements, in order
    Kind,             \* an element's default_action_for
    Interactable,     \* the interactable elements
    Leads,            \* Leads[s][e]: where the first transition of e on s goes, or None
    Starts,           \* what resolve_starting_screen may return
    Critical,         \* expected_critical_actions
    Marks,            \* Marks[e]: e's element_key and semantic_role that are critical
    HasSuccess,       \* has_recognized_success_condition
    SuccessScreens,   \* screens with the success condition's screen_key
    SuccessElements,  \* elements with its element_key or semantic_role
    Heuristic,        \* HeuristicParticipantModel, the one that offers BACK
    Patience,         \* trait, tenths
    Doubts,           \* values of 0.6 - spread, tenths
    MaxSteps,         \* max_steps
    MaxScans,         \* max_scan_attempts
    None

Places == Screens \cup Missing

On(s) == {Shows[s][i] : i \in DOMAIN Shows[s]}

Reasons == {"screen_not_found", "intended_action_not_discovered", "max_steps_exceeded",
            "dead_end_no_actions", "low_patience_high_uncertainty"}
Types   == {"SCREEN_ENTER", "GAZE", "ACT", "TASK_PROGRESS",
            "TASK_SUCCESS", "TASK_FAILURE", "ABANDON"}

ASSUME GraphAssumption ==
    /\ Screens \cap Missing = {}
    /\ Shows \in [Screens -> Seq(Elements)]
    /\ \A s, t \in Screens : s # t => On(s) \cap On(t) = {}
    /\ Kind \in [Elements -> {"CLICK", "TYPE", "SELECT"}]
    /\ Interactable \subseteq Elements
    /\ Leads \in [Screens -> [Elements -> Places \cup {None}]]
    /\ Starts \subseteq Screens /\ Starts # {}
    /\ IsFiniteSet(Critical) /\ Cardinality(Critical) < 100  \* hundredths tell shares apart
    /\ Marks \in [Elements -> SUBSET Critical]
    /\ HasSuccess \in BOOLEAN
    /\ SuccessScreens \subseteq Screens
    /\ SuccessElements \subseteq Elements
    /\ Heuristic \in BOOLEAN
    /\ Patience \in 0..10
    /\ Doubts \subseteq 0..6 /\ Doubts # {}
    /\ MaxSteps \in Nat \ {0}
    /\ MaxScans \in Nat \ {0}
    /\ None \notin Elements \cup Places \cup Reasons \cup Types

VARIABLES
    node,                  \* the LangGraph node to run next
    screen, trail,         \* current_screen_id, screen_history
    scan,                  \* scan_count
    uncertainty, progress, \* task_progress
    action, acted, step,
    deadEnds, backtracks,
    outcome, reason,       \* failure_reason
    seqno, log,
    supersteps             \* what LangGraph counts against recursion_limit

place   == <<screen, trail, deadEnds, backtracks>>
verdict == <<outcome, reason>>
events  == <<seqno, log>>
vars    == <<node, screen, trail, scan, uncertainty, progress, action, acted, step,
             deadEnds, backtracks, outcome, reason, seqno, log, supersteps>>

Nodes == {"orient", "perceive", "attend", "act_on_intended", "scan_exhausted", "interpret",
          "select_action", "execute_action", "update_state", "check_task"}
Over  == {"end", "crashed"}

Actions == [kind : {"CLICK", "TYPE", "SELECT", "SCROLL", "BACK"}, target : Elements \cup {None}]

TypeOK ==
    /\ node \in Nodes \cup Over
    /\ screen \in Places
    /\ trail \in Seq(Screens)
    /\ scan \in Nat
    /\ uncertainty \in 0..10
    /\ progress \in 0..100
    /\ action \in Actions \cup {None}
    /\ acted \in SUBSET Elements
    /\ step \in 0..MaxSteps
    /\ deadEnds \in Nat
    /\ backtracks \in 0..3
    /\ outcome \in {"IN_PROGRESS", "COMPLETED", "FAILED", "ABANDONED"}
    /\ reason \in Reasons \cup {None}
    /\ seqno \in Nat
    /\ log \in [count : Nat, last : Types \cup {None}, entered : Places \cup {None}, gazes : Nat]
    /\ supersteps \in Nat

Init ==
    /\ node = "orient"
    /\ screen \in Starts /\ trail = <<>>
    /\ scan = 0
    /\ uncertainty = 3 /\ progress = 0
    /\ action = None /\ acted = {} /\ step = 0
    /\ deadEnds = 0 /\ backtracks = 0
    /\ outcome = "IN_PROGRESS" /\ reason = None
    /\ seqno = 0
    /\ log = [count |-> 0, last |-> None, entered |-> None, gazes |-> 0]
    /\ supersteps = 0

-----------------------------------------------------------------------------
Goto(n) == node' = n /\ supersteps' = supersteps + 1

\* An event that does not enter a screen.
Emit(type) ==
    /\ seqno' = seqno + 1
    /\ log' = [log EXCEPT !.count = @ + 1, !.last = type,
                          !.gazes = IF type = "GAZE" THEN @ + 1 ELSE @]

End(o, r) == outcome' = o /\ reason' = r /\ Goto("end")

Orient ==
    /\ node = "orient"
    /\ seqno' = seqno + 1
    /\ log' = [count |-> 1, last |-> "SCREEN_ENTER", entered |-> screen, gazes |-> 0]
    /\ Goto("perceive")
    /\ UNCHANGED <<place, scan, uncertainty, progress, action, acted, step, verdict>>

Perceive ==
    /\ node = "perceive"
    /\ IF screen \in Screens
       THEN Goto("attend") /\ UNCHANGED verdict
       ELSE End("FAILED", "screen_not_found")
    /\ UNCHANGED <<place, scan, uncertainty, progress, action, acted, step, events>>

CriticalAt(s) == {i \in DOMAIN Shows[s] : Marks[Shows[s][i]] # {}}

\* The first critical element of a screen, whatever was done with it before.
Intended(s) ==
    IF CriticalAt(s) = {} THEN None
    ELSE Shows[s][CHOOSE i \in CriticalAt(s) : \A k \in CriticalAt(s) : i <= k]

\* Mutant: no limit on scans.
AfterScanForever(gaze, scans) == IF gaze = Intended(screen) THEN "act_on_intended" ELSE "attend"

\* _route_after_attend on a screen that has an intended element.
AfterScan(gaze, scans) ==
    IF gaze = Intended(screen) THEN "act_on_intended"
    ELSE IF scans >= MaxScans THEN "scan_exhausted" ELSE "attend"

\* On a screen with elements one of them is gazed at.
Attend ==
    /\ node = "attend"
    /\ \/ /\ Intended(screen) # None
          /\ scan' = scan + 1
          /\ \E gaze \in On(screen) : Goto(AfterScan(gaze, scan + 1))
       \/ /\ Intended(screen) = None
          /\ Goto("interpret")
          /\ UNCHANGED scan
    /\ IF On(screen) = {} THEN UNCHANGED events ELSE Emit("GAZE")
    /\ UNCHANGED <<place, uncertainty, progress, action, acted, step, verdict>>

ActOnIntended ==
    /\ node = "act_on_intended"
    /\ action' = [kind |-> Kind[Intended(screen)], target |-> Intended(screen)]
    /\ Goto("execute_action")
    /\ UNCHANGED <<place, scan, uncertainty, progress, acted, step, verdict, events>>

\* Mutant: the ABANDON event reuses the number of the last GAZE.
ScanExhaustedUnnumbered ==
    /\ node = "scan_exhausted"
    /\ log' = [log EXCEPT !.count = @ + 1, !.last = "ABANDON"]
    /\ End("ABANDONED", "intended_action_not_discovered")
    /\ UNCHANGED <<place, scan, uncertainty, progress, action, acted, step, seqno>>

ScanExhausted ==
    /\ node = "scan_exhausted"
    /\ Emit("ABANDON")
    /\ End("ABANDONED", "intended_action_not_discovered")
    /\ UNCHANGED <<place, scan, uncertainty, progress, action, acted, step>>

\* Mutant: the uncertainty of a screen is 0.9 - spread.
DoubtHigh == IF On(screen) = {} THEN {IF uncertainty < 10 THEN uncertainty + 1 ELSE 10}
                                ELSE {d + 3 : d \in Doubts}

\* Attention that is spread evenly raises uncertainty; so does a screen without elements.
Doubt == IF On(screen) = {} THEN {IF uncertainty < 10 THEN uncertainty + 1 ELSE 10}
                            ELSE Doubts

Interpret ==
    /\ node = "interpret"
    /\ uncertainty' \in Doubt
    /\ Goto("select_action")
    /\ UNCHANGED <<place, scan, progress, action, acted, step, verdict, events>>

\* Mutant: scrolling is not on offer.
CandidatesWithoutScroll ==
    {[kind |-> Kind[e], target |-> e] : e \in On(screen) \cap Interactable}
    \cup {a \in {[kind |-> "BACK", target |-> None]} : Heuristic /\ step > 0 /\ backtracks < 3}

\* What the participant model's select_action scores; action_history is empty at step 0.
Candidates ==
    {[kind |-> Kind[e], target |-> e] : e \in On(screen) \cap Interactable}
    \cup {[kind |-> "SCROLL", target |-> None]}
    \cup {a \in {[kind |-> "BACK", target |-> None]} : Heuristic /\ step > 0 /\ backtracks < 3}

SelectAction ==
    /\ node = "select_action"
    /\ action' \in Candidates
    /\ Goto("execute_action")
    /\ UNCHANGED <<place, scan, uncertainty, progress, acted, step, verdict, events>>

\* Mutant: the scans of the last screen count on the next one.
ArriveScanned(s) ==
    /\ screen' = s
    /\ UNCHANGED scan
    /\ IF s = screen THEN Emit("ACT")
       ELSE /\ seqno' = seqno + 3
            /\ log' = [count |-> log.count + 3, last |-> "SCREEN_ENTER", entered |-> s, gazes |-> 0]

\* The action's event, and if it changes the screen SCREEN_EXIT and SCREEN_ENTER
\* and a fresh scan budget.
Arrive(s) ==
    /\ screen' = s
    /\ scan' = IF s = screen THEN scan ELSE 0
    /\ IF s = screen THEN Emit("ACT")
       ELSE /\ seqno' = seqno + 3
            /\ log' = [count |-> log.count + 3, last |-> "SCREEN_ENTER", entered |-> s, gazes |-> 0]

Presses == action.target # None /\ action.kind \in {"CLICK", "SELECT"}

Target == Leads[screen][action.target]

Follow ==
    /\ Presses /\ Target # None
    /\ trail' = Append(trail, screen)
    /\ Arrive(Target)
    /\ UNCHANGED <<deadEnds, backtracks>>

HitDeadEnd ==
    /\ Presses /\ Target = None
    /\ deadEnds' = deadEnds + 1
    /\ Arrive(screen)
    /\ UNCHANGED <<trail, backtracks>>

\* Mutant: the screen is read from the history, not popped.
GoBackPeeking ==
    /\ action.kind = "BACK" /\ trail # <<>>
    /\ backtracks' = backtracks + 1
    /\ Arrive(trail[Len(trail)])
    /\ UNCHANGED <<trail, deadEnds>>

GoBack ==
    /\ action.kind = "BACK" /\ trail # <<>>
    /\ trail' = SubSeq(trail, 1, Len(trail) - 1)
    /\ backtracks' = backtracks + 1
    /\ Arrive(trail[Len(trail)])
    /\ UNCHANGED deadEnds

\* SCROLL, TYPE, and BACK with nowhere to go back to.
StayPut ==
    /\ ~Presses
    /\ ~(action.kind = "BACK" /\ trail # <<>>)
    /\ Arrive(screen)
    /\ UNCHANGED <<trail, deadEnds, backtracks>>

Acted == acted \cup ({action.target} \ {None})

ExecuteAction ==
    /\ node = "execute_action"
    /\ Follow \/ HitDeadEnd \/ GoBack \/ StayPut
    /\ acted' = Acted
    /\ step' = step + 1
    /\ Goto("update_state")
    /\ UNCHANGED <<uncertainty, progress, action, verdict>>

AtMost(n, bound) == IF n < bound THEN n ELSE bound

Matched(es) == UNION {Marks[e] : e \in es}

\* len(matched) / len(critical).
Share == (100 * Cardinality(Matched(acted))) \div Cardinality(Critical)

SuccessMet ==
    HasSuccess /\ (screen \in SuccessScreens \/ acted \cap SuccessElements # {})

\* Critical actions alone do not meet a success condition.
Cap == IF HasSuccess THEN 99 ELSE 100

\* Mutant: critical actions complete a task that has a success condition.
ProgressUncapped ==
    IF SuccessMet THEN 100
    ELSE IF Critical # {} THEN Share
    ELSE AtMost(15 * Cardinality({trail[i] : i \in DOMAIN trail} \cup {screen}), 90)

Progress ==
    IF SuccessMet THEN 100
    ELSE IF Critical # {} THEN AtMost(Share, Cap)
    ELSE AtMost(15 * Cardinality({trail[i] : i \in DOMAIN trail} \cup {screen}), 90)

\* A change of more than 0.01 is an event, and so is 0.99 to 1.0: the floats differ
\* by a little more than that.
UpdateState ==
    /\ node = "update_state"
    /\ progress' = Progress
    /\ IF progress' = progress THEN UNCHANGED events ELSE Emit("TASK_PROGRESS")
    /\ Goto("check_task")
    /\ UNCHANGED <<place, scan, uncertainty, action, acted, step, verdict>>

OutOfSteps == step >= MaxSteps

Stuck == On(screen) \cap Interactable = {} /\ trail = <<>>

\* uncertainty * (1 - patience) + 0.1 * min(1, dead_end_count / 4) > 0.75, after step 5.
Impatient ==
    /\ 4 * uncertainty * (10 - Patience) + 10 * AtMost(deadEnds, 4) > 300
    /\ step > 5

\* Reading the screen of a participant who has left the graph is a KeyError.
CheckTask ==
    /\ node = "check_task"
    /\ IF progress >= 100 THEN Emit("TASK_SUCCESS") /\ End("COMPLETED", None)
       ELSE IF OutOfSteps THEN Emit("ABANDON") /\ End("ABANDONED", "max_steps_exceeded")
       ELSE IF screen \notin Screens THEN Goto("crashed") /\ UNCHANGED <<events, verdict>>
       ELSE IF Stuck THEN Emit("TASK_FAILURE") /\ End("FAILED", "dead_end_no_actions")
       ELSE IF Impatient
            THEN Emit("ABANDON") /\ End("ABANDONED", "low_patience_high_uncertainty")
       ELSE Goto("perceive") /\ UNCHANGED <<events, verdict>>
    /\ UNCHANGED <<place, scan, uncertainty, progress, action, acted, step>>

Next ==
    \/ Orient \/ Perceive \/ Attend \/ ActOnIntended \/ ScanExhausted \/ Interpret
    \/ SelectAction \/ ExecuteAction \/ UpdateState \/ CheckTask

Spec == Init /\ [][Next]_vars

\* ainvoke runs the graph until it reaches END or raises.
FairSpec == Spec /\ WF_vars(Next)
-----------------------------------------------------------------------------
(* Properties. *)

\* The limit run_simulation passes is never hit: no walk, however often it
\* rescans, is cut off by a GraphRecursionError (lines 703-709).
WithinRecursionLimit == supersteps <= MaxSteps * (8 + MaxScans) + 20

\* The observations can be replayed: they are numbered without gap or repetition,
\* the last SCREEN_ENTER is where the participant is, and the last event of all,
\* and only that one, says how the walk ended.
LogFollowsState ==
    /\ seqno = log.count
    /\ node # "orient" => log.entered = screen
    /\ log.last = "TASK_SUCCESS" <=> outcome = "COMPLETED"
    /\ log.last = "TASK_FAILURE" <=> outcome = "FAILED" /\ reason # "screen_not_found"
    /\ log.last = "ABANDON" <=> outcome = "ABANDONED"

\* COMPLETED is earned: with a success condition only by meeting it, without one
\* only by every critical action, and with neither not at all (lines 506-526).
CompletionIsEarned ==
    outcome = "COMPLETED" =>
        IF HasSuccess THEN SuccessMet ELSE Critical # {} /\ Matched(acted) = Critical

\* On a gated screen nothing but its first critical element is ever acted on: the
\* others, critical or not, cannot be reached in any walk (lines 251-270, 355-376).
FirstCriticalOnly ==
    \A s \in Screens : Intended(s) # None => acted \cap On(s) \subseteq {Intended(s)}

\* A participant who drops off for not finding the intended element has had the
\* full number of scans on this very visit.
ScansArePerScreen ==
    reason = "intended_action_not_discovered" => log.gazes >= MaxScans

\* screen_history is a walkable trail from the starting screen to here, so BACK
\* always undoes the last move that was not undone.
TrailIsWalkable ==
    LET walk == Append(trail, screen)
    IN  /\ walk[1] \in Starts
        /\ \A i \in 1..Len(trail) : \E e \in On(walk[i]) : Leads[walk[i]][e] = walk[i + 1]

\* Impatience needs a screen without elements: on any other, uncertainty is at most
\* 0.6 and the pressure to abandon at most 0.7.
PatienceNeedsBareScreen ==
    (\A s \in Screens : Shows[s] # <<>>) => reason # "low_patience_high_uncertainty"

\* Towards a finish line the participant never slips back.
ProgressNeverDrops == [][Critical # {} => progress' >= progress]_vars

\* Every walk ends, for there is always something to do and never more than
\* max_steps of it (lines 563-611, participant_model.py:249-291).
Terminates == <>(node \in Over)

-----------------------------------------------------------------------------
(* The inductive invariant: what holds at each node, which is more than the *)
(* properties above say and all that the next node relies on.               *)

\* Only the node that ends a walk records how.
WalkIsOpen == node # "end" => outcome = "IN_PROGRESS" /\ reason = None

\* Nothing has happened yet when the walk orients itself.
StartIsFresh == node = "orient" => seqno = 0 /\ scan = 0 /\ step = 0 /\ supersteps = 0

\* Between one check_task and the next action the participant is on a screen that
\* was read, and has a step left.
ScreenIsKnown ==
    node \in Nodes \ {"update_state", "check_task"} => screen \in Screens /\ step < MaxSteps

\* The gate decides which nodes a screen is left by, and so what is acted on.
GateHolds ==
    /\ node \in {"act_on_intended", "scan_exhausted"} => Intended(screen) # None
    /\ node \in {"interpret", "select_action"} => Intended(screen) = None
    /\ node = "execute_action" =>
         /\ action \in Actions
         /\ action.kind = "BACK" => backtracks < 3
         /\ action.target # None => action.target \in On(screen)
         /\ Intended(screen) # None => action.target = Intended(screen)

\* Every scan was a gaze on this visit.
ScansAreGazes ==
    /\ scan <= log.gazes
    /\ node = "scan_exhausted" => scan >= MaxScans

\* Uncertainty of participants who only see screens with elements.
DoubtIsBounded == (\A s \in Screens : Shows[s] # <<>>) => uncertainty <= 6

\* Progress is current when it is judged; on a walk that goes on, it is not ahead of
\* the critical actions.
ProgressIsCurrent ==
    /\ node = "check_task" => progress = Progress
    /\ node \notin {"check_task", "end"} /\ Critical # {} => progress <= AtMost(Share, Cap)

\* The most nodes one action takes.
PerStep == 6 + MaxScans

\* How many nodes have run, by where the walk is.
StepsAreCounted ==
    /\ node = "perceive" => supersteps <= 1 + step * PerStep
    /\ node = "attend" => supersteps <= 2 + step * PerStep + AtMost(scan, MaxScans - 1)
    /\ node \in {"act_on_intended", "scan_exhausted", "interpret"} =>
         supersteps <= 2 + step * PerStep + MaxScans
    /\ node = "select_action" => supersteps <= 3 + step * PerStep + MaxScans
    /\ node = "execute_action" => supersteps <= 4 + step * PerStep + MaxScans
    /\ node = "update_state" => supersteps + 1 <= step * PerStep
    /\ node = "check_task" => supersteps <= step * PerStep
    /\ node \in Over => supersteps <= MaxSteps * PerStep + 1

\* simulation_graph.py:180-530, node by node.
WalkInv ==
    /\ TypeOK
    /\ WalkIsOpen /\ StartIsFresh /\ ScreenIsKnown /\ GateHolds
    /\ ScansAreGazes /\ DoubtIsBounded /\ ProgressIsCurrent /\ StepsAreCounted
    /\ LogFollowsState /\ CompletionIsEarned /\ ScansArePerScreen
    /\ FirstCriticalOnly /\ TrailIsWalkable /\ PatienceNeedsBareScreen
=============================================================================
