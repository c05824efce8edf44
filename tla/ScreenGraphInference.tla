------------------------ MODULE ScreenGraphInference ------------------------
(***************************************************************************)
(* How analyze_stimulus turns what the vision model reports into the       *)
(* screen graph of a study (workers/jobs/analyze_stimulus.py:54-252).      *)
(*                                                                         *)
(* "screens" is the study's screens as the job has them, in the order of   *)
(* the upload: a sequence of [id, key, elements], "elements" a sequence of *)
(* rows with a key.  The dicts of the code keep the last entry of a key.   *)
(* What the model reports is any sequence: it may name screens and         *)
(* elements that do not exist, repeat itself and contradict itself.        *)
(***************************************************************************)
EXTENDS Integers, Sequences, FiniteSets

CONSTANT None

\* MAX_TRANSITION_INFERENCE_ATTEMPTS
MaxInferenceAttempts == 3

Latest(S) == CHOOSE i \in S : \A j \in S : j <= i
Earliest(S) == CHOOSE i \in S : \A j \in S : i <= j

Known(screens) == {screens[i].key : i \in DOMAIN screens}
Place(screens, key) == Latest({i \in DOMAIN screens : screens[i].key = key})
IdOf(screens, key) == screens[Place(screens, key)].id

-----------------------------------------------------------------------------
(* Roles and duplicates. *)

Named(screens, reports) == {reports[i].screen : i \in DOMAIN reports} \cap Known(screens)
Reported(reports, key) == reports[Latest({i \in DOMAIN reports : reports[i].screen = key})]

\* duplicate_of may only point backwards in upload order.
Backwards(screens, key, twin) ==
    IF twin \in Known(screens) /\ Place(screens, twin) < Place(screens, key) THEN twin ELSE None

Claimants(screens, reports, role) ==
    {k \in Named(screens, reports) : Reported(reports, k).role = role}

\* Of several claimants the earliest is the entry and the latest the success.
Holder(screens, reports, role) ==
    LET places == {Place(screens, k) : k \in Claimants(screens, reports, role)}
    IN  IF places = {} THEN None
        ELSE screens[IF role = "entry" THEN Earliest(places) ELSE Latest(places)].key

RoleOf(screens, reports, key) ==
    LET role == Reported(reports, key).role
    IN  IF role \in {"entry", "success"} /\ Holder(screens, reports, role) # key
        THEN "step" ELSE role

ResolveScreenRoles(screens, reports) ==
    [k \in Named(screens, reports) |->
       [summary |-> Reported(reports, k).summary,
        role |-> RoleOf(screens, reports, k),
        duplicate_of |-> Backwards(screens, k, Reported(reports, k).duplicate_of)]]

\* The end of the chain of duplicates, which may be a screen without a role.
CanonicalScreenKeys(roles) ==
    LET root[k \in DOMAIN roles] ==
          LET twin == roles[k].duplicate_of
          IN  IF twin = None THEN k ELSE IF twin \in DOMAIN roles THEN root[twin] ELSE twin
    IN  root

Surviving(screens, canonical) ==
    {i \in DOMAIN screens :
       screens[i].key \in DOMAIN canonical /\ canonical[screens[i].key] = screens[i].key}

-----------------------------------------------------------------------------
(* Transitions. *)

Onto(canonical, key) == IF key \in DOMAIN canonical THEN canonical[key] ELSE key

\* The rows an element key stands for on the screens of a key.
Rows(screens, key, element) ==
    UNION {{<<i, n>> : n \in {m \in DOMAIN screens[i].elements :
                                screens[i].elements[m].key = element}} :
             i \in {j \in DOMAIN screens : screens[j].key = key}}

Trigger(screens, key, element) ==
    LET last == CHOOSE x \in Rows(screens, key, element) :
                  \A y \in Rows(screens, key, element) :
                    y[1] < x[1] \/ (y[1] = x[1] /\ y[2] <= x[2])
    IN  screens[last[1]].elements[last[2]]

\* A reported edge stands for a transition if, with twins collapsed, it leads
\* from one screen of the study to another and its trigger is on the former.
Resolves(screens, canonical, edge) ==
    LET from == Onto(canonical, edge.from)
        to   == Onto(canonical, edge.to)
    IN  /\ from \in Known(screens) /\ to \in Known(screens)
        /\ Rows(screens, from, edge.element) # {}
        /\ IdOf(screens, from) # IdOf(screens, to)

\* Mutant: the trigger is the one of the twin that the model has named.
TransitionOfTwin(screens, canonical, edge) ==
    LET from == Onto(canonical, edge.from)
        own  == Rows(screens, edge.from, edge.element) # {}
    IN  [from    |-> IdOf(screens, from),
         trigger |-> Trigger(screens, IF own THEN edge.from ELSE from, edge.element),
         to      |-> IdOf(screens, Onto(canonical, edge.to))]

Transition(screens, canonical, edge) ==
    [from    |-> IdOf(screens, Onto(canonical, edge.from)),
     trigger |-> Trigger(screens, Onto(canonical, edge.from), edge.element),
     to      |-> IdOf(screens, Onto(canonical, edge.to))]

SameTrigger(t, u) == t.from = u.from /\ t.trigger = u.trigger

\* Of several destinations of one trigger the first one wins.
FirstOfItsTrigger(screens, canonical, inferred, i) ==
    /\ Resolves(screens, canonical, inferred[i])
    /\ \A j \in 1..(i - 1) :
         Resolves(screens, canonical, inferred[j])
           => ~ SameTrigger(Transition(screens, canonical, inferred[j]),
                            Transition(screens, canonical, inferred[i]))

ResolveTransitions(screens, inferred, canonical) ==
    {Transition(screens, canonical, inferred[i]) :
       i \in {j \in DOMAIN inferred : FirstOfItsTrigger(screens, canonical, inferred, j)}}

-----------------------------------------------------------------------------
(* The best of up to three answers. *)

\* What a breadth-first search from the start finds: what every set holds that has
\* the start and is closed under the transitions.
ReachableScreenIds(screens, transitions, start) ==
    LET ids == {screens[i].id : i \in DOMAIN screens}
        closed(S) == /\ IdOf(screens, start) \in S
                     /\ \A t \in transitions : t.from \in S => t.to \in S
    IN  {i \in ids : start \in Known(screens) /\ \A S \in SUBSET ids : closed(S) => i \in S}

\* "next(...)" takes the first screen of the success key, not the last.
SuccessReached(screens, reached, success) ==
    \E i \in DOMAIN screens :
      /\ screens[i].key = success /\ screens[i].id \in reached
      /\ \A j \in 1..(i - 1) : screens[j].key # success

\* The attempt the loop ends with, "reached" being what each one would reach.
LastAttempt(screens, reached, success) ==
    Earliest({n \in 1..MaxInferenceAttempts :
                n = MaxInferenceAttempts \/ SuccessReached(screens, reached[n], success)})

\* Which attempt is kept, given how many screens each one made reaches.
BestAttempt(sizes) ==
    CHOOSE n \in DOMAIN sizes : /\ \A m \in DOMAIN sizes : sizes[m] <= sizes[n]
                                /\ \A m \in 1..(n - 1) : sizes[m] < sizes[n]

\* What _infer_best_transitions returns if the model's answers are "answers".
InferBestTransitions(screens, canonical, entry, success, answers) ==
    LET resolved == [n \in 1..MaxInferenceAttempts |->
                       ResolveTransitions(screens, answers[n], canonical)]
        reached  == [n \in 1..MaxInferenceAttempts |->
                       ReachableScreenIds(screens, resolved[n], entry)]
        made     == LastAttempt(screens, reached, success)
    IN  IF entry = None THEN resolved[1]
        ELSE resolved[BestAttempt([n \in 1..made |-> Cardinality(reached[n])])]
=============================================================================
