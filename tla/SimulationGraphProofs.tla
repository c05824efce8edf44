----------------------- MODULE SimulationGraphProofs ------------------------
(***************************************************************************)
(* Theorems about SimulationGraph, for any study, participant, step limit  *)
(* and scan limit.  Lemmas about the operators come first, then one per    *)
(* node that it keeps WalkInv; the theorems follow from the invariant.     *)
(***************************************************************************)
EXTENDS SimulationGraph, FiniteSetTheorems, SequenceTheorems, WellFoundedInduction, TLAPS

-----------------------------------------------------------------------------
(* Arithmetic. *)

\* Integer division keeps order.
LEMMA DivIsMonotone ==
    ASSUME NEW a \in Nat, NEW b \in Nat, NEW c \in Nat, c > 0, a <= b
    PROVE  a \div c \in Nat /\ a \div c <= b \div c
  OBVIOUS

\* Below a hundred critical actions, hundredths tell all from not all.
LEMMA FullShare ==
    ASSUME NEW a \in Nat, NEW c \in Nat, 0 < c, c < 100, a <= c, (100 * a) \div c >= 100
    PROVE  a = c
<1>1. 100 * a >= 100 * c
  OBVIOUS
<1> QED
  BY <1>1

\* A step more of budget.
LEMMA OneMoreStep ==
    ASSUME NEW s \in Nat, NEW p \in Nat, NEW m \in Nat, s < m
    PROVE  s * p \in Nat /\ (s + 1) * p = s * p + p /\ s * p + p <= m * p
<1>1. s * p \in Nat /\ (s + 1) * p = s * p + p
  OBVIOUS
<1>2. PICK d \in Nat : m = s + 1 + d
  <2>1. m - (s + 1) \in Nat
    OBVIOUS
  <2> QED  BY <2>1
<1>3. m * p = (s + 1) * p + d * p
  BY <1>2
<1>4. d * p >= 0
  OBVIOUS
<1> QED
  BY <1>1, <1>3, <1>4

\* At an uncertainty of 0.6 or less, 4 * uncertainty * (10 - patience) is at most 240.
LEMMA PressureIsBounded ==
    ASSUME NEW u \in 0..6, NEW p \in 0..10
    PROVE  4 * u * (10 - p) <= 240
  OBVIOUS

-----------------------------------------------------------------------------
(* Screens. *)

\* The CHOOSE of Intended has something to choose.
LEMMA LeastExists ==
    ASSUME NEW S \in SUBSET Nat, S # {}
    PROVE  \E i \in S : \A k \in S : i <= k
<1>1. PICK i \in S : \A k \in S : <<k, i>> \notin OpToRel(<, Nat)
  BY WFMin, NatLessThanWellFounded, Zenon
<1>2. \A k \in S : ~(k < i)
  BY <1>1, Zenon DEF OpToRel
<1> QED
  BY <1>2

\* A prefix of a sequence.
LEMMA PrefixOfSeq ==
    ASSUME NEW S, NEW t \in Seq(S), NEW n \in Nat, n <= Len(t)
    PROVE  /\ SubSeq(t, 1, n) \in Seq(S) /\ Len(SubSeq(t, 1, n)) = n
           /\ \A i \in 1..n : SubSeq(t, 1, n)[i] = t[i]
<1>1. \A i \in 1..n : t[i] \in S
  OBVIOUS
<1>2. n - 1 + 1 = n /\ (~(1 <= n) => n = 0) /\ \A i \in 1..n : 1 + i - 1 = i
  OBVIOUS
<1> QED
  BY <1>1, <1>2, SubSeqProperties

\* What BACK leaves of the trail.
LEMMA FrontOfSeq ==
    ASSUME NEW S, NEW t \in Seq(S), t # <<>>
    PROVE  /\ Len(t) \in Nat /\ Len(t) >= 1
           /\ SubSeq(t, 1, Len(t) - 1) \in Seq(S)
           /\ Len(SubSeq(t, 1, Len(t) - 1)) = Len(t) - 1
           /\ \A i \in 1..(Len(t) - 1) : SubSeq(t, 1, Len(t) - 1)[i] = t[i]
<1>1. PICK n \in Nat : Len(t) = n + 1
  <2>1. Len(t) \in Nat /\ Len(t) # 0
    OBVIOUS
  <2>2. Len(t) - 1 \in Nat /\ Len(t) = (Len(t) - 1) + 1
    BY <2>1
  <2> QED
    BY <2>2
<1>2. Len(t) - 1 = n /\ n <= Len(t)
  BY <1>1
<1>3. /\ SubSeq(t, 1, n) \in Seq(S) /\ Len(SubSeq(t, 1, n)) = n
      /\ \A i \in 1..n : SubSeq(t, 1, n)[i] = t[i]
  BY <1>2, PrefixOfSeq
<1> QED
  BY <1>1, <1>2, <1>3

\* The intended element is one of the screen.
LEMMA IntendedIsShown ==
    ASSUME NEW s \in Screens, Intended(s) # None
    PROVE  Intended(s) \in On(s) /\ Intended(s) \in Elements
<1>1. CriticalAt(s) # {} /\ CriticalAt(s) \in SUBSET Nat /\ CriticalAt(s) \subseteq DOMAIN Shows[s]
  BY GraphAssumption DEF Intended, CriticalAt
<1>2. PICK i \in CriticalAt(s) : \A k \in CriticalAt(s) : i <= k
  BY <1>1, LeastExists
<1>3. \E k \in CriticalAt(s) : Intended(s) = Shows[s][k]
  BY <1>1, <1>2 DEF Intended
<1> QED
  BY <1>1, <1>3, GraphAssumption DEF On

\* Screens show elements.
LEMMA ShownAreElements ==
    ASSUME NEW s \in Screens
    PROVE  On(s) \subseteq Elements
  BY GraphAssumption DEF On

-----------------------------------------------------------------------------
(* Progress. *)

\* What is matched is critical, and all of it is when the counts agree.
LEMMA MatchedIsCritical ==
    ASSUME NEW A \in SUBSET Elements
    PROVE  /\ Matched(A) \subseteq Critical
           /\ Cardinality(Matched(A)) \in Nat
           /\ Cardinality(Critical) \in Nat
           /\ Cardinality(Matched(A)) <= Cardinality(Critical)
           /\ Cardinality(Matched(A)) = Cardinality(Critical) => Matched(A) = Critical
<1>1. Matched(A) \subseteq Critical
  BY GraphAssumption DEF Matched
<1> QED
  BY <1>1, GraphAssumption, FS_Subset, FS_CardinalityType

\* The divisor of Share.
LEMMA CriticalIsCounted ==
    ASSUME Critical # {}
    PROVE  Cardinality(Critical) \in 1..99
<1>1. IsFiniteSet(Critical) /\ Cardinality(Critical) < 100
  BY GraphAssumption
<1>2. Cardinality(Critical) \in Nat /\ Cardinality(Critical) # 0
  BY <1>1, FS_CardinalityType, FS_EmptySet
<1> QED
  BY <1>1, <1>2

\* Acting on more elements never lowers the share of critical actions.
LEMMA ShareIsMonotone ==
    ASSUME NEW A \in SUBSET Elements, NEW B \in SUBSET Elements, A \subseteq B, Critical # {}
    PROVE  /\ (100 * Cardinality(Matched(A))) \div Cardinality(Critical) \in Nat
           /\ (100 * Cardinality(Matched(A))) \div Cardinality(Critical)
                <= (100 * Cardinality(Matched(B))) \div Cardinality(Critical)
<1> DEFINE a == Cardinality(Matched(A))
           b == Cardinality(Matched(B))
           c == Cardinality(Critical)
<1>1. IsFiniteSet(Matched(B))
  BY MatchedIsCritical, GraphAssumption, FS_Subset
<1>2. Matched(A) \subseteq Matched(B)
  BY DEF Matched
<1>3. a \in Nat /\ b \in Nat /\ a <= b
  BY <1>1, <1>2, FS_Subset, MatchedIsCritical
<1>4. c \in Nat /\ c > 0
  BY CriticalIsCounted
<1> HIDE DEF a, b, c
<1>5. 100 * a \in Nat /\ 100 * b \in Nat /\ 100 * a <= 100 * b
  BY <1>3
<1> QED
  BY <1>4, <1>5, DivIsMonotone DEF a, b, c

\* The screens visited are finitely many.
LEMMA VisitedIsCounted ==
    ASSUME NEW t \in Seq(Screens), NEW s
    PROVE  Cardinality({t[i] : i \in DOMAIN t} \cup {s}) \in Nat
<1> DEFINE T == {t[i] : i \in DOMAIN t}
           f == [i \in 1..Len(t) |-> t[i]]
<1>1. f \in Surjection(1..Len(t), T)
  <2>1. DOMAIN t = 1..Len(t)
    OBVIOUS
  <2>2. f \in [1..Len(t) -> T]
    BY <2>1
  <2>3. \A y \in T : \E i \in 1..Len(t) : f[i] = y
    BY <2>1
  <2> QED
    BY <2>2, <2>3 DEF Surjection
<1>2. IsFiniteSet(1..Len(t))
  BY FS_Interval
<1>3. IsFiniteSet(T)
  BY <1>1, <1>2, FS_Surjection
<1> QED
  BY <1>3, FS_AddElement, FS_CardinalityType

\* Whatever the study, progress is a percentage.
LEMMA ProgressInRange ==
    ASSUME TypeOK
    PROVE  Progress \in 0..100 /\ (Critical # {} => Share \in Nat)
<1>1. Critical # {} => Share \in Nat
  BY ShareIsMonotone DEF TypeOK, Share
<1>2. Cardinality({trail[i] : i \in DOMAIN trail} \cup {screen}) \in Nat
  BY VisitedIsCounted DEF TypeOK
<1> QED
  <2>1. CASE SuccessMet
    BY <1>1, <2>1 DEF Progress
  <2>2. CASE ~SuccessMet /\ Critical # {}
    BY <1>1, <2>2 DEF Progress, AtMost, Cap
  <2>3. CASE ~SuccessMet /\ Critical = {}
    BY <1>1, <1>2, <2>3 DEF Progress, AtMost
  <2> QED
    BY <2>1, <2>2, <2>3

\* 100 is the mark of success, or of every critical action where success is not defined.
LEMMA FullProgressIsEarned ==
    ASSUME TypeOK, Progress >= 100
    PROVE  IF HasSuccess THEN SuccessMet ELSE Critical # {} /\ Matched(acted) = Critical
<1>1. CASE SuccessMet
  BY <1>1 DEF SuccessMet
<1>2. CASE ~SuccessMet
  <2>1. Critical # {} /\ AtMost(Share, Cap) >= 100
    <3>1. Cardinality({trail[i] : i \in DOMAIN trail} \cup {screen}) \in Nat
      BY VisitedIsCounted DEF TypeOK
    <3> QED
      BY <1>2, <3>1 DEF Progress, AtMost, Cap
  <2>2. Share \in Nat
    BY <2>1, ProgressInRange
  <2>3. ~HasSuccess /\ Share >= 100
    BY <2>1, <2>2 DEF AtMost, Cap
  <2>4. acted \in SUBSET Elements
    BY DEF TypeOK
  <2>5. Cardinality(Matched(acted)) = Cardinality(Critical)
    BY <2>1, <2>3, <2>4, CriticalIsCounted, MatchedIsCritical, FullShare DEF Share
  <2> QED
    BY <2>1, <2>3, <2>4, <2>5, MatchedIsCritical
<1> QED
  BY <1>1, <1>2

-----------------------------------------------------------------------------
(* Events and the step budget. *)

\* What an event does to the log.
LEMMA EmitFields ==
    ASSUME TypeOK, NEW type \in Types, Emit(type)
    PROVE  /\ seqno' = seqno + 1 /\ seqno' \in Nat
           /\ log' \in [count : Nat, last : Types \cup {None},
                        entered : Places \cup {None}, gazes : Nat]
           /\ log'.count = log.count + 1 /\ log'.last = type /\ log'.entered = log.entered
           /\ log'.gazes = IF type = "GAZE" THEN log.gazes + 1 ELSE log.gazes
<1>1. /\ log = [count |-> log.count, last |-> log.last,
                 entered |-> log.entered, gazes |-> log.gazes]
      /\ log.count \in Nat /\ log.entered \in Places \cup {None} /\ log.gazes \in Nat
  BY DEF TypeOK
<1>2. log' = [count |-> log.count + 1, last |-> type, entered |-> log.entered,
              gazes |-> IF type = "GAZE" THEN log.gazes + 1 ELSE log.gazes]
  BY <1>1 DEF Emit
<1>3. (IF type = "GAZE" THEN log.gazes + 1 ELSE log.gazes) \in Nat
  BY <1>1
<1>4. seqno' = seqno + 1 /\ seqno' \in Nat
  BY DEF Emit, TypeOK
<1> QED
  BY <1>1, <1>2, <1>3, <1>4

\* What moving, or staying, does to the log and the scans.
LEMMA ArriveFields ==
    ASSUME TypeOK, NEW s \in Places, Arrive(s)
    PROVE  /\ screen' = s
           /\ seqno' \in Nat /\ (seqno = log.count => seqno' = log'.count)
           /\ log' \in [count : Nat, last : Types \cup {None},
                        entered : Places \cup {None}, gazes : Nat]
           /\ log'.last \in {"ACT", "SCREEN_ENTER"}
           /\ (log.entered = screen => log'.entered = s)
           /\ scan' \in Nat /\ (scan <= log.gazes => scan' <= log'.gazes)
<1>1. CASE s = screen
  BY <1>1, EmitFields DEF Arrive, TypeOK, Types
<1>2. CASE s # screen
  BY <1>2 DEF Arrive, TypeOK, Types
<1> QED
  BY <1>1, <1>2

\* The budget of supersteps grows by PerStep with each action.
LEMMA StepBudget ==
    ASSUME TypeOK
    PROVE  /\ PerStep \in Nat /\ PerStep = 6 + MaxScans
           /\ step * PerStep \in Nat /\ MaxSteps * PerStep \in Nat
           /\ step * PerStep <= MaxSteps * PerStep
           /\ step < MaxSteps => /\ (step + 1) * PerStep = step * PerStep + PerStep
                                 /\ step * PerStep + PerStep <= MaxSteps * PerStep
<1>1. PerStep \in Nat /\ PerStep = 6 + MaxScans
  BY GraphAssumption DEF PerStep
<1>2. step \in Nat /\ MaxSteps \in Nat /\ step <= MaxSteps
  BY GraphAssumption DEF TypeOK
<1>3. CASE step < MaxSteps
  BY <1>1, <1>2, <1>3, OneMoreStep
<1>4. CASE step = MaxSteps
  BY <1>1, <1>2, <1>4
<1> QED
  BY <1>2, <1>1, <1>3, <1>4

-----------------------------------------------------------------------------
(* One lemma per node. *)

\* One more scan, of at most m.
LEMMA OneMoreScan ==
    ASSUME NEW k \in Nat, NEW m \in Nat \ {0}, NEW b \in Nat, NEW n \in Nat,
           n <= 2 + b + AtMost(k, m - 1)
    PROVE  /\ n + 1 <= 2 + b + m
           /\ ~(k + 1 >= m) => n + 1 <= 2 + b + AtMost(k + 1, m - 1)
  BY DEF AtMost

\* The first event enters the screen; nothing was counted before it.
LEMMA OrientKeeps ==
    ASSUME WalkInv, Orient
    PROVE  WalkInv'
<1> USE GraphAssumption DEF WalkInv, Orient,
        Goto, place, verdict, events, Nodes, Over
<1>0. log' = [count |-> 1, last |-> "SCREEN_ENTER", entered |-> screen', gazes |-> 0]
  OBVIOUS
<1>1. TypeOK'
  BY DEF TypeOK, Actions, Reasons, Types, Places
<1>2. WalkIsOpen' /\ StartIsFresh'
  BY DEF WalkIsOpen, StartIsFresh
<1>3. ScreenIsKnown'
  BY DEF ScreenIsKnown, TypeOK
<1>4. GateHolds'
  BY DEF GateHolds
<1>5. ScansAreGazes'
  BY <1>0 DEF ScansAreGazes, StartIsFresh
<1>6. DoubtIsBounded'
  BY DEF DoubtIsBounded
<1>7. ProgressIsCurrent'
  BY DEF ProgressIsCurrent, Share
<1>8. StepsAreCounted'
  BY StepBudget DEF StepsAreCounted, PerStep, StartIsFresh
<1>9. LogFollowsState'
  BY <1>0 DEF LogFollowsState, WalkIsOpen, StartIsFresh
<1>10. CompletionIsEarned'
  BY DEF CompletionIsEarned, WalkIsOpen, SuccessMet
<1>11. ScansArePerScreen'
  BY DEF ScansArePerScreen, WalkIsOpen, TypeOK, Reasons
<1>12. FirstCriticalOnly'
  BY DEF FirstCriticalOnly
<1>13. TrailIsWalkable'
  BY DEF TrailIsWalkable
<1>14. PatienceNeedsBareScreen'
  BY DEF PatienceNeedsBareScreen, WalkIsOpen
<1> QED
  BY <1>1, <1>2, <1>3, <1>4, <1>5, <1>6, <1>7, <1>8, <1>9, <1>10, <1>11, <1>12, <1>13, <1>14

\* The screen is known here, so the walk goes on.
LEMMA PerceiveKeeps ==
    ASSUME WalkInv, Perceive
    PROVE  WalkInv'
<1> USE GraphAssumption DEF WalkInv, Perceive,
        Goto, place, verdict, events, Nodes, Over
<1>1. TypeOK'
  BY DEF TypeOK, End, Actions, Reasons, Types, Places
<1>2. WalkIsOpen' /\ StartIsFresh'
  BY DEF WalkIsOpen, StartIsFresh, End
<1>3. ScreenIsKnown'
  BY DEF ScreenIsKnown, TypeOK, End
<1>4. GateHolds'
  BY DEF GateHolds, End
<1>5. ScansAreGazes'
  BY DEF ScansAreGazes, TypeOK, End
<1>6. DoubtIsBounded'
  BY DEF DoubtIsBounded, End
<1>7. ProgressIsCurrent'
  BY DEF ProgressIsCurrent, End, Share
<1>8. StepsAreCounted'
  BY StepBudget DEF StepsAreCounted, PerStep, ScreenIsKnown, TypeOK, AtMost
<1>9. LogFollowsState'
  BY DEF LogFollowsState, WalkIsOpen, TypeOK, End
<1>10. CompletionIsEarned'
  BY DEF CompletionIsEarned, WalkIsOpen, SuccessMet, End
<1>11. ScansArePerScreen'
  BY DEF ScansArePerScreen, WalkIsOpen, End
<1>12. FirstCriticalOnly'
  BY DEF FirstCriticalOnly, End
<1>13. TrailIsWalkable'
  BY DEF TrailIsWalkable, End
<1>14. PatienceNeedsBareScreen'
  BY DEF PatienceNeedsBareScreen, WalkIsOpen, End
<1> QED
  BY <1>1, <1>2, <1>3, <1>4, <1>5, <1>6, <1>7, <1>8, <1>9, <1>10, <1>11, <1>12, <1>13, <1>14

\* On a gated screen a scan is a gaze, and only MaxScans of them lead back here.
LEMMA AttendKeeps ==
    ASSUME WalkInv, Attend
    PROVE  WalkInv'
<1> USE GraphAssumption DEF WalkInv, Attend,
        Goto, place, verdict, events, Nodes, Over
<1>a. /\ screen \in Screens /\ outcome = "IN_PROGRESS" /\ reason = None
      /\ seqno = log.count /\ log.entered = screen
      /\ scan \in Nat /\ log.gazes \in Nat /\ scan <= log.gazes
  BY DEF ScreenIsKnown, WalkIsOpen, LogFollowsState, TypeOK, ScansAreGazes
<1>b. Intended(screen) # None => On(screen) # {}
  BY <1>a, IntendedIsShown
<1>c. /\ seqno' \in Nat /\ seqno' = log'.count
      /\ log' \in [count : Nat, last : Types \cup {None},
                   entered : Places \cup {None}, gazes : Nat]
      /\ log'.last \notin {"TASK_SUCCESS", "TASK_FAILURE", "ABANDON"}
      /\ log'.entered = screen
      /\ log'.gazes >= log.gazes
      /\ On(screen) # {} => log'.gazes = log.gazes + 1
  <2>1. CASE On(screen) = {}
    BY <1>a, <2>1 DEF LogFollowsState, TypeOK
  <2>2. CASE On(screen) # {}
    BY <1>a, <2>2, EmitFields DEF Types
  <2> QED
    BY <2>1, <2>2
<1>d. \/ /\ Intended(screen) # None /\ scan' = scan + 1
         /\ \/ node' = "act_on_intended"
            \/ node' = "scan_exhausted" /\ scan' >= MaxScans
            \/ node' = "attend" /\ ~(scan' >= MaxScans)
      \/ Intended(screen) = None /\ scan' = scan /\ node' = "interpret"
  BY DEF AfterScan
<1>e. supersteps' = supersteps + 1
  OBVIOUS
<1> USE <1>a, <1>b, <1>c, <1>d, <1>e
<1>1. TypeOK'
  BY DEF TypeOK
<1>2. WalkIsOpen' /\ StartIsFresh'
  BY DEF WalkIsOpen, StartIsFresh
<1>3. ScreenIsKnown'
  BY DEF ScreenIsKnown
<1>4. GateHolds'
  BY DEF GateHolds
<1>5. ScansAreGazes'
  BY DEF ScansAreGazes
<1>6. DoubtIsBounded'
  BY DEF DoubtIsBounded
<1>7. ProgressIsCurrent'
  BY DEF ProgressIsCurrent, Share, Matched
<1>8. StepsAreCounted'
  <2>1. /\ supersteps <= 2 + step * PerStep + AtMost(scan, MaxScans - 1)
        /\ supersteps \in Nat /\ step' = step
    BY DEF StepsAreCounted, TypeOK
  <2>2. step * PerStep \in Nat /\ MaxScans \in Nat \ {0}
    BY StepBudget
  <2> HIDE GraphAssumption DEF WalkInv, Attend
  <2>3. /\ supersteps' <= 2 + step * PerStep + MaxScans
        /\ ~(scan + 1 >= MaxScans) =>
             supersteps' <= 2 + step * PerStep + AtMost(scan + 1, MaxScans - 1)
    BY <2>1, <2>2, OneMoreScan
  <2> QED
    BY <2>1, <2>3 DEF StepsAreCounted
<1>9. LogFollowsState'
  BY DEF LogFollowsState
<1>10. CompletionIsEarned'
  BY DEF CompletionIsEarned, WalkIsOpen, SuccessMet
<1>11. ScansArePerScreen'
  BY DEF ScansArePerScreen, TypeOK
<1>12. FirstCriticalOnly'
  BY DEF FirstCriticalOnly
<1>13. TrailIsWalkable'
  BY DEF TrailIsWalkable
<1>14. PatienceNeedsBareScreen'
  BY DEF PatienceNeedsBareScreen, WalkIsOpen
<1> QED
  BY <1>1, <1>2, <1>3, <1>4, <1>5, <1>6, <1>7, <1>8, <1>9, <1>10, <1>11, <1>12, <1>13, <1>14

\* The first critical element is on the screen, so acting on it keeps the gate.
LEMMA ActOnIntendedKeeps ==
    ASSUME WalkInv, ActOnIntended
    PROVE  WalkInv'
<1> USE GraphAssumption DEF WalkInv, ActOnIntended,
        Goto, place, verdict, events, Nodes, Over
<1>0. /\ screen \in Screens /\ Intended(screen) # None
      /\ Intended(screen) \in On(screen) /\ Intended(screen) \in Elements
      /\ Kind[Intended(screen)] \in {"CLICK", "TYPE", "SELECT"}
  BY IntendedIsShown DEF ScreenIsKnown, GateHolds
<1>1. TypeOK'
  BY <1>0 DEF TypeOK, Actions
<1>2. WalkIsOpen' /\ StartIsFresh'
  BY DEF WalkIsOpen, StartIsFresh
<1>3. ScreenIsKnown'
  BY DEF ScreenIsKnown, TypeOK
<1>4. GateHolds'
  BY <1>0 DEF GateHolds, Actions
<1>5. ScansAreGazes'
  BY DEF ScansAreGazes, TypeOK
<1>6. DoubtIsBounded'
  BY DEF DoubtIsBounded
<1>7. ProgressIsCurrent'
  BY DEF ProgressIsCurrent, Share
<1>8. StepsAreCounted'
  BY DEF StepsAreCounted, TypeOK, PerStep, AtMost
<1>9. LogFollowsState'
  BY DEF LogFollowsState, WalkIsOpen, TypeOK
<1>10. CompletionIsEarned'
  BY DEF CompletionIsEarned, WalkIsOpen, SuccessMet
<1>11. ScansArePerScreen'
  BY DEF ScansArePerScreen, WalkIsOpen
<1>12. FirstCriticalOnly'
  BY DEF FirstCriticalOnly
<1>13. TrailIsWalkable'
  BY DEF TrailIsWalkable
<1>14. PatienceNeedsBareScreen'
  BY DEF PatienceNeedsBareScreen, WalkIsOpen
<1> QED
  BY <1>1, <1>2, <1>3, <1>4, <1>5, <1>6, <1>7, <1>8, <1>9, <1>10, <1>11, <1>12, <1>13, <1>14

\* MaxScans scans were made, each of them a gaze on this visit.
LEMMA ScanExhaustedKeeps ==
    ASSUME WalkInv, ScanExhausted
    PROVE  WalkInv'
<1> USE GraphAssumption DEF WalkInv, ScanExhausted,
        Goto, place, verdict, events, Nodes, Over
<1>0. /\ seqno' = seqno + 1 /\ seqno' \in Nat
      /\ log' \in [count : Nat, last : Types \cup {None},
                   entered : Places \cup {None}, gazes : Nat]
      /\ log'.count = log.count + 1 /\ log'.last = "ABANDON"
      /\ log'.entered = log.entered /\ log'.gazes = log.gazes
  BY EmitFields DEF Types
<1>1. TypeOK'
  BY <1>0 DEF TypeOK, End, Reasons
<1>2. WalkIsOpen' /\ StartIsFresh'
  BY DEF WalkIsOpen, StartIsFresh, End
<1>3. ScreenIsKnown'
  BY DEF ScreenIsKnown, TypeOK, End
<1>4. GateHolds'
  BY DEF GateHolds, End
<1>5. ScansAreGazes'
  BY <1>0 DEF ScansAreGazes, End
<1>6. DoubtIsBounded'
  BY DEF DoubtIsBounded, End
<1>7. ProgressIsCurrent'
  BY DEF ProgressIsCurrent, End, Share
<1>8. StepsAreCounted'
  BY StepBudget DEF StepsAreCounted, PerStep, ScreenIsKnown, TypeOK, End
<1>9. LogFollowsState'
  BY <1>0 DEF LogFollowsState, End
<1>10. CompletionIsEarned'
  BY DEF CompletionIsEarned, WalkIsOpen, SuccessMet, End
<1>11. ScansArePerScreen'
  BY <1>0 DEF ScansArePerScreen, ScansAreGazes, TypeOK, End
<1>12. FirstCriticalOnly'
  BY DEF FirstCriticalOnly, End
<1>13. TrailIsWalkable'
  BY DEF TrailIsWalkable, End
<1>14. PatienceNeedsBareScreen'
  BY DEF PatienceNeedsBareScreen, WalkIsOpen, End
<1> QED
  BY <1>1, <1>2, <1>3, <1>4, <1>5, <1>6, <1>7, <1>8, <1>9, <1>10, <1>11, <1>12, <1>13, <1>14

\* A screen with elements sets uncertainty afresh.
LEMMA InterpretKeeps ==
    ASSUME WalkInv, Interpret
    PROVE  WalkInv'
<1> USE GraphAssumption DEF WalkInv, Interpret, Doubt,
        Goto, place, verdict, events, Nodes, Over
<1>1. TypeOK'
  <2>1. uncertainty' \in 0..10
    BY DEF TypeOK
  <2> QED
    BY <2>1 DEF TypeOK
<1>2. WalkIsOpen' /\ StartIsFresh'
  BY DEF WalkIsOpen, StartIsFresh
<1>3. ScreenIsKnown'
  BY DEF ScreenIsKnown, TypeOK
<1>4. GateHolds'
  BY DEF GateHolds
<1>5. ScansAreGazes'
  BY DEF ScansAreGazes, TypeOK
<1>6. DoubtIsBounded'
  <2> SUFFICES ASSUME \A s \in Screens : Shows[s] # <<>>
               PROVE  uncertainty' <= 6
    BY DEF DoubtIsBounded
  <2>1. On(screen) # {}
    <3>1. Shows[screen] \in Seq(Elements) /\ Shows[screen] # <<>>
      BY DEF ScreenIsKnown
    <3>2. Shows[screen][1] \in On(screen)
      BY <3>1 DEF On
    <3> QED
      BY <3>2
  <2> QED
    BY <2>1
<1>7. ProgressIsCurrent'
  BY DEF ProgressIsCurrent, Share
<1>8. StepsAreCounted'
  BY DEF StepsAreCounted, TypeOK, PerStep, AtMost
<1>9. LogFollowsState'
  BY DEF LogFollowsState, WalkIsOpen, TypeOK
<1>10. CompletionIsEarned'
  BY DEF CompletionIsEarned, WalkIsOpen, SuccessMet
<1>11. ScansArePerScreen'
  BY DEF ScansArePerScreen, WalkIsOpen
<1>12. FirstCriticalOnly'
  BY DEF FirstCriticalOnly
<1>13. TrailIsWalkable'
  BY DEF TrailIsWalkable
<1>14. PatienceNeedsBareScreen'
  BY DEF PatienceNeedsBareScreen, WalkIsOpen
<1> QED
  BY <1>1, <1>2, <1>3, <1>4, <1>5, <1>6, <1>7, <1>8, <1>9, <1>10, <1>11, <1>12, <1>13, <1>14

\* Candidates are on the screen, which is not gated.
LEMMA SelectActionKeeps ==
    ASSUME WalkInv, SelectAction
    PROVE  WalkInv'
<1> USE GraphAssumption DEF WalkInv, SelectAction, Candidates,
        Goto, place, verdict, events, Nodes, Over
<1>1. TypeOK'
  BY DEF TypeOK, Actions, Reasons, Types, Places
<1>2. WalkIsOpen' /\ StartIsFresh'
  BY DEF WalkIsOpen, StartIsFresh
<1>3. ScreenIsKnown'
  BY DEF ScreenIsKnown, TypeOK
<1>4. GateHolds'
  <2>1. screen \in Screens /\ Intended(screen) = None
    BY DEF ScreenIsKnown, GateHolds
  <2> QED
    BY <2>1, ShownAreElements DEF GateHolds, TypeOK, Actions
<1>5. ScansAreGazes'
  BY DEF ScansAreGazes, TypeOK
<1>6. DoubtIsBounded'
  BY DEF DoubtIsBounded
<1>7. ProgressIsCurrent'
  BY DEF ProgressIsCurrent, Share
<1>8. StepsAreCounted'
  BY DEF StepsAreCounted, TypeOK, PerStep, AtMost
<1>9. LogFollowsState'
  BY DEF LogFollowsState, WalkIsOpen, TypeOK
<1>10. CompletionIsEarned'
  BY DEF CompletionIsEarned, WalkIsOpen, SuccessMet
<1>11. ScansArePerScreen'
  BY DEF ScansArePerScreen, WalkIsOpen
<1>12. FirstCriticalOnly'
  BY DEF FirstCriticalOnly
<1>13. TrailIsWalkable'
  BY DEF TrailIsWalkable
<1>14. PatienceNeedsBareScreen'
  BY DEF PatienceNeedsBareScreen, WalkIsOpen
<1> QED
  BY <1>1, <1>2, <1>3, <1>4, <1>5, <1>6, <1>7, <1>8, <1>9, <1>10, <1>11, <1>12, <1>13, <1>14

\* The participant moves along a transition, back along the trail, or stays.
LEMMA ExecuteActionKeeps ==
    ASSUME WalkInv, ExecuteAction
    PROVE  WalkInv'
<1> USE GraphAssumption DEF WalkInv, ExecuteAction,
        Goto, place, verdict, events, Nodes, Over
<1>a. /\ screen \in Screens /\ step \in Nat /\ step < MaxSteps
      /\ outcome = "IN_PROGRESS" /\ reason = None
      /\ seqno = log.count /\ log.entered = screen
  BY DEF ScreenIsKnown, WalkIsOpen, LogFollowsState, TypeOK
<1>b. /\ action \in Actions
      /\ action.kind = "BACK" => backtracks < 3
      /\ action.target # None => action.target \in On(screen)
      /\ Intended(screen) # None => action.target = Intended(screen)
  BY DEF GateHolds
<1>c. PICK s \in Places :
        /\ Arrive(s)
        /\ \/ /\ trail' = Append(trail, screen) /\ backtracks' = backtracks
              /\ \E e \in On(screen) : Leads[screen][e] = s
           \/ /\ trail # <<>> /\ trail' = SubSeq(trail, 1, Len(trail) - 1)
              /\ s = trail[Len(trail)] /\ backtracks' = backtracks + 1 /\ backtracks < 3
           \/ trail' = trail /\ s = screen /\ backtracks' = backtracks
  <2>1. CASE Follow
    <3>1. action.target \in On(screen) /\ action.target \in Elements
      BY <1>a, <1>b, <2>1, ShownAreElements DEF Follow, Presses
    <3>2. Target \in Places
      BY <1>a, <2>1, <3>1 DEF Follow, Target
    <3> QED
      BY <2>1, <3>1, <3>2 DEF Follow, Target
  <2>2. CASE HitDeadEnd
    BY <1>a, <2>2 DEF HitDeadEnd, Places
  <2>3. CASE GoBack
    <3>1. trail[Len(trail)] \in Screens
      BY <2>3 DEF GoBack, TypeOK
    <3> QED
      BY <1>b, <2>3, <3>1 DEF GoBack, Places
  <2>4. CASE StayPut
    BY <1>a, <2>4 DEF StayPut, Places
  <2> QED
    BY <2>1, <2>2, <2>3, <2>4
<1>d. deadEnds' \in Nat
  BY DEF TypeOK, Follow, HitDeadEnd, GoBack, StayPut
<1>e. /\ screen' = s
      /\ seqno' \in Nat /\ seqno' = log'.count
      /\ log' \in [count : Nat, last : Types \cup {None},
                   entered : Places \cup {None}, gazes : Nat]
      /\ log'.last \in {"ACT", "SCREEN_ENTER"} /\ log'.entered = s
      /\ scan' \in Nat /\ scan' <= log'.gazes
  BY <1>a, <1>c, ArriveFields DEF ScansAreGazes
<1>f. /\ acted \subseteq acted' /\ acted' \in SUBSET Elements
      /\ acted' \subseteq acted \cup ({action.target} \ {None})
  BY <1>b DEF Acted, Actions, TypeOK
<1>g. /\ node' = "update_state" /\ supersteps' = supersteps + 1 /\ step' = step + 1
      /\ uncertainty' = uncertainty /\ progress' = progress /\ action' = action
      /\ outcome' = outcome /\ reason' = reason
  OBVIOUS
<1> HIDE DEF ExecuteAction
<1>1. TypeOK'
  <2>0. trail \in Seq(Screens) /\ Len(trail) \in Nat /\ backtracks \in 0..3
    BY DEF TypeOK
  <2>1. trail' \in Seq(Screens)
    <3>1. CASE trail' = Append(trail, screen)
      BY <1>a, <2>0, <3>1
    <3>2. CASE trail # <<>> /\ trail' = SubSeq(trail, 1, Len(trail) - 1)
      BY <2>0, <3>2, FrontOfSeq
    <3>3. CASE trail' = trail
      BY <2>0, <3>3
    <3> QED
      BY <1>c, <3>1, <3>2, <3>3
  <2>2. backtracks' \in 0..3
    <3> HIDE GraphAssumption DEF WalkInv
    <3> QED
      BY <1>c, <2>0
  <2>3. /\ node' \in Nodes /\ step' \in 0..MaxSteps
        /\ uncertainty' \in 0..10 /\ progress' \in 0..100 /\ action' \in Actions \cup {None}
        /\ outcome' \in {"IN_PROGRESS", "COMPLETED", "FAILED", "ABANDONED"}
        /\ reason' \in Reasons \cup {None} /\ supersteps' \in Nat
    BY <1>a, <1>g DEF TypeOK
  <2>4. /\ screen' \in Places /\ scan' \in Nat /\ deadEnds' \in Nat
        /\ acted' \in SUBSET Elements /\ seqno' \in Nat
        /\ log' \in [count : Nat, last : Types \cup {None},
                     entered : Places \cup {None}, gazes : Nat]
    BY <1>d, <1>e, <1>f
  <2> HIDE DEF Nodes, Over
  <2> QED
    BY <2>1, <2>2, <2>3, <2>4 DEF TypeOK
<1>2. WalkIsOpen' /\ StartIsFresh'
  BY <1>a, <1>g DEF WalkIsOpen, StartIsFresh
<1>3. ScreenIsKnown' /\ GateHolds'
  BY <1>g DEF ScreenIsKnown, GateHolds
<1>4. ScansAreGazes'
  BY <1>e, <1>g DEF ScansAreGazes
<1>5. DoubtIsBounded'
  BY <1>g DEF DoubtIsBounded
<1>6. ProgressIsCurrent'
  <2> SUFFICES ASSUME Critical # {}
               PROVE  progress <= AtMost(Share', Cap)
    BY <1>g DEF ProgressIsCurrent, AtMost, Cap
  <2>1. Share \in Nat /\ Share' \in Nat /\ Share <= Share'
    BY <1>f, ShareIsMonotone DEF Share, TypeOK
  <2>2. progress <= AtMost(Share, Cap) /\ progress \in 0..100
    BY <1>f DEF ProgressIsCurrent, ExecuteAction, TypeOK
  <2> QED
    BY <2>1, <2>2 DEF AtMost, Cap
<1>7. StepsAreCounted'
  BY <1>a, <1>g, StepBudget DEF StepsAreCounted, PerStep, ExecuteAction, TypeOK
<1>8. LogFollowsState'
  BY <1>a, <1>e, <1>g DEF LogFollowsState
<1>9. CompletionIsEarned' /\ ScansArePerScreen' /\ PatienceNeedsBareScreen'
  BY <1>a, <1>g DEF CompletionIsEarned, ScansArePerScreen, PatienceNeedsBareScreen, Reasons
<1>10. FirstCriticalOnly'
  <2> SUFFICES ASSUME NEW t \in Screens, Intended(t) # None, NEW e \in acted', e \in On(t)
               PROVE  e = Intended(t)
    BY DEF FirstCriticalOnly
  <2>1. CASE e \in acted
    BY <2>1 DEF FirstCriticalOnly
  <2>2. CASE e \notin acted
    <3>1. e = action.target /\ e \in On(screen)
      BY <1>b, <1>f, <2>2
    <3>2. t = screen
      BY <1>a, <3>1
    <3> QED
      BY <1>b, <3>1, <3>2
  <2> QED
    BY <2>1, <2>2
<1>11. TrailIsWalkable'
  <2> DEFINE walk == Append(trail, screen)
  <2>1. /\ trail \in Seq(Screens) /\ screen \in Screens /\ Len(trail) \in Nat
        /\ walk[1] \in Starts
        /\ \A i \in 1..Len(trail) : \E e \in On(walk[i]) : Leads[walk[i]][e] = walk[i + 1]
    BY <1>a DEF TrailIsWalkable, TypeOK
  <2>2. CASE trail' = Append(trail, screen) /\ \E e \in On(screen) : Leads[screen][e] = s
    <3>1. trail' = walk /\ Len(trail') = Len(trail) + 1
      BY <2>1, <2>2
    <3>2. Append(trail', s)[1] = walk[1]
      BY <2>1, <2>2
    <3>3. ASSUME NEW i \in 1..Len(trail')
          PROVE  \E e \in On(Append(trail', s)[i]) :
                   Leads[Append(trail', s)[i]][e] = Append(trail', s)[i + 1]
      <4>1. CASE i \in 1..Len(trail)
        <5>1. Append(trail', s)[i] = walk[i] /\ Append(trail', s)[i + 1] = walk[i + 1]
          BY <2>1, <3>1, <4>1
        <5> QED
          BY <2>1, <4>1, <5>1
      <4>2. CASE i = Len(trail) + 1
        <5>1. Append(trail', s)[i] = screen /\ Append(trail', s)[i + 1] = s
          BY <2>1, <3>1, <4>2
        <5> QED
          BY <2>2, <5>1
      <4>3. i \in 1..Len(trail) + 1
        BY <3>1
      <4>4. i \in 1..Len(trail) \/ i = Len(trail) + 1
        BY <2>1, <4>3
      <4> QED
        BY <4>1, <4>2, <4>4
    <3> QED
      BY <1>e, <2>1, <3>2, <3>3 DEF TrailIsWalkable
  <2>3. CASE /\ trail # <<>> /\ trail' = SubSeq(trail, 1, Len(trail) - 1)
             /\ s = trail[Len(trail)]
    <3>1. /\ trail' \in Seq(Screens) /\ Len(trail) >= 1 /\ Len(trail') = Len(trail) - 1
          /\ \A i \in 1..Len(trail') : trail'[i] = trail[i]
      BY <2>1, <2>3, FrontOfSeq
    <3>2. \A i \in 1..Len(trail) : Append(trail', s)[i] = walk[i]
      BY <2>1, <2>3, <3>1
    <3>3. Append(trail', s)[1] \in Starts
      BY <2>1, <3>1, <3>2
    <3>4. ASSUME NEW i \in 1..Len(trail')
          PROVE  \E e \in On(Append(trail', s)[i]) :
                   Leads[Append(trail', s)[i]][e] = Append(trail', s)[i + 1]
      <4>1. i \in 1..Len(trail) /\ i + 1 \in 1..Len(trail)
        BY <2>1, <3>1
      <4>2. Append(trail', s)[i] = walk[i] /\ Append(trail', s)[i + 1] = walk[i + 1]
        BY <3>2, <4>1
      <4> QED
        BY <2>1, <4>1, <4>2
    <3> QED
      BY <1>e, <3>3, <3>4 DEF TrailIsWalkable
  <2>4. CASE trail' = trail /\ s = screen
    BY <1>e, <2>4 DEF TrailIsWalkable
  <2> QED
    BY <1>c, <2>2, <2>3, <2>4
<1> QED
  BY <1>1, <1>2, <1>3, <1>4, <1>5, <1>6, <1>7, <1>8, <1>9, <1>10, <1>11

\* Progress becomes current; a change of it is an event.
LEMMA UpdateStateKeeps ==
    ASSUME WalkInv, UpdateState
    PROVE  WalkInv'
<1> USE GraphAssumption DEF WalkInv, UpdateState,
        Goto, place, verdict, events, Nodes, Over
<1>0. /\ Progress \in 0..100 /\ Progress' = Progress
      /\ seqno' \in Nat /\ seqno' = log'.count
      /\ log' \in [count : Nat, last : Types \cup {None},
                   entered : Places \cup {None}, gazes : Nat]
      /\ log'.last \notin {"TASK_SUCCESS", "TASK_FAILURE", "ABANDON"}
      /\ log'.entered = screen /\ log'.gazes = log.gazes
  <2>1. Progress \in 0..100
    BY ProgressInRange
  <2>2. Progress' = Progress
    BY DEF Progress, Share, SuccessMet
  <2>3. /\ seqno = log.count /\ log.entered = screen
        /\ log.last \notin {"TASK_SUCCESS", "TASK_FAILURE", "ABANDON"}
    BY DEF LogFollowsState, WalkIsOpen
  <2>4. CASE progress' = progress
    BY <2>1, <2>2, <2>3, <2>4 DEF TypeOK
  <2>5. CASE progress' # progress
    BY <2>1, <2>2, <2>3, <2>5, EmitFields DEF Types
  <2> QED
    BY <2>4, <2>5
<1>1. TypeOK'
  BY <1>0 DEF TypeOK
<1>2. WalkIsOpen' /\ StartIsFresh'
  BY DEF WalkIsOpen, StartIsFresh
<1>3. ScreenIsKnown'
  BY DEF ScreenIsKnown, TypeOK
<1>4. GateHolds'
  BY DEF GateHolds
<1>5. ScansAreGazes'
  BY <1>0 DEF ScansAreGazes
<1>6. DoubtIsBounded'
  BY DEF DoubtIsBounded
<1>7. ProgressIsCurrent'
  BY <1>0 DEF ProgressIsCurrent
<1>8. StepsAreCounted'
  BY DEF StepsAreCounted, TypeOK, PerStep, AtMost
<1>9. LogFollowsState'
  BY <1>0 DEF LogFollowsState, WalkIsOpen
<1>10. CompletionIsEarned'
  BY DEF CompletionIsEarned, WalkIsOpen, SuccessMet
<1>11. ScansArePerScreen'
  BY DEF ScansArePerScreen, WalkIsOpen, TypeOK, Reasons
<1>12. FirstCriticalOnly'
  BY DEF FirstCriticalOnly
<1>13. TrailIsWalkable'
  BY DEF TrailIsWalkable
<1>14. PatienceNeedsBareScreen'
  BY DEF PatienceNeedsBareScreen, WalkIsOpen
<1> QED
  BY <1>1, <1>2, <1>3, <1>4, <1>5, <1>6, <1>7, <1>8, <1>9, <1>10, <1>11, <1>12, <1>13, <1>14

\* Ends the walk with its last event, or has a step left.
LEMMA CheckTaskKeeps ==
    ASSUME WalkInv, CheckTask
    PROVE  WalkInv'
<1> USE GraphAssumption DEF WalkInv, CheckTask, OutOfSteps,
        Goto, place, verdict, events, Nodes, Over
<1>a. /\ node = "check_task" /\ progress = Progress /\ progress \in 0..100 /\ seqno = log.count
      /\ log.entered = screen /\ outcome = "IN_PROGRESS" /\ reason = None
      /\ log.last \notin {"TASK_SUCCESS", "TASK_FAILURE", "ABANDON"}
  BY DEF ProgressIsCurrent, LogFollowsState, WalkIsOpen, TypeOK
<1>b. \/ progress >= 100 /\ Emit("TASK_SUCCESS") /\ End("COMPLETED", None)
      \/ ~(progress >= 100) /\ Emit("ABANDON") /\ End("ABANDONED", "max_steps_exceeded")
      \/ ~(progress >= 100) /\ Emit("TASK_FAILURE") /\ End("FAILED", "dead_end_no_actions")
      \/ /\ ~(progress >= 100) /\ Impatient
         /\ Emit("ABANDON") /\ End("ABANDONED", "low_patience_high_uncertainty")
      \/ /\ ~(progress >= 100) /\ events' = events /\ verdict' = verdict
         /\ \/ Goto("crashed")
            \/ Goto("perceive") /\ screen \in Screens /\ step < MaxSteps
  BY DEF TypeOK
<1>c. /\ screen' = screen /\ trail' = trail /\ deadEnds' = deadEnds
      /\ backtracks' = backtracks /\ scan' = scan /\ uncertainty' = uncertainty
      /\ progress' = progress /\ action' = action /\ acted' = acted /\ step' = step
      /\ supersteps' = supersteps + 1
  BY DEF End
<1>d. /\ seqno' \in Nat /\ seqno' = log'.count
      /\ log' \in [count : Nat, last : Types \cup {None},
                   entered : Places \cup {None}, gazes : Nat]
      /\ log'.entered = screen /\ log'.gazes = log.gazes
  <2>1. CASE \E type \in Types : Emit(type) /\ type # "GAZE"
    BY <1>a, <2>1, EmitFields
  <2>2. CASE events' = events
    BY <1>a, <2>2 DEF TypeOK
  <2> QED
    BY <1>b, <2>1, <2>2 DEF Types
<1>e. \/ /\ node' = "end" /\ progress >= 100 /\ log'.last = "TASK_SUCCESS"
         /\ outcome' = "COMPLETED" /\ reason' = None
      \/ /\ node' = "end" /\ log'.last = "TASK_FAILURE"
         /\ outcome' = "FAILED" /\ reason' = "dead_end_no_actions"
      \/ /\ node' = "end" /\ log'.last = "ABANDON" /\ outcome' = "ABANDONED"
         /\ \/ reason' = "max_steps_exceeded"
            \/ reason' = "low_patience_high_uncertainty" /\ Impatient
      \/ /\ ~(progress >= 100)
         /\ log'.last \notin {"TASK_SUCCESS", "TASK_FAILURE", "ABANDON"}
         /\ outcome' = "IN_PROGRESS" /\ reason' = None
         /\ \/ node' = "crashed"
            \/ node' = "perceive" /\ screen \in Screens /\ step < MaxSteps
  BY <1>a, <1>b, EmitFields DEF Types, End
<1> HIDE DEF CheckTask
<1>1. TypeOK'
  BY <1>c, <1>d, <1>e DEF TypeOK, Reasons
<1>2. WalkIsOpen' /\ StartIsFresh'
  BY <1>e DEF WalkIsOpen, StartIsFresh
<1>3. ScreenIsKnown'
  BY <1>c, <1>e DEF ScreenIsKnown
<1>4. GateHolds'
  BY <1>e DEF GateHolds
<1>5. ScansAreGazes'
  BY <1>c, <1>d, <1>e DEF ScansAreGazes
<1>6. DoubtIsBounded'
  BY <1>c DEF DoubtIsBounded
<1>7. ProgressIsCurrent'
  <2> SUFFICES ASSUME ~(progress >= 100), Critical # {}
               PROVE  progress <= AtMost(Share, Cap)
    BY <1>c, <1>e DEF ProgressIsCurrent, Share
  <2>1. ~SuccessMet
    BY <1>a DEF Progress
  <2>2. Progress = AtMost(Share, Cap)
    BY <2>1 DEF Progress
  <2> QED
    BY <1>a, <2>2
<1>8. StepsAreCounted'
  BY <1>a, <1>c, <1>e, StepBudget DEF StepsAreCounted, PerStep, TypeOK
<1>9. LogFollowsState'
  BY <1>c, <1>d, <1>e DEF LogFollowsState
<1>10. CompletionIsEarned'
  BY <1>a, <1>c, <1>e, FullProgressIsEarned DEF CompletionIsEarned, SuccessMet
<1>11. ScansArePerScreen'
  BY <1>e DEF ScansArePerScreen, Reasons
<1>12. FirstCriticalOnly'
  BY <1>c DEF FirstCriticalOnly
<1>13. TrailIsWalkable'
  BY <1>c DEF TrailIsWalkable
<1>14. PatienceNeedsBareScreen'
  <2> SUFFICES ASSUME \A s \in Screens : Shows[s] # <<>>, Impatient
               PROVE  FALSE
    BY <1>e DEF PatienceNeedsBareScreen, Reasons
  <2>1. uncertainty \in 0..6 /\ Patience \in 0..10
    BY DEF DoubtIsBounded, TypeOK
  <2>2. 4 * uncertainty * (10 - Patience) <= 240
    BY <2>1, PressureIsBounded
  <2>3. 10 * AtMost(deadEnds, 4) <= 40
    BY DEF AtMost, TypeOK
  <2> QED
    BY <2>1, <2>2, <2>3 DEF Impatient, AtMost, TypeOK
<1> QED
  BY <1>1, <1>2, <1>3, <1>4, <1>5, <1>6, <1>7, <1>8, <1>9, <1>10, <1>11, <1>12, <1>13, <1>14

-----------------------------------------------------------------------------
(* Theorems. *)

\* The walk begins in the invariant.
LEMMA InitEstablishes == Init => WalkInv
<1> SUFFICES ASSUME Init PROVE WalkInv
  OBVIOUS
<1> USE GraphAssumption DEF Init
<1>1. TypeOK /\ ScreenIsKnown /\ StartIsFresh
  <2>1. log \in [count : Nat, last : Types \cup {None}, entered : Places \cup {None}, gazes : Nat]
    OBVIOUS
  <2>2. screen \in Screens /\ screen \in Places /\ trail \in Seq(Screens)
    BY DEF Places
  <2>3. TypeOK
    BY <2>1, <2>2 DEF TypeOK, Nodes
  <2> QED
    BY <2>2, <2>3 DEF ScreenIsKnown, StartIsFresh
<1>2. WalkIsOpen /\ GateHolds /\ ScansAreGazes /\ DoubtIsBounded
  BY DEF WalkIsOpen, GateHolds, ScansAreGazes, DoubtIsBounded
<1>3. ProgressIsCurrent
  BY <1>1, ProgressInRange DEF ProgressIsCurrent, AtMost, Cap
<1>4. StepsAreCounted
  BY DEF StepsAreCounted, Over
<1>5. LogFollowsState /\ CompletionIsEarned
  BY DEF LogFollowsState, CompletionIsEarned, Types
<1>6. ScansArePerScreen /\ FirstCriticalOnly /\ PatienceNeedsBareScreen
  BY DEF ScansArePerScreen, FirstCriticalOnly, PatienceNeedsBareScreen, Reasons
<1>7. TrailIsWalkable
  BY DEF TrailIsWalkable
<1> QED
  BY <1>1, <1>2, <1>3, <1>4, <1>5, <1>6, <1>7 DEF WalkInv

\* Every step keeps it.
LEMMA NextKeeps == WalkInv /\ [Next]_vars => WalkInv'
<1> SUFFICES ASSUME WalkInv, [Next]_vars PROVE WalkInv'
  OBVIOUS
<1>1. CASE Next
  BY <1>1, OrientKeeps, PerceiveKeeps, AttendKeeps, ActOnIntendedKeeps, ScanExhaustedKeeps,
     InterpretKeeps, SelectActionKeeps, ExecuteActionKeeps, UpdateStateKeeps, CheckTaskKeeps
     DEF Next
<1>2. CASE UNCHANGED vars
  BY <1>2 DEF vars, WalkInv, TypeOK, WalkIsOpen, StartIsFresh, ScreenIsKnown, GateHolds,
     ScansAreGazes, DoubtIsBounded, ProgressIsCurrent, StepsAreCounted, LogFollowsState,
     CompletionIsEarned, ScansArePerScreen, FirstCriticalOnly, TrailIsWalkable,
     PatienceNeedsBareScreen, Progress, Share, SuccessMet
<1> QED
  BY <1>1, <1>2

\* What holds at each node of the graph, of every reachable state of a walk.
THEOREM WalkInvariant == Spec => []WalkInv
<1> QED
  BY InitEstablishes, NextKeeps, PTL DEF Spec

\* LangGraph's recursion limit, as run_simulation sets it, ends no walk of any study.
THEOREM RecursionLimitSuffices == Spec => []WithinRecursionLimit
<1>1. WalkInv => WithinRecursionLimit
  <2> SUFFICES ASSUME WalkInv PROVE WithinRecursionLimit
    OBVIOUS
  <2>1. supersteps <= MaxSteps * PerStep + 1
    <3>1. CASE node = "orient"
      BY <3>1, StepBudget DEF WalkInv, StartIsFresh
    <3>2. CASE node \in Nodes \ {"orient", "update_state", "check_task"}
      <4>1. supersteps <= 4 + step * PerStep + MaxScans
        BY <3>2, StepBudget, GraphAssumption
           DEF WalkInv, StepsAreCounted, PerStep, TypeOK, Nodes, AtMost
      <4>2. step < MaxSteps /\ supersteps \in Nat
        BY <3>2 DEF WalkInv, ScreenIsKnown, TypeOK
      <4> QED
        BY <4>1, <4>2, StepBudget, GraphAssumption DEF WalkInv
    <3>3. CASE node \in {"update_state", "check_task"} \cup Over
      BY <3>3, StepBudget DEF WalkInv, StepsAreCounted, TypeOK, Over
    <3> QED
      BY <3>1, <3>2, <3>3 DEF WalkInv, TypeOK
  <2>2. MaxSteps * (8 + MaxScans) = MaxSteps * PerStep + 2 * MaxSteps
    BY GraphAssumption DEF PerStep
  <2>3. MaxSteps * PerStep \in Nat /\ MaxSteps \in Nat /\ supersteps \in Nat
    BY StepBudget, GraphAssumption DEF WalkInv, TypeOK
  <2> QED
    BY <2>1, <2>2, <2>3 DEF WithinRecursionLimit
<1> QED
  BY <1>1, WalkInvariant, PTL

\* A walk's events are numbered without gaps and tell where it is and how it ended.
THEOREM LogFollowsStateAlways == Spec => []LogFollowsState
<1>1. WalkInv => LogFollowsState
  BY DEF WalkInv
<1> QED
  BY <1>1, WalkInvariant, PTL

\* COMPLETED means the success condition, or every critical action where there is none.
THEOREM CompletionIsAlwaysEarned == Spec => []CompletionIsEarned
<1>1. WalkInv => CompletionIsEarned
  BY DEF WalkInv
<1> QED
  BY <1>1, WalkInvariant, PTL

\* Only the first critical element of a screen is ever acted on.
THEOREM GateIsNeverPassed == Spec => []FirstCriticalOnly
<1>1. WalkInv => FirstCriticalOnly
  BY DEF WalkInv
<1> QED
  BY <1>1, WalkInvariant, PTL

\* BACK always has a real move to undo.
THEOREM TrailIsAlwaysWalkable == Spec => []TrailIsWalkable
<1>1. WalkInv => TrailIsWalkable
  BY DEF WalkInv
<1> QED
  BY <1>1, WalkInvariant, PTL

\* Without a bare screen nobody loses patience, whatever their traits.
THEOREM PatienceLastsOnShownScreens == Spec => []PatienceNeedsBareScreen
<1>1. WalkInv => PatienceNeedsBareScreen
  BY DEF WalkInv
<1> QED
  BY <1>1, WalkInvariant, PTL

\* A participant dropped for not noticing had all scans on this visit.
THEOREM ScansAreAlwaysPerScreen == Spec => []ScansArePerScreen
<1>1. WalkInv => ScansArePerScreen
  BY DEF WalkInv
<1> QED
  BY <1>1, WalkInvariant, PTL

\* A step never takes back progress towards the critical actions.
THEOREM ProgressIsMonotone == Spec => ProgressNeverDrops
<1>1. WalkInv /\ [Next]_vars => [Critical # {} => progress' >= progress]_vars
  <2> SUFFICES ASSUME WalkInv, Next, Critical # {} PROVE progress' >= progress
    BY DEF vars
  <2>1. CASE UpdateState
    <3>1. progress' = Progress /\ progress <= AtMost(Share, Cap) /\ progress \in 0..100
      BY <2>1 DEF UpdateState, WalkInv, ProgressIsCurrent, TypeOK
    <3>2. Share \in Nat
      BY ProgressInRange DEF WalkInv
    <3>3. Progress = 100 \/ Progress = AtMost(Share, Cap)
      BY DEF Progress
    <3> QED
      BY <3>1, <3>2, <3>3 DEF AtMost, Cap
  <2>2. CASE ~UpdateState
    <3>1. progress' = progress
      BY <2>2 DEF Next, Orient, Perceive, Attend, ActOnIntended, ScanExhausted, Interpret,
         SelectAction, ExecuteAction, CheckTask
    <3> QED
      BY <3>1 DEF WalkInv, TypeOK
  <2> QED
    BY <2>1, <2>2
<1> QED
  BY <1>1, WalkInvariant, PTL DEF Spec, ProgressNeverDrops
=============================================================================
