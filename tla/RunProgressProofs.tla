------------------------- MODULE RunProgressProofs -------------------------
(***************************************************************************)
(* Proofs about RunProgress, on top of those about RunLifecycle, for any   *)
(* sets of participants, cancels and streams.                              *)
(*                                                                         *)
(* Whoever waits for its commit holds the lock of the run, so what its     *)
(* notification has counted still holds when the commit delivers it: the   *)
(* notifications of a run come in the order of their counts.               *)
(***************************************************************************)
EXTENDS RunProgress, RunLifecycleProofs

USE RunAssumption, StreamAssumption
    DEF Terminal, Outcomes, RunFinal, RunStatuses, PartStatuses, Sessions, Goto, CGoto,
        runRow, partRows, jobRows, workers, cancels, streams, SGoto

-----------------------------------------------------------------------------
(* What a step of the run does to its rows, and to who waits for its commit. *)

\* Events have a status and a count.
LEMMA CountsAreNatural ==
  /\ Counted \in 0..Cardinality(Participants) /\ Counted \in Nat
  /\ Cardinality(Participants) \in Nat
  /\ (\A p \in Participants : part[p] \in Terminal) => Counted = Cardinality(Participants)
<1>1. {p \in Participants : part[p] \in Terminal} \subseteq Participants
  OBVIOUS
<1>2. /\ Counted \in Nat /\ Cardinality(Participants) \in Nat
      /\ Counted <= Cardinality(Participants)
  BY <1>1, FS_Subset, FS_CardinalityType DEF Counted
<1>3. (\A p \in Participants : part[p] \in Terminal)
        => {p \in Participants : part[p] \in Terminal} = Participants
  OBVIOUS
<1> QED
  BY <1>2, <1>3 DEF Counted

\* The lock of the run keeps everybody else from writing what p has seen.
LEMMA WaitingIsStable ==
  ASSUME RunInv, [Next]_vars, NEW p \in Participants, pc[p] = "finalized", pc'[p] = "finalized"
  PROVE  /\ run' = run /\ runNew' = runNew /\ outbox'[p] = outbox[p]
         /\ \A q \in Participants : View(p, q)' = View(p, q)
<1> USE DEF RunInv
<1>1. CASE \E q \in Participants : Claim(q) \/ LoadRun(q) \/ WriteOutcome(q) \/ Requeue(q)
                                    \/ GiveUp(q) \/ WriteErrored(q)
  BY <1>1 DEF TypeOK, RunLockHeld, PartLocksHeld, View, Claim, LoadRun, WriteOutcome,
    Requeue,
    GiveUp, WriteErrored, WritePart, EndSession
<1>2. CASE \E q \in Participants : LockForFinalize(q) \/ FinalizeIfComplete(q)
  BY <1>2 DEF TypeOK, RunLockHeld, View, LockForFinalize, FinalizeIfComplete, WriteRun
<1>3. CASE \E q \in Participants : HandlerRaises(q) \/ AbandonJob(q)
  BY <1>3 DEF TypeOK, RunLockHeld, PartLocksHeld, View, HandlerRaises, AbandonJob, Rollback,
    Unlock, EndSession
<1>4. CASE \E q \in Participants : CommitJob(q)
  BY <1>4 DEF TypeOK, RunLockHeld, CommitJob, EndSession
<1>5. CASE \E c \in Cancels : CheckCancel(c) \/ MarkCancelling(c) \/ CancelPending(c)
  BY <1>5 DEF TypeOK, RunLockHeld, View, CheckCancel, MarkCancelling, CancelPending,
    WriteRun
<1>6. CASE \E c \in Cancels, q \in Participants : AbandonPart(c, q)
  BY <1>6 DEF TypeOK, RunLockHeld, View, AbandonPart, WritePart
<1>7. CASE \E c \in Cancels : CommitCancel(c)
  BY <1>7, CommitCancelWrites DEF RunLockHeld
<1>8. CASE \E c \in Cancels : RollbackCancel(c)
  BY <1>8 DEF TypeOK, RunLockHeld, PartLocksHeld, View, RollbackCancel, Rollback, Unlock
<1>9. CASE UNCHANGED vars
  BY <1>9 DEF vars, View
<1> QED
  BY <1>1, <1>2, <1>3, <1>4, <1>5, <1>6, <1>7, <1>8, <1>9 DEF Next, Silent, Work,
    LoseSession,
    CancelStep, AbortCancel, BreakDeadlock, Deadlocked

\* It is FinalizeIfComplete that prepares a notification.
LEMMA OnlyFinalizeWaits ==
  ASSUME RunInv, [Next]_vars, NEW p \in Participants, pc[p] # "finalized", pc'[p] = "finalized"
  PROVE  FinalizeIfComplete(p)
  BY DEF RunInv, TypeOK, Next, Silent, vars, Work, LoseSession, CancelStep, AbortCancel,
    BreakDeadlock, Claim, LoadRun, WriteOutcome, LockForFinalize, FinalizeIfComplete, CommitJob,
    HandlerRaises, Requeue, GiveUp, WriteErrored, AbandonJob, CheckCancel, MarkCancelling,
    CancelPending, AbandonPart, CommitCancel, RollbackCancel, EndSession

\* What waits for a commit goes on to fit.
LEMMA NotesFitStep ==
  ASSUME RunInv, NotesFit, [Next]_vars
  PROVE  NotesFit'
<1> SUFFICES ASSUME NEW p \in Participants, pc'[p] = "finalized"
             PROVE  /\ outbox'[p].note.completed
                         = Cardinality({q \in Participants : View(p, q)' \in Terminal})
                    /\ outbox'[p].note.status \in RunFinal => AllTerminalFor(p)'
                    /\ AllTerminalFor(p)' => outbox'[p].note.status = runNew' \/ run' \in RunFinal
  BY DEF NotesFit
<1>1. CASE pc[p] = "finalized"
  <2>1. /\ run' = run /\ runNew' = runNew /\ outbox'[p] = outbox[p]
        /\ \A q \in Participants : View(p, q)' = View(p, q)
    BY <1>1, WaitingIsStable
  <2>2. AllTerminalFor(p)' <=> AllTerminalFor(p)
    BY <2>1 DEF AllTerminalFor
  <2>3. {q \in Participants : View(p, q)' \in Terminal}
          = {q \in Participants : View(p, q) \in Terminal}
    BY <2>1
  <2> QED
    BY <1>1, <2>1, <2>2, <2>3 DEF NotesFit
<1>2. CASE pc[p] # "finalized"
  <2> DEFINE complete == AllTerminalFor(p)
             status   == IF complete THEN Verdict(p) ELSE seen[p]
  <2>1. FinalizeIfComplete(p)
    BY <1>2, OnlyFinalizeWaits
  <2>2. \A q \in Participants : View(p, q)' = View(p, q)
    BY <2>1 DEF View, FinalizeIfComplete
  <2>3. outbox'[p].note = Snapshot(p, status)
    BY <2>1 DEF FinalizeIfComplete, RunInv, TypeOK
  <2>4. run' = run /\ (status # seen[p] => runNew' = status)
    BY <2>1 DEF FinalizeIfComplete, WriteRun
  <2>5. pc[p] = "locked"
    BY <2>1 DEF FinalizeIfComplete
  <2>6. seen[p] \in RunFinal => run \in RunFinal /\ complete
    <3>1. seen[p] \in RunFinal => run \in RunFinal /\ \A q \in Participants : part[q] \in Terminal
      BY DEF RunInv, StaleButSafe, FinalIffAllTerminal
    <3>2. \A q \in Participants : part[q] \in Terminal => View(p, q) \in Terminal
      BY <2>5 DEF RunInv, OutcomeWritten, PartLocksHeld, View
    <3> QED
      BY <3>1, <3>2 DEF AllTerminalFor
  <2>7. AllTerminalFor(p)' <=> complete
    BY <2>2 DEF AllTerminalFor
  <2>8. {q \in Participants : View(p, q)' \in Terminal}
          = {q \in Participants : View(p, q) \in Terminal}
    BY <2>2
  <2>9. complete => status \in RunFinal
    BY DEF Verdict, Judgement
  <2> HIDE DEF complete, status
  <2> QED
    BY <2>3, <2>4, <2>6, <2>7, <2>8, <2>9 DEF Snapshot, status
<1> QED
  BY <1>1, <1>2

\* A participant that has ended stays so, and with all of them the run.
LEMMA RowsGrow ==
  ASSUME RunInv, [Next]_vars
  PROVE  /\ run \in RunFinal => run' \in RunFinal
         /\ \A q \in Participants : part[q] \in Terminal => part'[q] \in Terminal
         /\ Counted <= Counted'
<1>1. [Contract!CNext]_(Contract!cvars)
  BY ContractStep
<1>2. \A q \in Participants : part[q] \in Terminal => part'[q] \in Terminal
  BY <1>1 DEF RunInv, TypeOK, Contract!CNext, Contract!cvars, Contract!Settle,
    Contract!Cancel,
    Contract!Ends
<1>3. run \in RunFinal => run' \in RunFinal
  BY <1>2, InvariantStep DEF RunInv, FinalIffAllTerminal
<1>4. Counted <= Counted'
  <2> DEFINE Now == {q \in Participants : part[q] \in Terminal}
             Then == {q \in Participants : part'[q] \in Terminal}
  <2>1. Now \subseteq Then /\ Then \subseteq Participants
    BY <1>2
  <2>2. Cardinality(Now) <= Cardinality(Then)
    BY <2>1, FS_Subset
  <2> QED
    BY <2>2 DEF Counted
<1> QED
  BY <1>2, <1>3, <1>4

\* A commit delivers what it has made true.
LEMMA CommitDelivers ==
  ASSUME RunInv, NotesFit, NEW p \in Participants, CommitJob(p)
  PROVE  /\ outbox[p].note \in Notes /\ outbox[p].note.completed = Counted'
         /\ outbox[p].note.status \in RunFinal =>
              run' \in RunFinal /\ outbox[p].note.completed = Cardinality(Participants)
         /\ Uncancelled' /\ run' \in RunFinal => outbox[p].note.status = run'
<1>1. pc[p] = "finalized"
  BY DEF CommitJob
<1>2. /\ \A q \in Participants : part'[q] = View(p, q)
      /\ AllTerminalFor(p) <=> \A q \in Participants : part'[q] \in Terminal
      /\ AllTerminalFor(p) => run' \in RunFinal
      /\ ~ AllTerminalFor(p) => run' = run /\ run \notin RunFinal
  BY CommitJobWrites
<1>3. outbox[p].note.completed = Counted'
  <2>1. {q \in Participants : View(p, q) \in Terminal} = {q \in Participants : part'[q] \in Terminal}
    BY <1>2
  <2> QED
    BY <1>1, <2>1 DEF NotesFit, Counted
<1>4. AllTerminalFor(p) => outbox[p].note.completed = Cardinality(Participants)
  <2>1. AllTerminalFor(p) => {q \in Participants : View(p, q) \in Terminal} = Participants
    BY DEF AllTerminalFor
  <2> QED
    BY <1>1, <2>1 DEF NotesFit
<1>5. Uncancelled' => run \notin RunFinal
  BY <1>1 DEF CommitJob, EndSession, Uncancelled, RunInv, OpenJobs, FinalIffAllTerminal
<1>6. run' = runNew
  BY <1>1 DEF CommitJob, Commit, RunInv, RunLockHeld
<1> QED
  BY <1>1, <1>2, <1>3, <1>4, <1>5, <1>6 DEF NotesFit, RunInv, VerdictHolds

\* Only a commit of a worker ends a run that nobody cancels.
LEMMA SilentKeepsRun ==
  ASSUME RunInv, Silent
  PROVE  (Uncancelled' => Uncancelled /\ run' = run)
  BY DEF RunInv, TypeOK, Silent, Uncancelled, Work, LoseSession, CancelStep, AbortCancel,
    BreakDeadlock, Deadlocked, Claim, LoadRun, WriteOutcome, LockForFinalize, FinalizeIfComplete,
    HandlerRaises, Requeue, GiveUp, WriteErrored, AbandonJob, CheckCancel, MarkCancelling,
    CancelPending, AbandonPart, CommitCancel, RollbackCancel, Rollback, EndSession

-----------------------------------------------------------------------------
(* Queues. *)

\* A queue with one more message.
LEMMA Appended ==
  ASSUME NEW q \in Seq(Notes), NEW m \in Notes
  PROVE  /\ Append(q, m) \in Seq(Notes) /\ Len(Append(q, m)) = Len(q) + 1 /\ Len(q) \in Nat
         /\ DOMAIN q = 1..Len(q) /\ DOMAIN Append(q, m) = 1..(Len(q) + 1)
         /\ \A i \in 1..Len(q) : Append(q, m)[i] = q[i] /\ q[i] \in Notes
         /\ Append(q, m)[Len(q) + 1] = m
  OBVIOUS

\* A queue with one message less.
LEMMA Forwarded ==
  ASSUME NEW q \in Seq(Notes), q # <<>>
  PROVE  /\ Tail(q) \in Seq(Notes) /\ Len(Tail(q)) = Len(q) - 1 /\ Len(q) \in Nat \ {0}
         /\ Head(q) = q[1] /\ q[1] \in Notes
         /\ DOMAIN q = 1..Len(q) /\ DOMAIN Tail(q) = 1..(Len(q) - 1)
         /\ \A i \in 1..(Len(q) - 1) : Tail(q)[i] = q[i + 1] /\ q[i] \in Notes
  OBVIOUS

-----------------------------------------------------------------------------
(* The invariant. *)

\* Nothing has happened.
LEMMA ProgressInvariantInit == ProgressInit => StreamInv
<1> SUFFICES ASSUME ProgressInit PROVE StreamInv
  OBVIOUS
<1>1. RunInv
  BY InvariantInit DEF ProgressInit
<1>2. Nothing \in Notes /\ Nothing.status = "RUNNING" /\ Nothing.completed = 0
  BY CountsAreNatural DEF Nothing, Notes
<1>3. StreamTypes
  BY <1>2 DEF ProgressInit, StreamInit, StreamTypes
<1>4. NotesFit
  BY DEF ProgressInit, Init, NotesFit
<1>5. CountsAscend /\ VerdictsAreTrue /\ AnnouncedInTime
  BY <1>2, CountsAreNatural DEF ProgressInit, StreamInit, CountsAscend, VerdictsAreTrue,
    Truthful,
    AnnouncedInTime
<1> QED
  BY <1>1, <1>3, <1>4, <1>5 DEF StreamInv

\* A step of the run that nobody is notified of.
LEMMA SilentPreserves ==
  ASSUME StreamInv, Silent, UNCHANGED streams
  PROVE  StreamInv'
<1>1. [Next]_vars
  BY DEF Next
<1>2. RunInv' /\ NotesFit'
  BY <1>1, InvariantStep, NotesFitStep DEF StreamInv
<1>3. (run \in RunFinal => run' \in RunFinal) /\ Counted <= Counted'
  BY <1>1, RowsGrow DEF StreamInv
<1>4. Counted \in Nat /\ Counted' \in Nat
  <2>1. Counted' \in Nat
    BY FS_Subset, FS_CardinalityType DEF Counted
  <2> QED
    BY <2>1, CountsAreNatural
<1>5. StreamTypes'
  BY DEF StreamInv, StreamTypes
<1>6. CountsAscend'
  <2>1. \A m \in Notes : m.completed \in Nat
    BY CountsAreNatural DEF Notes
  <2>2. \A s \in Streams : /\ shown[s].completed \in Nat
                            /\ \A i \in DOMAIN queue[s] : queue[s][i].completed \in Nat
    BY <2>1 DEF StreamInv, StreamTypes
  <2> QED
    BY <1>3, <1>4, <2>2 DEF StreamInv, CountsAscend
<1>7. VerdictsAreTrue'
  BY <1>3 DEF StreamInv, VerdictsAreTrue, Truthful
<1>8. AnnouncedInTime'
  BY SilentKeepsRun DEF StreamInv, AnnouncedInTime
<1> QED
  BY <1>2, <1>5, <1>6, <1>7, <1>8 DEF StreamInv

\* A commit appends to the queues a count that is no smaller than any in them.
LEMMA CommitAndNotifyPreserves ==
  ASSUME StreamInv, NEW p \in Participants, CommitAndNotify(p)
  PROVE  StreamInv'
<1>1. [Next]_vars /\ CommitJob(p) /\ UNCHANGED <<at, read, shown, ticks, late>>
  BY DEF Next, CommitAndNotify
<1>2. RunInv' /\ NotesFit'
  BY <1>1, InvariantStep, NotesFitStep DEF StreamInv
<1>3. (run \in RunFinal => run' \in RunFinal) /\ Counted <= Counted'
  BY <1>1, RowsGrow DEF StreamInv
<1>4. Counted \in Nat /\ Counted' \in Nat
  <2>1. Counted' \in Nat
    BY FS_Subset, FS_CardinalityType DEF Counted
  <2> QED
    BY <2>1, CountsAreNatural
<1> DEFINE note == outbox[p].note
<1>5. /\ note \in Notes /\ note.completed = Counted'
      /\ note.status \in RunFinal => run' \in RunFinal /\ note.completed = Cardinality(Participants)
      /\ Uncancelled' /\ run' \in RunFinal => note.status = run'
  BY <1>1, CommitDelivers DEF StreamInv
<1>6. \A s \in Streams : queue'[s] = IF at[s] = "listening" THEN Append(queue[s], note) ELSE queue[s]
  BY DEF CommitAndNotify, Notify
<1> HIDE DEF note
<1>7. \A s \in Streams : queue[s] \in Seq(Notes) /\ shown[s] \in Notes
  BY DEF StreamInv, StreamTypes
<1>8. StreamTypes'
  <2>1. queue' = [s \in Streams |-> queue'[s]]
    BY DEF CommitAndNotify, Notify
  <2>2. \A s \in Streams : Append(queue[s], note) \in Seq(Notes)
    BY <1>5, <1>7
  <2>3. \A s \in Streams : queue'[s] \in Seq(Notes)
    BY <1>6, <1>7, <2>2
  <2> QED
    BY <1>1, <1>6, <2>1, <2>3 DEF StreamInv, StreamTypes
<1>9. \A m \in Notes : m.completed \in Nat
  BY CountsAreNatural DEF Notes
<1> DEFINE Told(event) == event.status \in RunFinal =>
                            run' \in RunFinal /\ event.completed = Cardinality(Participants)
<1>10. ASSUME NEW s \in Streams
       PROVE  /\ shown'[s].completed <= Counted' /\ Told(shown'[s])
              /\ \A i \in DOMAIN queue'[s] :
                   /\ shown'[s].completed <= queue'[s][i].completed
                   /\ queue'[s][i].completed <= Counted'
                   /\ \A j \in i..Len(queue'[s]) : queue'[s][i].completed <= queue'[s][j].completed
                   /\ Told(queue'[s][i])
  <2>1. PICK q \in Seq(Notes) : q = queue[s]
    BY <1>7
  <2>2. /\ DOMAIN q = 1..Len(q) /\ Len(q) \in Nat
        /\ \A i \in 1..Len(q) : q[i] \in Notes /\ q[i].completed \in Nat
        /\ shown[s].completed \in Nat
    BY <1>7, <1>9
  <2>3. /\ shown'[s] = shown[s] /\ shown[s].completed <= Counted /\ Truthful(shown[s])
        /\ \A i \in 1..Len(q) :
             /\ shown[s].completed <= q[i].completed /\ q[i].completed <= Counted
             /\ \A j \in i..Len(q) : q[i].completed <= q[j].completed
             /\ Truthful(q[i])
    BY <1>1, <2>1, <2>2 DEF StreamInv, CountsAscend, VerdictsAreTrue
  <2>4. Told(shown'[s]) /\ (\A i \in 1..Len(q) : Told(q[i])) /\ Told(note)
    BY <1>3, <1>5, <2>3 DEF Truthful
  <2> HIDE DEF Told
  <2>5. CASE at[s] # "listening"
    <3>1. queue'[s] = q
      BY <1>6, <2>1, <2>5
    <3> QED
      BY <1>3, <1>4, <2>2, <2>3, <2>4, <3>1
  <2>6. CASE at[s] = "listening"
    <3> DEFINE longer == Append(q, note)
    <3>1. queue'[s] = longer
      BY <1>6, <2>1, <2>6
    <3>2. /\ DOMAIN longer = 1..(Len(q) + 1) /\ Len(longer) = Len(q) + 1
          /\ \A i \in 1..Len(q) : longer[i] = q[i]
          /\ longer[Len(q) + 1] = note
      BY <1>5, Appended
    <3> HIDE DEF longer
    <3>3. \A i \in 1..Len(q) : i \in 1..(Len(q) + 1)
      BY <2>2
    <3>4. \A i \in 1..(Len(q) + 1) : i \in 1..Len(q) \/ i = Len(q) + 1
      BY <2>2
    <3>5. \A i \in 1..(Len(q) + 1) :
            shown[s].completed <= longer[i].completed /\ longer[i].completed <= Counted'
      BY <1>3, <1>4, <1>5, <2>2, <2>3, <3>2, <3>4
    <3>6. \A i \in 1..(Len(q) + 1) : Told(longer[i])
      BY <2>4, <3>2, <3>4
    <3>7. \A i \in 1..(Len(q) + 1), j \in 1..(Len(q) + 1) :
            i <= j => longer[i].completed <= longer[j].completed
      BY <1>4, <1>5, <2>2, <2>3, <3>2, <3>4, <3>5
    <3>8. \A i \in 1..(Len(q) + 1) : \A j \in i..(Len(q) + 1) : j \in 1..(Len(q) + 1) /\ i <= j
      BY <2>2
    <3>9. shown'[s].completed <= Counted'
      BY <1>3, <1>4, <2>2, <2>3
    <3> QED
      BY <2>3, <2>4, <3>1, <3>2, <3>5, <3>6, <3>7, <3>8, <3>9
  <2> QED
    BY <2>5, <2>6
<1>11. CountsAscend'
  BY <1>10 DEF CountsAscend
<1>12. VerdictsAreTrue'
  BY <1>1, <1>3, <1>10 DEF StreamInv, VerdictsAreTrue, Truthful
<1>13. AnnouncedInTime'
  <2>1. ASSUME NEW s \in Streams, at[s] = "listening", Uncancelled', run' \in RunFinal
        PROVE  \E i \in DOMAIN queue'[s] : queue'[s][i].status = run'
    <3>1. queue'[s] = Append(queue[s], note) /\ note.status = run'
      BY <1>5, <1>6, <2>1
    <3>2. /\ Len(queue[s]) + 1 \in DOMAIN Append(queue[s], note)
          /\ Append(queue[s], note)[Len(queue[s]) + 1] = note
      BY <1>5, <1>7, Appended
    <3> QED
      BY <3>1, <3>2
  <2> QED
    BY <1>1, <2>1 DEF AnnouncedInTime
<1> QED
  BY <1>2, <1>8, <1>11, <1>12, <1>13 DEF StreamInv

\* A stream's own steps leave the run alone.
LEMMA RunUnread ==
  ASSUME StreamInv, UNCHANGED vars
  PROVE  /\ RunInv' /\ NotesFit' /\ Counted' = Counted /\ (Uncancelled' <=> Uncancelled)
         /\ run' = run
<1>1. RunInv'
  BY InvariantStep DEF StreamInv
<1>2. NotesFit'
  BY NotesFitStep DEF StreamInv
<1> QED
  BY <1>1, <1>2 DEF vars, Counted, Uncancelled

\* The snapshot: a count is no smaller than what was shown before, and a final
\* status was read when everybody had ended.
LEMMA CountPreserves ==
  ASSUME StreamInv, NEW s \in Streams, ReadStatus(s) \/ Count(s) \/ Listen(s), UNCHANGED vars
  PROVE  StreamInv'
<1>1. /\ RunInv' /\ NotesFit' /\ Counted' = Counted /\ (Uncancelled' <=> Uncancelled)
      /\ run' = run
  BY RunUnread
<1>2. UNCHANGED <<queue, ticks>>
  BY DEF ReadStatus, Count, Listen
<1> DEFINE event == [status |-> read[s], completed |-> Counted]
<1>3. shown' = shown \/ (Count(s) /\ shown' = [shown EXCEPT ![s] = event])
  BY DEF ReadStatus, Count, Listen
<1>4. event \in Notes /\ event.status = read[s] /\ event.completed = Counted /\ Counted \in Nat
  BY CountsAreNatural DEF StreamInv, StreamTypes, Notes
<1>5. read[s] \in RunFinal => run \in RunFinal /\ Counted = Cardinality(Participants)
  BY CountsAreNatural DEF StreamInv, VerdictsAreTrue, RunInv, FinalIffAllTerminal
<1> HIDE DEF event
<1>6. \A r \in Streams : shown'[r] = shown[r] \/ (r = s /\ shown'[r] = event)
  BY <1>3 DEF StreamInv, StreamTypes
<1>7. \A r \in Streams : read'[r] = read[r] \/ read'[r] = run
  BY DEF ReadStatus, Count, Listen, StreamInv, StreamTypes
<1>8. StreamTypes'
  <2>1. run \in RunStatuses
    BY DEF StreamInv, RunInv, TypeOK
  <2>2. StreamTypes
    BY DEF StreamInv
  <2>3. shown' \in [Streams -> Notes]
    BY <1>3, <1>4, <2>2 DEF StreamTypes
  <2>4. /\ at' \in [Streams -> {"new", "counting", "connecting", "listening", "completed", "expired", "left"}]
        /\ read' \in [Streams -> RunStatuses]
        /\ late' \in [Streams -> BOOLEAN]
        /\ \A r \in Streams : at'[r] \in {"new", "counting", "connecting"} => queue[r] = <<>>
    <3>1. CASE ReadStatus(s)
      BY <2>1, <2>2, <3>1 DEF StreamTypes, ReadStatus
    <3>2. CASE Count(s)
      BY <2>2, <3>2 DEF StreamTypes, Count
    <3>3. CASE Listen(s)
      <4>1. (run \in RunFinal) \in BOOLEAN
        OBVIOUS
      <4>2. late' \in [Streams -> BOOLEAN]
        BY <2>2, <3>3, <4>1 DEF StreamTypes, Listen
      <4> QED
        BY <2>2, <3>3, <4>2 DEF StreamTypes, Listen
    <3> QED
      BY <3>1, <3>2, <3>3
  <2>5. queue' \in [Streams -> Seq(Notes)] /\ ticks' \in [Streams -> Nat]
    BY <1>2, <2>2 DEF StreamTypes
  <2> QED
    BY <1>2, <2>3, <2>4, <2>5 DEF StreamTypes
<1>9. Count(s) => queue[s] = <<>>
  BY DEF Count, StreamInv, StreamTypes
<1>10. CountsAscend'
  BY <1>1, <1>2, <1>3, <1>4, <1>6, <1>9 DEF StreamInv, CountsAscend
<1>11. VerdictsAreTrue'
  <2>1. \A r \in Streams : /\ read'[r] \in RunFinal => run' \in RunFinal
                           /\ Truthful(shown[r]) /\ \A i \in DOMAIN queue[r] : Truthful(queue[r][i])
    BY <1>1, <1>7 DEF StreamInv, VerdictsAreTrue
  <2>2. Truthful(event)
    BY <1>4, <1>5 DEF Truthful
  <2>3. \A r \in Streams : at'[r] = "completed" => shown'[r].status \in RunFinal
    <3>1. CASE Count(s)
      BY <1>4, <1>6, <3>1 DEF Count, event, StreamInv, StreamTypes, VerdictsAreTrue
    <3>2. CASE ~ Count(s)
      BY <1>3, <3>2 DEF ReadStatus, Listen, StreamInv, StreamTypes, VerdictsAreTrue
    <3> QED
      BY <3>1, <3>2
  <2>4. ASSUME NEW r \in Streams
        PROVE  /\ shown'[r].status \in RunFinal =>
                    run' \in RunFinal /\ shown'[r].completed = Cardinality(Participants)
               /\ \A i \in DOMAIN queue'[r] : queue'[r][i].status \in RunFinal =>
                    run' \in RunFinal /\ queue'[r][i].completed = Cardinality(Participants)
    <3>1. queue'[r] = queue[r] /\ run' = run
      BY <1>1, <1>2
    <3>2. Truthful(shown[r]) /\ \A i \in DOMAIN queue[r] : Truthful(queue[r][i])
      BY <2>1
    <3>3. \A i \in DOMAIN queue'[r] : queue'[r][i].status \in RunFinal =>
                    run' \in RunFinal /\ queue'[r][i].completed = Cardinality(Participants)
      BY <3>1, <3>2 DEF Truthful
    <3>4. CASE shown'[r] = shown[r]
      BY <3>1, <3>2, <3>3, <3>4 DEF Truthful
    <3>5. CASE shown'[r] = event
      BY <2>2, <3>1, <3>3, <3>5 DEF Truthful
    <3> QED
      BY <1>6, <3>4, <3>5
  <2> QED
    BY <2>1, <2>3, <2>4 DEF VerdictsAreTrue, Truthful
<1>12. AnnouncedInTime'
  BY <1>1, <1>2 DEF StreamInv, AnnouncedInTime, StreamTypes, ReadStatus, Count, Listen
<1> QED
  BY <1>1, <1>8, <1>10, <1>11, <1>12 DEF StreamInv

\* A turn of the loop shows the oldest message.
LEMMA ForwardPreserves ==
  ASSUME StreamInv, NEW s \in Streams, Forward(s), UNCHANGED vars
  PROVE  StreamInv'
<1>1. /\ RunInv' /\ NotesFit' /\ Counted' = Counted /\ (Uncancelled' <=> Uncancelled)
      /\ run' = run
  BY RunUnread
<1>2. PICK q \in Seq(Notes) : q = queue[s] /\ q # <<>>
  BY DEF Forward, StreamInv, StreamTypes
<1>3. /\ Tail(q) \in Seq(Notes) /\ Len(Tail(q)) = Len(q) - 1 /\ Len(q) \in Nat \ {0}
      /\ Head(q) = q[1] /\ q[1] \in Notes
      /\ DOMAIN q = 1..Len(q) /\ DOMAIN Tail(q) = 1..(Len(q) - 1)
      /\ \A i \in 1..(Len(q) - 1) : Tail(q)[i] = q[i + 1] /\ q[i] \in Notes
  BY <1>2, Forwarded
<1>4. /\ at[s] = "listening" /\ UNCHANGED <<read, late>>
      /\ shown' = [shown EXCEPT ![s] = q[1]] /\ queue' = [queue EXCEPT ![s] = Tail(q)]
      /\ ticks' = [ticks EXCEPT ![s] = @ + 1]
      /\ at' = [at EXCEPT ![s] = IF q[1].status \in RunFinal THEN "completed" ELSE "listening"]
  BY <1>2, <1>3 DEF Forward, StreamInv, StreamTypes
<1>5. StreamTypes'
  BY <1>3, <1>4 DEF StreamInv, StreamTypes
<1>6. /\ shown'[s] = q[1] /\ queue'[s] = Tail(q)
      /\ \A r \in Streams \ {s} : shown'[r] = shown[r] /\ queue'[r] = queue[r] /\ at'[r] = at[r]
      /\ at'[s] = IF q[1].status \in RunFinal THEN "completed" ELSE "listening"
  BY <1>4 DEF StreamInv, StreamTypes
<1>7. \A i \in 1..(Len(q) - 1) : i + 1 \in 1..Len(q) /\ i + 1 \in 1..Len(q)
  BY <1>3
<1>8. CountsAscend'
  <2>1. /\ \A i \in 1..Len(q) : q[i].completed <= Counted
        /\ \A i \in 1..Len(q) : \A j \in i..Len(q) : q[i].completed <= q[j].completed
    BY <1>2, <1>3 DEF StreamInv, CountsAscend
  <2>2. 1 \in 1..Len(q) /\ \A i \in 1..(Len(q) - 1) : i + 1 \in 1..Len(q) /\ i + 1 \in 1..Len(q)
    BY <1>3
  <2>3. \A i \in 1..(Len(q) - 1) : \A j \in i..(Len(q) - 1) :
          j \in 1..(Len(q) - 1) /\ i + 1 \in 1..Len(q) /\ j + 1 \in (i + 1)..Len(q)
    BY <1>3
  <2>4. q[1].completed <= Counted
    BY <2>1, <2>2
  <2>5. \A i \in 1..(Len(q) - 1) :
          /\ q[1].completed <= Tail(q)[i].completed /\ Tail(q)[i].completed <= Counted
          /\ \A j \in i..(Len(q) - 1) : Tail(q)[i].completed <= Tail(q)[j].completed
    BY <1>3, <2>1, <2>2, <2>3
  <2>6. \A r \in Streams \ {s} :
          /\ shown[r].completed <= Counted
          /\ \A i \in DOMAIN queue[r] :
               /\ shown[r].completed <= queue[r][i].completed
               /\ queue[r][i].completed <= Counted
               /\ \A j \in i..Len(queue[r]) : queue[r][i].completed <= queue[r][j].completed
    BY DEF StreamInv, CountsAscend
  <2>7. ASSUME NEW r \in Streams
        PROVE  /\ shown'[r].completed <= Counted'
               /\ \A i \in DOMAIN queue'[r] :
                    /\ shown'[r].completed <= queue'[r][i].completed
                    /\ queue'[r][i].completed <= Counted'
                    /\ \A j \in i..Len(queue'[r]) : queue'[r][i].completed <= queue'[r][j].completed
    <3>1. CASE r = s
      <4>1. /\ shown'[r] = q[1] /\ queue'[r] = Tail(q) /\ DOMAIN queue'[r] = 1..(Len(q) - 1)
            /\ Len(queue'[r]) = Len(q) - 1
        BY <1>3, <1>6, <3>1
      <4> QED
        BY <1>1, <2>4, <2>5, <4>1
    <3>2. CASE r # s
      <4>1. r \in Streams \ {s} /\ shown'[r] = shown[r] /\ queue'[r] = queue[r]
        BY <1>6, <3>2
      <4> QED
        BY <1>1, <2>6, <4>1
    <3> QED
      BY <3>1, <3>2
  <2> QED
    BY <2>7 DEF CountsAscend
<1>9. VerdictsAreTrue'
  <2>1. \A i \in 1..Len(q) : Truthful(q[i])
    BY <1>2, <1>3 DEF StreamInv, VerdictsAreTrue
  <2>2. \A i \in 1..(Len(q) - 1) : Truthful(Tail(q)[i])
    BY <1>3, <1>7, <2>1
  <2>3. Truthful(q[1])
    BY <1>3, <2>1
  <2>4. \A r \in Streams : /\ read[r] \in RunFinal => run \in RunFinal
                           /\ Truthful(shown[r]) /\ \A i \in DOMAIN queue[r] : Truthful(queue[r][i])
                           /\ at[r] = "completed" => shown[r].status \in RunFinal
    BY DEF StreamInv, VerdictsAreTrue
  <2>5. ASSUME NEW r \in Streams
        PROVE  /\ shown'[r].status \in RunFinal =>
                    run' \in RunFinal /\ shown'[r].completed = Cardinality(Participants)
               /\ \A i \in DOMAIN queue'[r] : queue'[r][i].status \in RunFinal =>
                    run' \in RunFinal /\ queue'[r][i].completed = Cardinality(Participants)
    <3>1. CASE r = s
      <4>1. shown'[r] = q[1] /\ queue'[r] = Tail(q) /\ DOMAIN queue'[r] = 1..(Len(q) - 1)
        BY <1>3, <1>6, <3>1
      <4> QED
        BY <1>1, <2>2, <2>3, <4>1 DEF Truthful
    <3>2. CASE r # s
      <4>1. shown'[r] = shown[r] /\ queue'[r] = queue[r] /\ run' = run
        BY <1>1, <1>6, <3>2
      <4>2. Truthful(shown[r]) /\ \A i \in DOMAIN queue[r] : Truthful(queue[r][i])
        BY <2>4
      <4>3. /\ shown[r].status \in RunFinal =>
                 run \in RunFinal /\ shown[r].completed = Cardinality(Participants)
            /\ \A i \in DOMAIN queue[r] : queue[r][i].status \in RunFinal =>
                 run \in RunFinal /\ queue[r][i].completed = Cardinality(Participants)
        BY <4>2 DEF Truthful
      <4> QED
        BY <4>1, <4>3
    <3> QED
      BY <3>1, <3>2
  <2>6. ASSUME NEW r \in Streams, at'[r] = "completed" PROVE shown'[r].status \in RunFinal
    <3>1. CASE r = s
      BY <1>6, <2>6, <3>1
    <3>2. CASE r # s
      <4>1. shown'[r] = shown[r] /\ at'[r] = at[r]
        BY <1>6, <3>2
      <4> QED
        BY <2>4, <2>6, <4>1
    <3> QED
      BY <3>1, <3>2
  <2>7. \A r \in Streams : read'[r] \in RunFinal => run' \in RunFinal
    BY <1>1, <1>4, <2>4
  <2> QED
    BY <2>5, <2>6, <2>7 DEF VerdictsAreTrue, Truthful
<1>10. AnnouncedInTime'
  <2> SUFFICES ASSUME NEW r \in Streams, at'[r] = "listening", Uncancelled, run \in RunFinal, ~ late[r]
               PROVE  \E i \in DOMAIN queue'[r] : queue'[r][i].status = run
    BY <1>1, <1>4 DEF AnnouncedInTime
  <2>1. at[r] = "listening"
    BY <1>4, <1>6
  <2>2. PICK i \in DOMAIN queue[r] : queue[r][i].status = run
    BY <2>1 DEF StreamInv, AnnouncedInTime
  <2>3. CASE r # s
    BY <1>6, <2>2, <2>3
  <2>4. CASE r = s
    <3>1. q[1].status \notin RunFinal
      BY <1>6, <2>4
    <3>2. i \in 1..Len(q) /\ q[i].status = run /\ i # 1
      BY <1>2, <1>3, <2>2, <2>4, <3>1
    <3>3. i - 1 \in 1..(Len(q) - 1) /\ i = (i - 1) + 1
      BY <1>3, <3>2
    <3>4. Tail(q)[i - 1] = q[i]
      BY <1>3, <3>3
    <3> QED
      BY <1>3, <1>6, <2>4, <3>2, <3>3, <3>4
  <2> QED
    BY <2>3, <2>4
<1> QED
  BY <1>1, <1>5, <1>8, <1>9, <1>10 DEF StreamInv

\* Waiting in vain, and going away.
LEMMA EndPreserves ==
  ASSUME StreamInv, NEW s \in Streams, TimeOut(s) \/ Expire(s) \/ Leave(s), UNCHANGED vars
  PROVE  StreamInv'
<1>1. /\ RunInv' /\ NotesFit' /\ Counted' = Counted /\ (Uncancelled' <=> Uncancelled)
      /\ run' = run
  BY RunUnread
<1>2. UNCHANGED <<read, shown, queue, late>>
  BY DEF TimeOut, Expire, Leave
<1>3. /\ at' \in [Streams -> {"new", "counting", "connecting", "listening", "completed", "expired", "left"}]
      /\ ticks' \in [Streams -> Nat]
      /\ \A r \in Streams : at'[r] = at[r] \/ at'[r] \in {"expired", "left"}
  <2>1. StreamTypes
    BY DEF StreamInv
  <2>2. CASE TimeOut(s)
    BY <2>1, <2>2 DEF StreamTypes, TimeOut
  <2>3. CASE Expire(s) \/ Leave(s)
    BY <2>1, <2>3 DEF StreamTypes, Expire, Leave
  <2> QED
    BY <2>2, <2>3
<1>4. StreamTypes'
  BY <1>2, <1>3 DEF StreamInv, StreamTypes
<1>5. CountsAscend'
  BY <1>1, <1>2 DEF StreamInv, CountsAscend
<1>6. VerdictsAreTrue'
  BY <1>1, <1>2, <1>3 DEF StreamInv, VerdictsAreTrue, Truthful
<1>7. AnnouncedInTime'
  BY <1>1, <1>2, <1>3 DEF StreamInv, AnnouncedInTime
<1> QED
  BY <1>1, <1>4, <1>5, <1>6, <1>7 DEF StreamInv

\* Every step keeps the invariant.
LEMMA ProgressInvariantStep == StreamInv /\ [ProgressNext]_<<vars, streams>> => StreamInv'
<1> SUFFICES ASSUME StreamInv, [ProgressNext]_<<vars, streams>> PROVE StreamInv'
  OBVIOUS
<1>1. CASE Silent /\ UNCHANGED streams
  BY <1>1, SilentPreserves
<1>2. ASSUME NEW p \in Participants, CommitAndNotify(p) PROVE StreamInv'
  BY <1>2, CommitAndNotifyPreserves
<1>3. ASSUME NEW s \in Streams, StreamStep(s) \/ Leave(s), UNCHANGED vars PROVE StreamInv'
  BY <1>3, CountPreserves, ForwardPreserves, EndPreserves DEF StreamStep
<1>4. CASE UNCHANGED <<vars, streams>>
  <2>1. /\ RunInv' /\ NotesFit' /\ Counted' = Counted /\ (Uncancelled' <=> Uncancelled)
        /\ run' = run
    BY <1>4, RunUnread
  <2> QED
    BY <1>4, <2>1 DEF StreamInv, StreamTypes, CountsAscend, VerdictsAreTrue, Truthful,
      AnnouncedInTime
<1> QED
  BY <1>1, <1>2, <1>3, <1>4 DEF ProgressNext

\* The streams, their queues and the notifications that wait for a commit are as the
\* invariant describes (api/v1/simulations.py:95-160, simulate_participant.py:64-72).
THEOREM StreamInvariant == ProgressSpec => []StreamInv
  BY ProgressInvariantInit, ProgressInvariantStep, PTL DEF ProgressSpec

\* simulation.completed carries the full count, when everybody has ended.
THEOREM CompletedAlwaysMeansAll == ProgressSpec => []CompletedMeansAll
<1>1. StreamInv => CompletedMeansAll
  BY DEF StreamInv, VerdictsAreTrue, Truthful, CompletedMeansAll, RunInv,
    FinalIffAllTerminal
<1> QED
  BY <1>1, StreamInvariant, PTL

\* A verdict that was reached after the LISTEN, and not by a cancel, is in the queue.
THEOREM AlwaysAnnouncedInTime == ProgressSpec => []AnnouncedInTime
<1>1. StreamInv => AnnouncedInTime
  BY DEF StreamInv
<1> QED
  BY <1>1, StreamInvariant, PTL

\* The count a viewer sees never goes back.
THEOREM CountsNeverGoBack == ProgressSpec => NeverCountsBack
<1>1. ASSUME StreamInv, [ProgressNext]_<<vars, streams>>, NEW s \in Streams
      PROVE  shown'[s].completed >= shown[s].completed
  <2>1. shown[s].completed \in Nat /\ Counted \in Nat /\ shown[s].completed <= Counted
    BY <1>1, CountsAreNatural DEF StreamInv, StreamTypes, CountsAscend, Notes
  <2>2. ASSUME NEW r \in Streams, Count(r) PROVE shown'[s].completed >= shown[s].completed
    BY <1>1, <2>1, <2>2 DEF Count, StreamInv, StreamTypes
  <2>3. ASSUME NEW r \in Streams, Forward(r) PROVE shown'[s].completed >= shown[s].completed
    <3>1. /\ shown' = [shown EXCEPT ![r] = Head(queue[r])]
          /\ queue[r] \in Seq(Notes) /\ queue[r] # <<>>
      BY <1>1, <2>3 DEF Forward, StreamInv, StreamTypes
    <3>2. Head(queue[r]) = queue[r][1] /\ 1 \in DOMAIN queue[r] /\ queue[r][1] \in Notes
      BY <3>1
    <3>3. shown[r].completed <= queue[r][1].completed /\ queue[r][1].completed \in Nat
      BY <1>1, <3>2, CountsAreNatural DEF StreamInv, CountsAscend, Notes
    <3> QED
      BY <1>1, <2>1, <3>1, <3>2, <3>3 DEF StreamInv, StreamTypes
  <2>4. CASE UNCHANGED shown
    BY <2>1, <2>4
  <2> QED
    BY <1>1, <2>2, <2>3, <2>4 DEF ProgressNext, CommitAndNotify, StreamStep, ReadStatus,
      Listen,
      TimeOut, Expire, Leave
<1>2. StreamInv /\ [ProgressNext]_<<vars, streams>>
        => [\A s \in Streams : shown'[s].completed >= shown[s].completed]_streams
  BY <1>1
<1> QED
  BY <1>2, StreamInvariant, PTL DEF ProgressSpec, NeverCountsBack
=============================================================================
