----------------------------- MODULE RunProgress -----------------------------
(***************************************************************************)
(* The progress streams of a run (api/v1/simulations.py, db/listen.py),    *)
(* composed with RunLifecycle: a stream reads a snapshot of the run, then  *)
(* LISTENs, and from then on forwards what the participants' transactions  *)
(* NOTIFY when they commit.  What is notified before the LISTEN is lost,   *)
(* cancel_run notifies nobody, and a stream takes a bounded number of      *)
(* ticks, each a message or a timeout.                                     *)
(***************************************************************************)
EXTENDS RunLifecycle, Sequences

CONSTANTS
    Streams,    \* the viewers' event streams
    MaxTicks    \* _PROGRESS_MAX_TICKS

ASSUME StreamAssumption == MaxTicks \in Nat \ {0}

VARIABLES
    at,      \* where event_stream is
    read,    \* the run status get_progress has read
    shown,   \* the last event sent to the viewer
    queue,   \* the asyncio queue that _on_notify fills
    ticks,   \* turns of the loop
    late     \* whether the run was final already when add_listener took effect

streams == <<at, read, shown, queue, ticks, late>>

\* No event has been sent yet.
Nothing == [status |-> "RUNNING", completed |-> 0]

StreamInit ==
    /\ at = [s \in Streams |-> "new"]
    /\ read = [s \in Streams |-> "RUNNING"]
    /\ shown = [s \in Streams |-> Nothing]
    /\ queue = [s \in Streams |-> <<>>]
    /\ ticks = [s \in Streams |-> 0]
    /\ late = [s \in Streams |-> FALSE]

\* What the run's rows say now.
Counted == Cardinality({p \in Participants : part[p] \in Terminal})

SGoto(s, l) == at' = [at EXCEPT ![s] = l]

\* get_progress: the run is read first ...
ReadStatus(s) ==
    /\ at[s] = "new"
    /\ read' = [read EXCEPT ![s] = run]
    /\ SGoto(s, "counting")
    /\ UNCHANGED <<shown, queue, ticks, late>>

\* Mutant: the snapshot counts before it reads the status.
CountFirst(s) ==
    /\ at[s] \in {"new", "counting"}
    /\ IF at[s] = "new"
       THEN /\ shown' = [shown EXCEPT ![s].completed = Counted]
            /\ SGoto(s, "counting")
            /\ UNCHANGED read
       ELSE /\ shown' = [shown EXCEPT ![s].status = run]
            /\ SGoto(s, IF run \in RunFinal THEN "completed" ELSE "connecting")
            /\ read' = [read EXCEPT ![s] = run]
    /\ UNCHANGED <<queue, ticks, late>>

\* ... and counted in later statements, which may see more.  A run that has ended
\* is told at once.
Count(s) ==
    /\ at[s] = "counting"
    /\ shown' = [shown EXCEPT ![s] = [status |-> read[s], completed |-> Counted]]
    /\ SGoto(s, IF read[s] \in RunFinal THEN "completed" ELSE "connecting")
    /\ UNCHANGED <<read, queue, ticks, late>>

\* get_listen_connection and add_listener.
Listen(s) ==
    /\ at[s] = "connecting"
    /\ late' = [late EXCEPT ![s] = run \in RunFinal]
    /\ SGoto(s, "listening")
    /\ UNCHANGED <<read, shown, queue, ticks>>

\* One turn of the loop that got a message in time.
Forward(s) ==
    LET data == Head(queue[s])
    IN  /\ at[s] = "listening" /\ ticks[s] < MaxTicks /\ queue[s] # <<>>
        /\ shown' = [shown EXCEPT ![s] = data]
        /\ queue' = [queue EXCEPT ![s] = Tail(@)]
        /\ ticks' = [ticks EXCEPT ![s] = @ + 1]
        /\ SGoto(s, IF data.status \in RunFinal THEN "completed" ELSE "listening")
        /\ UNCHANGED <<read, late>>

\* Mutant: a timeout takes no tick.
WaitForever(s) ==
    /\ at[s] = "listening" /\ ticks[s] < MaxTicks /\ queue[s] = <<>>
    /\ UNCHANGED streams

\* One turn that waited in vain.
TimeOut(s) ==
    /\ at[s] = "listening" /\ ticks[s] < MaxTicks /\ queue[s] = <<>>
    /\ ticks' = [ticks EXCEPT ![s] = @ + 1]
    /\ UNCHANGED <<at, read, shown, queue, late>>

\* The loop has used up its ticks: no event tells the viewer.
Expire(s) ==
    /\ at[s] = "listening" /\ ticks[s] = MaxTicks
    /\ SGoto(s, "expired")
    /\ UNCHANGED <<read, shown, queue, ticks, late>>

\* The viewer goes away: the generator is closed.
Leave(s) ==
    /\ at[s] \in {"connecting", "listening"}
    /\ SGoto(s, "left")
    /\ UNCHANGED <<read, shown, queue, ticks, late>>

\* The commit of p's transaction delivers its NOTIFY to whoever listens.
Notify(p) ==
    queue' = [s \in Streams |-> IF at[s] = "listening" THEN Append(queue[s], outbox[p].note)
                                                       ELSE queue[s]]

CommitAndNotify(p) ==
    /\ CommitJob(p)
    /\ Notify(p)
    /\ UNCHANGED <<at, read, shown, ticks, late>>

StreamStep(s) ==
    ReadStatus(s) \/ Count(s) \/ Listen(s) \/ Forward(s) \/ TimeOut(s) \/ Expire(s)

ProgressInit == Init /\ StreamInit

ProgressNext ==
    \/ Silent /\ UNCHANGED streams
    \/ \E p \in Participants : CommitAndNotify(p)
    \/ \E s \in Streams : (StreamStep(s) \/ Leave(s)) /\ UNCHANGED vars

ProgressSpec == ProgressInit /\ [][ProgressNext]_<<vars, streams>>

\* The server's event loop runs every stream that can go on; wait_for gives up
\* after _NOTIFY_WAIT_SECONDS.  The run's own fairness is RunLifecycle's.
ProgressFairSpec ==
    /\ ProgressSpec /\ Fairness
    /\ \A s \in Streams : WF_<<vars, streams>>(StreamStep(s) /\ UNCHANGED vars)
-----------------------------------------------------------------------------
(* Properties. *)

\* A viewer never sees the count go back: snapshots count under the run's lock
\* and are delivered in the order of their commits, after the first one was read.
NeverCountsBack == [][\A s \in Streams : shown'[s].completed >= shown[s].completed]_streams

\* simulation.completed is never sent early: it carries the full count, and every
\* participant has its outcome (a snapshot reads the status before it counts).
CompletedMeansAll ==
    \A s \in Streams : at[s] = "completed" =>
        /\ shown[s].status \in RunFinal
        /\ shown[s].completed = Cardinality(Participants)
        /\ \A p \in Participants : part[p] \in Terminal

\* Only a late LISTEN or a cancel, which is not notified, leaves a viewer without
\* its last event: a stream that listened in time has it in its queue.
AnnouncedInTime ==
    \A s \in Streams : at[s] = "listening" /\ Uncancelled /\ run \in RunFinal =>
        late[s] \/ \E i \in DOMAIN queue[s] : queue[s][i].status = run

\* Every stream ends, whatever becomes of the run (simulations.py:117-121).
StreamsEnd == \A s \in Streams : <>(at[s] \in {"completed", "expired", "left"})

-----------------------------------------------------------------------------
(* The inductive invariant, on top of RunInv. *)

StreamTypes ==
    /\ at \in [Streams -> {"new", "counting", "connecting", "listening", "completed", "expired", "left"}]
    /\ read \in [Streams -> RunStatuses]
    /\ shown \in [Streams -> Notes]
    /\ queue \in [Streams -> Seq(Notes)]
    /\ ticks \in [Streams -> Nat]
    /\ late \in [Streams -> BOOLEAN]
    /\ \A s \in Streams : at[s] \in {"new", "counting", "connecting"} => queue[s] = <<>>

\* A notification that waits for its commit says what the rows will say then.
NotesFit ==
    \A p \in Participants : pc[p] = "finalized" =>
      /\ outbox[p].note.completed = Cardinality({q \in Participants : View(p, q) \in Terminal})
      /\ outbox[p].note.status \in RunFinal => AllTerminalFor(p)
      /\ AllTerminalFor(p) => outbox[p].note.status = runNew \/ run \in RunFinal

\* What was shown, what waits to be shown and what the rows say come in this order.
CountsAscend ==
    \A s \in Streams :
      /\ shown[s].completed <= Counted
      /\ \A i \in DOMAIN queue[s] :
           /\ shown[s].completed <= queue[s][i].completed
           /\ queue[s][i].completed <= Counted
           /\ \A j \in i..Len(queue[s]) : queue[s][i].completed <= queue[s][j].completed

\* An event that says the run has ended.
Truthful(event) ==
    event.status \in RunFinal =>
      run \in RunFinal /\ event.completed = Cardinality(Participants)

VerdictsAreTrue ==
    \A s \in Streams :
      /\ read[s] \in RunFinal => run \in RunFinal
      /\ Truthful(shown[s])
      /\ \A i \in DOMAIN queue[s] : Truthful(queue[s][i])
      /\ at[s] = "completed" => shown[s].status \in RunFinal

StreamInv ==
    /\ RunInv /\ StreamTypes /\ NotesFit /\ CountsAscend /\ VerdictsAreTrue /\ AnnouncedInTime
=============================================================================
