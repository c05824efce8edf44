-------------------------- MODULE StudyRunsProofs --------------------------
(***************************************************************************)
(* Proofs about StudyRuns, for any numbers of clients, runs, sessions,     *)
(* tasks, people and requests.                                             *)
(*                                                                         *)
(* StudyInv is inductive because of one lock and one direction.  The flush *)
(* of the study row lets one publish at a time look for an active run, so  *)
(* what it has found holds until it commits.  And no run is ever RUNNING   *)
(* again, so what any request has seen to be over stays over.              *)
(***************************************************************************)
EXTENDS StudyRuns, FiniteSetTheorems, TLAPS

USE StudyAssumption
    DEF RunFinal, RunStatuses, StudyStatuses, Outcomes, TaskKinds, Sizes, setup, history

-----------------------------------------------------------------------------
(* Types. *)

\* What a client has in hand between requests.
LEMMA IdleTyped == Idle \in Txns
  BY DEF Idle, Txns

\* A request that begins concerns its own client.
LEMMA OpenTyped ==
  ASSUME TypeOK, NEW c \in Clients, NEW request \in Txns, Open(c, request)
  PROVE  /\ txn' \in [Clients -> Txns] /\ requests' \in 0..MaxRequests
         /\ txn'[c] = request /\ \A d \in Clients \ {c} : txn'[d] = txn[d]
  BY DEF TypeOK, Open, Request

\* So does one that ends.
LEMMA CloseTyped ==
  ASSUME TypeOK, NEW c \in Clients, Close(c)
  PROVE  /\ txn' \in [Clients -> Txns]
         /\ txn'[c] = Idle /\ \A d \in Clients \ {c} : txn'[d] = txn[d]
  BY IdleTyped DEF TypeOK, Close

\* A step that writes no run, no session and no clash.
LEMMA PlainTyped ==
  ASSUME TypeOK, NEW c \in Clients, UNCHANGED <<setup, runs, sessions, clashed, late>>,
         txn' \in [Clients -> Txns], requests' \in 0..MaxRequests,
         study' \in [status : StudyStatuses, size : Sizes, live : BOOLEAN]
  PROVE  TypeOK'
  BY DEF TypeOK

\* Other requests are not concerned by one that has neither a run nor the lock.
LEMMA OthersGoOn ==
  ASSUME StudyInv, NEW c \in Clients, UNCHANGED <<runs, sessions, clashed, late>>,
         txn' \in [Clients -> Txns], \A d \in Clients \ {c} : txn'[d] = txn[d],
         txn'[c].op \in {"idle", "patch", "delete", "start", "publish"},
         txn'[c].step = "read" \/ (txn'[c].op = "start" /\ txn'[c].step = "written"), TypeOK',
         txn'[c].op = "patch" =>
           txn'[c].status \in StudyStatuses \cup {"none"} /\ txn'[c].size \in Sizes
  PROVE  StudyInv'
<1> USE DEF StudyInv
<1>1. Kinds' /\ EndedAreOver' /\ PublishesSerialised' /\ SizeNeverOvercounts'
  BY DEF Kinds, EndedAreOver, PublishesSerialised, SizeNeverOvercounts, Made, People, Active
<1>2. /\ Made' = Made
      /\ \A r \in Runs : People(r)' = People(r)
  BY DEF Made, People
<1>3. InFlight' /\ SizeInReach'
  BY <1>2 DEF InFlight, SizeInReach
<1>4. OnePublisher' /\ PublishedAreOver'
  BY DEF OnePublisher, PublishedAreOver, At, Made, Active
<1>5. SeenAreOver'
  BY DEF SeenAreOver, Made
<1>6. Unclashed'
  BY DEF Unclashed, At, Completing, People
<1> QED
  BY <1>1, <1>3, <1>4, <1>5, <1>6

\* A PATCH has read the study.
LEMMA PatchOpenPreserves ==
  ASSUME StudyInv, NEW c \in Clients, PatchOpen(c)
  PROVE  StudyInv'
<1>1. PICK status \in Transitions[study.status] \cup {"none"}, size \in Sizes :
        Open(c, [Idle EXCEPT !.op = "patch", !.status = status, !.size = size])
  BY DEF PatchOpen
<1> DEFINE request == [Idle EXCEPT !.op = "patch", !.status = status, !.size = size]
<1>2. status \in StudyStatuses \cup {"none"}
  BY DEF Transitions, StudyInv, TypeOK
<1>3. /\ request \in Txns /\ request.op = "patch" /\ request.step = "read"
      /\ request.status = status /\ request.size = size
  BY <1>2, size \in Nat DEF Idle, Txns
<1>4. TypeOK'
  BY <1>1, <1>3, OpenTyped, PlainTyped DEF PatchOpen, StudyInv, TypeOK
<1>5. /\ txn' \in [Clients -> Txns]
      /\ txn'[c].op = "patch" /\ txn'[c].step = "read"
      /\ txn'[c].status \in StudyStatuses \cup {"none"} /\ txn'[c].size \in Sizes
      /\ \A d \in Clients \ {c} : txn'[d] = txn[d]
  BY <1>1, <1>2, <1>3, OpenTyped DEF StudyInv
<1>6. UNCHANGED <<runs, sessions, clashed, late>>
  BY DEF PatchOpen
<1> QED
  BY <1>4, <1>5, <1>6, OthersGoOn

\* A DELETE has read the study.
LEMMA DeleteOpenPreserves ==
  ASSUME StudyInv, NEW c \in Clients, DeleteOpen(c)
  PROVE  StudyInv'
<1> DEFINE request == [Idle EXCEPT !.op = "delete"]
<1>1. request \in Txns /\ request.op = "delete" /\ request.step = "read"
  BY DEF Idle, Txns
<1>2. TypeOK'
  BY <1>1, OpenTyped, PlainTyped DEF DeleteOpen, StudyInv, TypeOK
<1> QED
  BY <1>1, <1>2, OpenTyped, OthersGoOn DEF DeleteOpen, StudyInv

\* A request to start a run has done nothing yet.
LEMMA StartOpenPreserves ==
  ASSUME StudyInv, NEW c \in Clients, StartOpen(c)
  PROVE  StudyInv'
<1>1. PICK size \in (Sizes \ {0}) \cup {study.size}, task \in Tasks \cup {None} :
        Open(c, [Idle EXCEPT !.op = "start", !.step = "written", !.size = size, !.task = task])
  BY DEF StartOpen
<1> DEFINE request == [Idle EXCEPT !.op = "start", !.step = "written", !.size = size, !.task = task]
<1>2. size \in Nat
  BY DEF StudyInv, TypeOK
<1>3. request \in Txns /\ request.op = "start" /\ request.step = "written"
  BY <1>2 DEF Idle, Txns
<1>4. TypeOK'
  BY <1>1, <1>3, OpenTyped, PlainTyped DEF StartOpen, StudyInv, TypeOK
<1> QED
  BY <1>1, <1>3, <1>4, OpenTyped, OthersGoOn DEF StartOpen, StudyInv

\* publish has checked DRAFT, without a lock.
LEMMA PublishOpenPreserves ==
  ASSUME StudyInv, NEW c \in Clients, PublishOpen(c)
  PROVE  StudyInv'
<1> DEFINE request == [Idle EXCEPT !.op = "publish"]
<1>1. request \in Txns /\ request.op = "publish" /\ request.step = "read"
  BY DEF Idle, Txns
<1>2. TypeOK'
  BY <1>1, OpenTyped, PlainTyped DEF PublishOpen, StudyInv, TypeOK
<1> QED
  BY <1>1, <1>2, OpenTyped, OthersGoOn DEF PublishOpen, StudyInv

\* A request that ends without writing a run or a session.
LEMMA ClosePreserves ==
  ASSUME StudyInv, NEW c \in Clients, PatchCommit(c) \/ DeleteCommit(c) \/ Rollback(c)
  PROVE  StudyInv'
<1>1. Close(c) /\ UNCHANGED <<setup, runs, sessions, clashed, late, requests>>
  BY DEF PatchCommit, DeleteCommit, Rollback
<1>2. study' \in [status : StudyStatuses, size : Sizes, live : BOOLEAN]
  <2>1. CASE PatchCommit(c)
    <3>1. txn[c].status \in StudyStatuses \cup {"none"} /\ txn[c].size \in Sizes
      BY <2>1 DEF StudyInv, InFlight, PatchCommit, At
    <3> QED
      BY <2>1, <3>1 DEF PatchCommit, StudyInv, TypeOK
  <2>2. CASE DeleteCommit(c)
    BY <2>2 DEF DeleteCommit, StudyInv, TypeOK
  <2>3. CASE Rollback(c)
    BY <2>3 DEF Rollback, StudyInv, TypeOK
  <2> QED
    BY <2>1, <2>2, <2>3
<1>3. TypeOK'
  BY <1>1, <1>2, CloseTyped, PlainTyped DEF StudyInv, TypeOK
<1> QED
  BY <1>1, <1>3, CloseTyped, OthersGoOn DEF StudyInv, Idle

\* The flush takes the lock of the study row: no other publish has it.
LEMMA PublishWritePreserves ==
  ASSUME StudyInv, NEW c \in Clients, PublishWrite(c)
  PROVE  StudyInv'
<1> USE DEF StudyInv
<1>1. /\ txn' \in [Clients -> Txns]
      /\ \A d \in Clients \ {c} : txn'[d] = txn[d]
      /\ txn'[c].op = "publish" /\ txn'[c].step = "written"
  <2> DEFINE request == [txn[c] EXCEPT !.step = "written", !.size = study.size]
  <2>1. txn[c] \in Txns /\ txn[c].op = "publish" /\ study.size \in Nat
    BY DEF TypeOK, PublishWrite, At
  <2>2. request \in Txns /\ request.op = "publish" /\ request.step = "written"
    BY <2>1 DEF Txns
  <2>3. txn' = [txn EXCEPT ![c] = request]
    BY <2>1 DEF PublishWrite
  <2> QED
    BY <2>2, <2>3 DEF TypeOK
<1>2. UNCHANGED <<study, setup, runs, sessions, clashed, late, requests>>
  BY DEF PublishWrite
<1>3. TypeOK'
  BY <1>1, <1>2, PlainTyped DEF TypeOK
<1>4. /\ Made' = Made
      /\ \A r \in Runs : People(r)' = People(r)
  BY <1>2 DEF Made, People
<1>5. Kinds' /\ EndedAreOver' /\ PublishesSerialised' /\ SizeNeverOvercounts'
  BY <1>2 DEF Kinds, EndedAreOver, PublishesSerialised, SizeNeverOvercounts, Made, People,
    Active
<1>6. InFlight' /\ SizeInReach'
  BY <1>1, <1>2, <1>4 DEF InFlight, SizeInReach
<1>7. OnePublisher'
  BY <1>1 DEF OnePublisher, At, PublishWrite, StudyLocked
<1>8. PublishedAreOver' /\ SeenAreOver'
  BY <1>1, <1>2 DEF PublishedAreOver, SeenAreOver, At, Made, Active
<1>9. Unclashed'
  BY <1>1, <1>2 DEF Unclashed, At, Completing, People
<1> QED
  BY <1>3, <1>5, <1>6, <1>7, <1>8, <1>9

\* create_run has seen which runs are over.
LEMMA CreateCheckPreserves ==
  ASSUME StudyInv, NEW c \in Clients, CreateCheck(c)
  PROVE  StudyInv'
<1> USE DEF StudyInv
<1>1. /\ txn' \in [Clients -> Txns]
      /\ \A d \in Clients \ {c} : txn'[d] = txn[d]
      /\ txn'[c].op = txn[c].op /\ txn[c].op \in {"start", "publish"}
      /\ txn[c].step = "written" /\ txn'[c].step = "checked" /\ txn'[c].seen = Made
  <2> DEFINE request == [txn[c] EXCEPT !.step = "checked", !.seen = Made]
  <2>1. /\ txn[c] \in Txns /\ Made \in SUBSET Runs
        /\ txn[c].op \in {"start", "publish"} /\ txn[c].step = "written"
    BY DEF TypeOK, Made, CreateCheck
  <2>2. /\ request \in Txns /\ request.op = txn[c].op
        /\ request.step = "checked" /\ request.seen = Made
    BY <2>1 DEF Txns
  <2>3. txn' = [txn EXCEPT ![c] = request]
    BY <2>1 DEF CreateCheck
  <2> QED
    BY <2>1, <2>2, <2>3 DEF TypeOK
<1>2. UNCHANGED <<study, setup, runs, sessions, clashed, late, requests>>
  BY DEF CreateCheck
<1>3. TypeOK'
  BY <1>1, <1>2, PlainTyped DEF TypeOK
<1>4. /\ Made' = Made
      /\ \A r \in Runs : People(r)' = People(r)
  BY <1>2 DEF Made, People
<1>5. Kinds' /\ EndedAreOver' /\ PublishesSerialised' /\ SizeNeverOvercounts'
  BY <1>2 DEF Kinds, EndedAreOver, PublishesSerialised, SizeNeverOvercounts, Made, People,
    Active
<1>6. InFlight' /\ SizeInReach'
  BY <1>1, <1>2, <1>4 DEF InFlight, SizeInReach
<1>7. OnePublisher'
  BY <1>1 DEF OnePublisher, At
<1>8. PublishedAreOver' /\ SeenAreOver'
  BY <1>1, <1>2 DEF PublishedAreOver, SeenAreOver, At, Made, Active, CreateCheck
<1>9. Unclashed'
  BY <1>1, <1>2 DEF Unclashed, At, Completing, People
<1> QED
  BY <1>3, <1>5, <1>6, <1>7, <1>8, <1>9

\* A request that has only read: it has a run, and what it read of it.
LEMMA OpenPreserves ==
  ASSUME StudyInv, NEW c \in Clients, SessionOpen(c) \/ CompleteOpen(c) \/ CancelOpen(c)
  PROVE  StudyInv'
<1> USE DEF StudyInv
<1>1. UNCHANGED <<study, setup, runs, sessions, clashed, late>>
  BY DEF SessionOpen, CompleteOpen, CancelOpen
<1>2. \A r \in Runs : runs[r].status \in RunStatuses /\ runs[r].size \in Nat
  BY DEF TypeOK, RunRows
<1>3. PICK r \in Made, request \in Txns :
        /\ Open(c, request)
        /\ request.run = r /\ request.step = "read"
        /\ \/ request.op = "session" /\ runs[r].source = "HUMAN" /\ request.size = runs[r].size + 1
           \/ /\ request.op = "complete" /\ request.status = runs[r].status
              /\ request.slot \in People(r) /\ request.outcome \in Outcomes
           \/ request.op = "cancel"
  <2>1. CASE SessionOpen(c)
    <3>1. PICK r \in Made : /\ runs[r].source = "HUMAN"
                            /\ Open(c, [Idle EXCEPT !.op = "session", !.run = r,
                                                    !.size = runs[r].size + 1])
      BY <2>1 DEF SessionOpen
    <3> DEFINE request == [Idle EXCEPT !.op = "session", !.run = r, !.size = runs[r].size + 1]
    <3>2. r \in Runs /\ runs[r].size + 1 \in Nat
      BY <1>2 DEF Made
    <3>3. /\ request \in Txns /\ request.op = "session" /\ request.run = r
          /\ request.step = "read" /\ request.size = runs[r].size + 1
      BY <3>2 DEF Idle, Txns
    <3> QED
      BY <3>1, <3>3
  <2>2. CASE CompleteOpen(c)
    <3>1. PICK r \in Made, s \in Slots, outcome \in Outcomes :
            /\ sessions[r][s] = "IN_PROGRESS"
            /\ Open(c, [Idle EXCEPT !.op = "complete", !.run = r, !.slot = s,
                                    !.status = runs[r].status, !.outcome = outcome])
      BY <2>2 DEF CompleteOpen
    <3> DEFINE request == [Idle EXCEPT !.op = "complete", !.run = r, !.slot = s,
                                       !.status = runs[r].status, !.outcome = outcome]
    <3>2. r \in Runs /\ runs[r].status \in RunStatuses /\ s \in People(r)
      BY <1>2, <3>1 DEF Made, People
    <3>3. /\ request \in Txns /\ request.op = "complete" /\ request.run = r /\ request.slot = s
          /\ request.step = "read" /\ request.status = runs[r].status /\ request.outcome = outcome
      BY <3>2 DEF Idle, Txns
    <3> QED
      BY <3>1, <3>2, <3>3
  <2>3. CASE CancelOpen(c)
    <3>1. PICK r \in Made : Open(c, [Idle EXCEPT !.op = "cancel", !.run = r,
                                                 !.status = runs[r].status])
      BY <2>3 DEF CancelOpen
    <3> DEFINE request == [Idle EXCEPT !.op = "cancel", !.run = r, !.status = runs[r].status]
    <3>2. r \in Runs /\ runs[r].status \in RunStatuses
      BY <1>2 DEF Made
    <3>3. request \in Txns /\ request.op = "cancel" /\ request.run = r /\ request.step = "read"
      BY <3>2 DEF Idle, Txns
    <3> QED
      BY <3>1, <3>3
  <2> QED
    BY <2>1, <2>2, <2>3
<1>4. /\ txn' \in [Clients -> Txns] /\ requests' \in 0..MaxRequests
      /\ txn'[c] = request /\ \A d \in Clients \ {c} : txn'[d] = txn[d]
  BY <1>3, OpenTyped
<1>5. TypeOK'
  BY <1>1, <1>4, PlainTyped DEF TypeOK
<1>6. /\ Made' = Made
      /\ \A q \in Runs : People(q)' = People(q)
  BY <1>1 DEF Made, People
<1>7. Kinds' /\ EndedAreOver' /\ PublishesSerialised' /\ SizeNeverOvercounts'
  BY <1>1 DEF Kinds, EndedAreOver, PublishesSerialised, SizeNeverOvercounts, Made, People,
    Active
<1>8. InFlight'
  BY <1>1, <1>3, <1>4, <1>6 DEF InFlight
<1>9. SizeInReach'
  <2>1. request.op = "session" => request.size <= Cardinality(People(r)) + 1
    <3>1. runs[r].source = "HUMAN" => runs[r].size <= Cardinality(People(r))
      BY DEF SizeNeverOvercounts
    <3>2. runs[r].size \in Nat /\ Cardinality(People(r)) \in Nat
      BY <1>2, FS_Subset, FS_CardinalityType DEF Made, People
    <3> QED
      BY <1>3, <3>1, <3>2
  <2> QED
    BY <1>3, <1>4, <1>6, <2>1 DEF SizeInReach
<1>10. OnePublisher' /\ PublishedAreOver'
  BY <1>1, <1>3, <1>4 DEF OnePublisher, PublishedAreOver, At, Made, Active
<1>11. SeenAreOver'
  BY <1>1, <1>3, <1>4 DEF SeenAreOver, Made
<1>12. Unclashed'
  BY <1>1, <1>3, <1>4, <1>6 DEF Unclashed, At, Completing
<1> QED
  BY <1>5, <1>7, <1>8, <1>9, <1>10, <1>11, <1>12

-----------------------------------------------------------------------------
(* Runs and sessions are written. *)

\* What Close leaves in flight is idle, or was in flight before.
LEMMA Closed ==
  ASSUME TypeOK, NEW c \in Clients, Close(c)
  PROVE  /\ \A d \in Clients : txn'[d] = txn[d] \/ (txn'[d].op = "idle" /\ txn'[d].step = "read")
         /\ \A d \in Clients \ {c} : txn'[d] = txn[d]
         /\ txn'[c].op = "idle" /\ txn'[c].step = "read"
  BY CloseTyped DEF Idle

\* Nothing but its status is written of a run.
LEMMA StatusWritten ==
  ASSUME TypeOK, NEW r \in Made, NEW status \in RunStatuses \ {"none"},
         runs' = [runs EXCEPT ![r].status = status]
  PROVE  /\ runs' \in [Runs -> RunRows]
         /\ Made' = Made
         /\ \A q \in Runs : /\ runs'[q].source = runs[q].source /\ runs'[q].size = runs[q].size
                            /\ runs'[q].by = runs[q].by /\ runs'[q].seen = runs[q].seen
                            /\ q # r => runs'[q].status = runs[q].status
         /\ runs'[r].status = status
<1>1. runs[r] \in RunRows /\ r \in Runs
  BY DEF TypeOK, Made
<1> DEFINE row == [runs[r] EXCEPT !.status = status]
<1>2. /\ row \in RunRows /\ row.status = status /\ row.source = runs[r].source
      /\ row.size = runs[r].size /\ row.by = runs[r].by /\ row.seen = runs[r].seen
  BY <1>1 DEF RunRows
<1>3. runs' = [runs EXCEPT ![r] = row]
  OBVIOUS
<1>4. /\ runs' \in [Runs -> RunRows] /\ runs'[r] = row
      /\ \A q \in Runs \ {r} : runs'[q] = runs[q]
  BY <1>1, <1>2, <1>3 DEF TypeOK
<1> QED
  BY <1>2, <1>4 DEF Made

\* A status that is never RUNNING, and of a published run final, keeps what is
\* known of all runs.
LEMMA StatusKeeps ==
  ASSUME StudyInv, NEW r \in Made, NEW status \in RunStatuses \ {"none", "RUNNING"},
         runs' = [runs EXCEPT ![r].status = status],
         runs[r].source = "SYNTHETIC" => status \in RunFinal,
         \A d \in Clients : txn'[d] = txn[d] \/ (txn'[d].op = "idle" /\ txn'[d].step = "read")
  PROVE  /\ OnePublisher' /\ PublishedAreOver' /\ SeenAreOver' /\ PublishesSerialised'
<1> USE DEF StudyInv
<1>1. /\ Made' = Made /\ runs'[r].status = status /\ r \in Runs
      /\ \A q \in Runs : /\ runs'[q].by = runs[q].by /\ runs'[q].seen = runs[q].seen
                         /\ q # r => runs'[q].status = runs[q].status
  BY StatusWritten DEF Made
<1>2. \A q \in Made : runs[q].by = "publish" /\ Active(q)' => Active(q)
  BY <1>1 DEF Kinds, Active, Made
<1>3. \A q \in Runs : runs[q].status # "RUNNING" => runs'[q].status # "RUNNING"
  OBVIOUS
<1>4. OnePublisher'
  BY DEF OnePublisher, At
<1>5. PublishedAreOver'
  BY <1>1, <1>2 DEF PublishedAreOver, At, Made
<1>6. SeenAreOver'
  BY <1>1, <1>3 DEF SeenAreOver
<1>7. PublishesSerialised'
  BY <1>1, <1>2 DEF PublishesSerialised
<1> QED
  BY <1>4, <1>5, <1>6, <1>7

\* The participants end a synthetic run.
LEMMA SyntheticRunEndsPreserves ==
  ASSUME StudyInv, NEW r \in Runs, SyntheticRunEnds(r)
  PROVE  StudyInv'
<1> USE DEF StudyInv
<1>1. PICK verdict \in {"COMPLETED", "FAILED"} : runs' = [runs EXCEPT ![r].status = verdict]
  BY DEF SyntheticRunEnds
<1>2. r \in Made /\ UNCHANGED <<study, setup, sessions, txn, clashed, late, requests>>
  BY DEF SyntheticRunEnds, Made
<1>3. /\ runs' \in [Runs -> RunRows] /\ Made' = Made
      /\ \A q \in Runs : /\ runs'[q].source = runs[q].source /\ runs'[q].size = runs[q].size
                         /\ runs'[q].by = runs[q].by /\ runs'[q].seen = runs[q].seen
                         /\ q # r => runs'[q].status = runs[q].status
      /\ runs'[r].status = verdict
  BY <1>1, <1>2, StatusWritten
<1>4. TypeOK'
  BY <1>2, <1>3 DEF TypeOK
<1>5. OnePublisher' /\ PublishedAreOver' /\ SeenAreOver' /\ PublishesSerialised'
  BY <1>1, <1>2, StatusKeeps
<1>6. \A q \in Runs : People(q)' = People(q)
  BY <1>2 DEF People
<1>7. Kinds' /\ InFlight'
  BY <1>2, <1>3, <1>6 DEF Kinds, InFlight
<1>8. SizeInReach' /\ SizeNeverOvercounts'
  BY <1>2, <1>3, <1>6 DEF SizeInReach, SizeNeverOvercounts, Made
<1>9. Unclashed'
  BY <1>2, <1>6 DEF Unclashed, Completing, At
<1>10. EndedAreOver'
  BY <1>2, <1>3, <1>6 DEF EndedAreOver, Made
<1> QED
  BY <1>4, <1>5, <1>7, <1>8, <1>9, <1>10

\* A cancel writes a status that is not RUNNING.
LEMMA CancelCommitPreserves ==
  ASSUME StudyInv, NEW c \in Clients, CancelCommit(c)
  PROVE  StudyInv'
<1> USE DEF StudyInv
<1> DEFINE r == txn[c].run
           status == IF Complete(r) THEN "CANCELLED"
                     ELSE IF txn[c].status = "CANCELLING" THEN runs[r].status
                     ELSE "CANCELLING"
<1>1. /\ r \in Made /\ r \in Runs /\ runs[r].status \in RunStatuses \ {"none"}
      /\ runs[r].source \in {"SYNTHETIC", "HUMAN"}
  BY DEF InFlight, CancelCommit, At, Made, TypeOK, RunRows
<1>2. runs' = [runs EXCEPT ![r].status = status] /\ Close(c)
  BY DEF CancelCommit
<1>3. UNCHANGED <<study, setup, sessions, clashed, late, requests>>
  BY DEF CancelCommit
<1>4. status \in RunStatuses \ {"none"}
  BY <1>1
<1> HIDE DEF r, status
<1>5. /\ runs' \in [Runs -> RunRows] /\ Made' = Made
      /\ \A q \in Runs : /\ runs'[q].source = runs[q].source /\ runs'[q].size = runs[q].size
                         /\ runs'[q].by = runs[q].by /\ runs'[q].seen = runs[q].seen
                         /\ q # r => runs'[q].status = runs[q].status
      /\ runs'[r].status = status
  BY <1>1, <1>2, <1>4, StatusWritten
<1>6. TypeOK'
  BY <1>2, <1>3, <1>5, CloseTyped DEF TypeOK
<1>7. /\ runs[r].source = "SYNTHETIC" => status = "CANCELLED"
      /\ status = runs[r].status \/ status \in {"CANCELLED", "CANCELLING"}
  BY DEF Complete, status
<1>8. OnePublisher' /\ PublishedAreOver' /\ SeenAreOver' /\ PublishesSerialised'
  <2>1. CASE status # "RUNNING"
    BY <1>1, <1>2, <1>7, <2>1, StatusKeeps, Closed
  <2>2. CASE status = "RUNNING"
    <3>1. \A q \in Runs : runs'[q].status = runs[q].status
      BY <1>5, <1>7, <2>2
    <3>2. \A d \in Clients : txn'[d] = txn[d] \/ (txn'[d].op = "idle" /\ txn'[d].step = "read")
      BY <1>2, Closed
    <3>3. OnePublisher'
      BY <3>2 DEF OnePublisher, At
    <3>4. PublishedAreOver' /\ PublishesSerialised'
      BY <1>5, <3>1, <3>2 DEF PublishedAreOver, PublishesSerialised, At, Active, Made
    <3>5. SeenAreOver'
      BY <1>5, <3>1, <3>2 DEF SeenAreOver, Made
    <3> QED
      BY <3>3, <3>4, <3>5
  <2> QED
    BY <2>1, <2>2
<1>9. \A q \in Runs : People(q)' = People(q)
  BY <1>3 DEF People
<1>10. Kinds'
  BY <1>5, <1>9 DEF Kinds
<1>11. InFlight' /\ SizeInReach' /\ Unclashed'
  <2>1. \A d \in Clients : txn'[d] = txn[d] \/ (txn'[d].op = "idle" /\ txn'[d].step = "read")
    BY <1>2, Closed
  <2> QED
    BY <1>3, <1>5, <1>9, <2>1 DEF InFlight, SizeInReach, Unclashed, Completing, At
<1>12. SizeNeverOvercounts'
  BY <1>5, <1>9 DEF SizeNeverOvercounts, Made
<1>13. EndedAreOver'
  BY <1>3, <1>5, <1>7, <1>9 DEF EndedAreOver, Made
<1> QED
  BY <1>6, <1>8, <1>10, <1>11, <1>12, <1>13

\* A row of simulation_runs is inserted.
LEMMA RunInserted ==
  ASSUME StudyInv, NEW r \in Runs \ Made, NEW row \in RunRows, row.status = "RUNNING",
         runs' = [runs EXCEPT ![r] = row]
  PROVE  /\ runs' \in [Runs -> RunRows] /\ Made' = Made \cup {r}
         /\ runs'[r] = row /\ \A q \in Runs \ {r} : runs'[q] = runs[q]
         /\ People(r) = {}
<1>1. /\ runs' \in [Runs -> RunRows] /\ runs'[r] = row
      /\ \A q \in Runs \ {r} : runs'[q] = runs[q]
  BY DEF StudyInv, TypeOK
<1>2. People(r) = {}
  BY DEF StudyInv, Kinds
<1> QED
  BY <1>1, <1>2 DEF Made

\* create_run inserts the run it has checked for.
LEMMA CreateCommitPreserves ==
  ASSUME StudyInv, NEW c \in Clients, CreateCommit(c)
  PROVE  StudyInv'
<1> USE DEF StudyInv
<1>1. /\ txn[c].op \in {"start", "publish"} /\ txn[c].step = "checked"
      /\ UNCHANGED <<setup, sessions, clashed, late, requests>> /\ Close(c)
  BY DEF CreateCommit
<1>2. PICK r \in Runs \ Made :
        runs' = [runs EXCEPT ![r] = [status |-> "RUNNING", source |-> "SYNTHETIC",
                                     size |-> txn[c].size, by |-> txn[c].op,
                                     seen |-> txn[c].seen]]
  BY DEF CreateCommit
<1> DEFINE row == [status |-> "RUNNING", source |-> "SYNTHETIC", size |-> txn[c].size,
                   by |-> txn[c].op, seen |-> txn[c].seen]
<1>3. /\ row \in RunRows /\ row.status = "RUNNING" /\ row.source = "SYNTHETIC"
      /\ row.by = txn[c].op /\ row.seen = txn[c].seen
  BY <1>1 DEF RunRows, TypeOK, Txns
<1> HIDE DEF row
<1>4. /\ runs' \in [Runs -> RunRows] /\ Made' = Made \cup {r}
      /\ runs'[r] = row /\ \A q \in Runs \ {r} : runs'[q] = runs[q]
      /\ People(r) = {}
  BY <1>2, <1>3, RunInserted DEF row
<1>5. /\ \A d \in Clients : txn'[d] = txn[d] \/ (txn'[d].op = "idle" /\ txn'[d].step = "read")
      /\ \A d \in Clients \ {c} : txn'[d] = txn[d]
      /\ txn'[c].op = "idle" /\ txn'[c].step = "read"
  BY <1>1, Closed
<1>6. TypeOK'
  BY <1>1, <1>4, CloseTyped DEF TypeOK, CreateCommit
<1>7. \A q \in Runs : People(q)' = People(q)
  BY <1>1 DEF People
<1>8. Kinds'
  BY <1>1, <1>3, <1>4, <1>7 DEF Kinds
<1>9. InFlight' /\ SizeInReach'
  BY <1>4, <1>5, <1>7 DEF InFlight, SizeInReach, Made
<1>10. OnePublisher'
  BY <1>5 DEF OnePublisher, At
<1>11. PublishedAreOver'
  <2> SUFFICES ASSUME NEW d \in Clients, At(d, "publish", "checked")',
                      NEW q \in Made', runs'[q].by = "publish", Active(q)'
               PROVE  FALSE
    BY DEF PublishedAreOver
  <2>1. d # c /\ At(d, "publish", "checked")
    BY <1>5 DEF At
  <2>2. txn[c].op = "start"
    BY <1>1, <2>1 DEF OnePublisher, At
  <2>3. q # r
    BY <1>3, <1>4, <2>2
  <2>4. q \in Made /\ Active(q) /\ runs[q].by = "publish"
    BY <1>4, <2>3 DEF Active, Made
  <2> QED
    BY <2>1, <2>4 DEF PublishedAreOver
<1>12. SeenAreOver'
  <2>1. \A q \in Made : q # r /\ runs'[q] = runs[q]
    BY <1>4 DEF Made
  <2>2. \A d \in Clients, q \in Runs : txn'[d].op = "complete" /\ txn'[d].run = q =>
          q \in Made /\ txn[d].op = "complete" /\ txn[d].run = q /\ txn'[d] = txn[d]
    BY <1>5 DEF InFlight
  <2> QED
    BY <1>1, <1>3, <1>4, <1>5, <2>1, <2>2 DEF SeenAreOver
<1>13. Unclashed'
  BY <1>1, <1>5, <1>7 DEF Unclashed, Completing, At
<1>14. EndedAreOver' /\ SizeNeverOvercounts'
  BY <1>1, <1>3, <1>4, <1>7 DEF EndedAreOver, SizeNeverOvercounts, Made
<1>15. PublishesSerialised'
  <2>1. txn[c].op = "publish" => \A q \in Made : runs[q].by = "publish" => ~ Active(q)
    BY <1>1 DEF PublishedAreOver, At
  <2>2. \A q \in Made : q # r /\ runs'[q] = runs[q] /\ (Active(q)' <=> Active(q))
    BY <1>4 DEF Made, Active
  <2> QED
    BY <1>3, <1>4, <2>1, <2>2 DEF PublishesSerialised
<1> QED
  BY <1>6, <1>8, <1>9, <1>10, <1>11, <1>12, <1>13, <1>14, <1>15

\* A human run is created RUNNING and empty.
LEMMA CreateHumanRunPreserves ==
  ASSUME StudyInv, CreateHumanRun
  PROVE  StudyInv'
<1> USE DEF StudyInv
<1>1. UNCHANGED <<study, setup, sessions, txn, clashed, late>> /\ requests' \in 0..MaxRequests
  BY DEF CreateHumanRun, Request, TypeOK
<1>2. PICK r \in Runs \ Made :
        runs' = [runs EXCEPT ![r] = [status |-> "RUNNING", source |-> "HUMAN", size |-> 0,
                                     by |-> "human", seen |-> {}]]
  BY DEF CreateHumanRun
<1> DEFINE row == [status |-> "RUNNING", source |-> "HUMAN", size |-> 0, by |-> "human",
                   seen |-> {}]
<1>3. /\ row \in RunRows /\ row.status = "RUNNING" /\ row.source = "HUMAN" /\ row.size = 0
      /\ row.by = "human" /\ row.seen = {}
  BY DEF RunRows
<1> HIDE DEF row
<1>4. /\ runs' \in [Runs -> RunRows] /\ Made' = Made \cup {r}
      /\ runs'[r] = row /\ \A q \in Runs \ {r} : runs'[q] = runs[q]
      /\ People(r) = {}
  BY <1>2, <1>3, RunInserted DEF row
<1>5. TypeOK'
  BY <1>1, <1>4 DEF TypeOK
<1>6. \A q \in Runs : People(q)' = People(q)
  BY <1>1 DEF People
<1>7. \A q \in Made : q # r /\ runs'[q] = runs[q] /\ (Active(q)' <=> Active(q))
  BY <1>4 DEF Made, Active
<1>8. Kinds'
  BY <1>3, <1>4, <1>6 DEF Kinds
<1>9. InFlight' /\ SizeInReach'
  BY <1>1, <1>4, <1>6 DEF InFlight, SizeInReach, Made
<1>10. OnePublisher'
  BY <1>1 DEF OnePublisher, At
<1>11. PublishedAreOver' /\ PublishesSerialised'
  BY <1>1, <1>3, <1>4, <1>7 DEF PublishedAreOver, PublishesSerialised, At
<1>12. SeenAreOver'
  BY <1>1, <1>3, <1>4, <1>7 DEF SeenAreOver, InFlight
<1>13. Unclashed'
  BY <1>1, <1>6 DEF Unclashed, Completing, At
<1>14. EndedAreOver'
  BY <1>1, <1>3, <1>4, <1>6 DEF EndedAreOver, Made
<1>15. SizeNeverOvercounts'
  <2>1. runs'[r].size <= Cardinality(People(r)')
    BY <1>3, <1>4, <1>6, FS_EmptySet
  <2>2. \A q \in Made : q \in Runs
    BY DEF Made
  <2> QED
    BY <1>4, <1>6, <1>7, <2>1, <2>2 DEF SizeNeverOvercounts
<1> QED
  BY <1>5, <1>8, <1>9, <1>10, <1>11, <1>12, <1>13, <1>14, <1>15

\* Tasks, the audience, its participants and the screens are nobody's concern here.
LEMMA SetupPreserves ==
  ASSUME StudyInv, WriteTask \/ DefineAudience \/ Generate \/ ScreensAnalyzed
  PROVE  StudyInv'
<1> USE DEF StudyInv
<1>1. UNCHANGED <<study, runs, sessions, txn, clashed, late>>
  BY DEF WriteTask, DefineAudience, Generate, ScreensAnalyzed
<1>2. TypeOK'
  <2>1. CASE WriteTask
    BY <1>1, <2>1 DEF WriteTask, Request, TypeOK
  <2>2. CASE DefineAudience
    BY <1>1, <2>2 DEF DefineAudience, Request, TypeOK
  <2>3. CASE Generate
    BY <1>1, <2>3 DEF Generate, Request, TypeOK
  <2>4. CASE ScreensAnalyzed
    BY <1>1, <2>4 DEF ScreensAnalyzed, TypeOK
  <2> QED
    BY <2>1, <2>2, <2>3, <2>4
<1>3. Made' = Made /\ \A r \in Runs : People(r)' = People(r) /\ (Active(r)' <=> Active(r))
  BY <1>1 DEF Made, People, Active
<1>4. Kinds' /\ InFlight' /\ SizeInReach'
  BY <1>1, <1>3 DEF Kinds, InFlight, SizeInReach
<1>5. OnePublisher' /\ PublishedAreOver' /\ SeenAreOver'
  BY <1>1, <1>3 DEF OnePublisher, PublishedAreOver, SeenAreOver, At, Made
<1>6. Unclashed' /\ EndedAreOver' /\ PublishesSerialised' /\ SizeNeverOvercounts'
  BY <1>1, <1>3 DEF Unclashed, EndedAreOver, PublishesSerialised, SizeNeverOvercounts,
    Completing, At, Made
<1> QED
  BY <1>2, <1>4, <1>5, <1>6

\* A session is added and counted.
LEMMA SessionCommitPreserves ==
  ASSUME StudyInv, NEW c \in Clients, SessionCommit(c)
  PROVE  StudyInv'
<1> USE DEF StudyInv
<1>1. PICK r \in Runs, s \in Slots :
        /\ r = txn[c].run /\ r \in Made /\ runs[r].source = "HUMAN" /\ s \notin People(r)
        /\ sessions' = [sessions EXCEPT ![r][s] = "IN_PROGRESS"]
        /\ runs' = [runs EXCEPT ![r].size = txn[c].size]
  <2>1. txn[c].run \in Made /\ txn[c].run \in Runs /\ txn[c].op = "session"
    BY DEF SessionCommit, At, InFlight, Made
  <2>2. runs[txn[c].run].source = "HUMAN"
    BY <2>1 DEF InFlight
  <2> QED
    BY <2>1, <2>2 DEF SessionCommit
<1>2. /\ txn[c].op = "session" /\ Close(c)
      /\ UNCHANGED <<study, setup, clashed, requests>> /\ late' \subseteq Runs
  BY <1>1 DEF SessionCommit, At, LateWith, TypeOK
<1>3. txn[c].size \in Nat /\ txn[c].size <= Cardinality(People(r)) + 1
  BY <1>1, <1>2 DEF SizeInReach, TypeOK, Txns
<1>4. /\ runs' \in [Runs -> RunRows] /\ runs'[r].size = txn[c].size
      /\ \A q \in Runs : /\ runs'[q].status = runs[q].status /\ runs'[q].source = runs[q].source
                         /\ runs'[q].by = runs[q].by /\ runs'[q].seen = runs[q].seen
                         /\ q # r => runs'[q].size = runs[q].size
  <2> DEFINE row == [runs[r] EXCEPT !.size = txn[c].size]
  <2>0. runs[r] \in RunRows
    BY DEF TypeOK
  <2>1. /\ row \in RunRows /\ row.size = txn[c].size /\ row.status = runs[r].status
        /\ row.source = runs[r].source /\ row.by = runs[r].by /\ row.seen = runs[r].seen
    BY <1>3, <2>0 DEF RunRows
  <2>2. runs' = [runs EXCEPT ![r] = row]
    BY <1>1
  <2> HIDE DEF row
  <2> QED
    BY <2>1, <2>2 DEF TypeOK
<1>5. /\ sessions' \in [Runs -> [Slots -> {"none", "IN_PROGRESS"} \cup Outcomes]]
      /\ \A q \in Runs \ {r} : sessions'[q] = sessions[q]
      /\ \A x \in Slots \ {s} : sessions'[r][x] = sessions[r][x]
      /\ sessions'[r][s] = "IN_PROGRESS"
  BY <1>1 DEF TypeOK
<1>6. /\ \A d \in Clients : txn'[d] = txn[d] \/ (txn'[d].op = "idle" /\ txn'[d].step = "read")
      /\ txn'[c].op = "idle"
  BY <1>2, Closed
<1>7. TypeOK'
  BY <1>2, <1>4, <1>5, CloseTyped DEF TypeOK
<1>8. Made' = Made /\ \A q \in Runs : Active(q)' <=> Active(q)
  BY <1>4 DEF Made, Active
<1>9. /\ People(r)' = People(r) \cup {s}
      /\ \A q \in Runs \ {r} : People(q)' = People(q)
  BY <1>5 DEF People
<1>10. /\ Cardinality(People(r)') = Cardinality(People(r)) + 1
       /\ Cardinality(People(r)) \in Nat
  <2>1. IsFiniteSet(People(r))
    BY FS_Subset DEF People
  <2> QED
    BY <1>1, <1>9, <2>1, FS_AddElement, FS_CardinalityType
<1>11. Kinds'
  BY <1>1, <1>4, <1>8, <1>9 DEF Kinds
<1>12. InFlight'
  BY <1>4, <1>6, <1>8, <1>9 DEF InFlight
<1>13. OnePublisher' /\ PublishedAreOver' /\ PublishesSerialised'
  BY <1>4, <1>6, <1>8 DEF OnePublisher, PublishedAreOver, PublishesSerialised, At, Made
<1>14. SeenAreOver'
  BY <1>4, <1>6, <1>8 DEF SeenAreOver, Made
<1>15. SizeInReach'
  <2>1. \A d \in Clients : txn[d].size \in Nat
    BY DEF TypeOK, Txns
  <2> QED
    BY <1>6, <1>9, <1>10, <2>1 DEF SizeInReach
<1>16. Unclashed'
  <2>1. \A q \in Runs : \A x \in People(q) : x \in People(q)' /\ sessions'[q][x] = sessions[q][x]
    BY <1>1, <1>5, <1>9
  <2> QED
    BY <1>2, <1>6, <2>1 DEF Unclashed, Completing, At
<1>17. EndedAreOver'
  BY <1>2, <1>4, <1>5, <1>8, <1>9 DEF EndedAreOver, Made
<1>18. SizeNeverOvercounts'
  <2> SUFFICES ASSUME NEW q \in Runs, q \in Made, runs[q].source = "HUMAN"
               PROVE  runs'[q].size <= Cardinality(People(q)')
    BY <1>4, <1>8 DEF SizeNeverOvercounts, Made
  <2>1. CASE q = r
    BY <1>3, <1>4, <1>10, <2>1
  <2>2. CASE q # r
    BY <1>4, <1>9, <2>2 DEF SizeNeverOvercounts
  <2> QED
    BY <2>1, <2>2
<1> QED
  BY <1>7, <1>11, <1>12, <1>13, <1>14, <1>15, <1>16, <1>17, <1>18

\* A completion writes its outcome and looks for open sessions.
LEMMA CompleteWritePreserves ==
  ASSUME StudyInv, NEW c \in Clients, CompleteWrite(c)
  PROVE  StudyInv'
<1> USE DEF StudyInv
<1>1. PICK r \in Runs : r = txn[c].run /\ r \in Made
  BY DEF CompleteWrite, At, InFlight, Made
<1>2. /\ txn[c].op = "complete" /\ txn[c].step = "read"
      /\ txn' = [txn EXCEPT ![c].step = "written", ![c].last = AllEnded(c, r)]
      /\ UNCHANGED <<study, setup, runs, sessions, late, requests>>
  BY <1>1 DEF CompleteWrite, At
<1>3. /\ clashed \subseteq clashed' /\ clashed' \subseteq clashed \cup {r}
      /\ \A d \in Clients : Completing(d, r) => r \in clashed'
  BY <1>1 DEF CompleteWrite
<1>4. /\ txn' \in [Clients -> Txns] /\ \A d \in Clients \ {c} : txn'[d] = txn[d]
      /\ txn'[c].op = "complete" /\ txn'[c].step = "written" /\ txn'[c].run = r
      /\ txn'[c].slot = txn[c].slot /\ txn'[c].outcome = txn[c].outcome
      /\ txn'[c].status = txn[c].status /\ (txn'[c].last <=> AllEnded(c, r))
  <2> DEFINE last == AllEnded(c, r)
             request == [txn[c] EXCEPT !.step = "written", !.last = last]
  <2>1. last \in BOOLEAN
    BY DEF AllEnded
  <2> HIDE DEF last
  <2>0. txn[c] \in Txns
    BY DEF TypeOK
  <2>2. /\ request \in Txns /\ request.op = "complete" /\ request.step = "written"
        /\ request.run = r /\ request.slot = txn[c].slot /\ request.outcome = txn[c].outcome
        /\ request.status = txn[c].status /\ request.last = last
    BY <1>1, <1>2, <2>0, <2>1 DEF Txns
  <2>3. txn' = [txn EXCEPT ![c] = request]
    BY <1>2, <2>0 DEF last
  <2> HIDE DEF request
  <2> QED
    BY <2>2, <2>3 DEF TypeOK, last
<1>5. TypeOK'
  BY <1>2, <1>3, <1>4 DEF TypeOK
<1>6. /\ Made' = Made
      /\ \A q \in Runs : People(q)' = People(q)
  BY <1>2 DEF Made, People
<1>7. Kinds' /\ PublishesSerialised' /\ SizeNeverOvercounts' /\ EndedAreOver'
  <2>1. Kinds'
    BY <1>2, <1>6 DEF Kinds
  <2>2. PublishesSerialised' /\ SizeNeverOvercounts'
    BY <1>2 DEF PublishesSerialised, SizeNeverOvercounts, Made, People, Active
  <2>3. EndedAreOver'
    BY <1>2, <1>3 DEF EndedAreOver, Made, People
  <2> QED
    BY <2>1, <2>2, <2>3
<1>8. InFlight' /\ SizeInReach'
  BY <1>1, <1>2, <1>4, <1>6 DEF InFlight, SizeInReach
<1>9. OnePublisher' /\ PublishedAreOver'
  BY <1>2, <1>4 DEF OnePublisher, PublishedAreOver, At, Made, Active
<1>10. SeenAreOver'
  BY <1>2, <1>4, <1>6 DEF SeenAreOver
<1>11. Unclashed'
  <2>1. ~ AllEnded(c, r) => \E x \in People(r) \ {txn[c].slot} : sessions[r][x] \notin Outcomes
    BY <1>1, <1>2 DEF AllEnded, View, InFlight
  <2>2. \A d \in Clients \ {c}, q \in Runs : Completing(d, q)' <=> Completing(d, q)
    BY <1>4 DEF Completing, At
  <2>3. \A q \in Runs : Completing(c, q)' => q = r
    BY <1>4 DEF Completing
  <2> QED
    BY <1>2, <1>3, <1>4, <1>6, <2>1, <2>2, <2>3 DEF Unclashed
<1> QED
  BY <1>5, <1>7, <1>8, <1>9, <1>10, <1>11

\* The last completion ends the run.
LEMMA CompleteCommitPreserves ==
  ASSUME StudyInv, NEW c \in Clients, CompleteCommit(c)
  PROVE  StudyInv'
<1> USE DEF StudyInv
<1>1. PICK r \in Runs, s \in Slots :
        /\ r = txn[c].run /\ s = txn[c].slot /\ r \in Made /\ s \in People(r)
        /\ runs[r].source = "HUMAN" /\ txn[c].outcome \in Outcomes
  BY DEF CompleteCommit, At, InFlight, Made, Kinds, People
<1>2. /\ txn[c].op = "complete" /\ Completing(c, r) /\ Close(c)
      /\ sessions' = [sessions EXCEPT ![r][s] = txn[c].outcome]
      /\ UNCHANGED <<study, setup, clashed, late, requests>>
  BY <1>1 DEF CompleteCommit, At, Completing
<1>3. /\ sessions' \in [Runs -> [Slots -> {"none", "IN_PROGRESS"} \cup Outcomes]]
      /\ \A q \in Runs \ {r} : sessions'[q] = sessions[q]
      /\ \A x \in Slots \ {s} : sessions'[r][x] = sessions[r][x]
      /\ sessions'[r][s] \in Outcomes
  BY <1>1, <1>2 DEF TypeOK
<1>4. \A q \in Runs : People(q)' = People(q)
  BY <1>1, <1>3 DEF People
<1>5. Verdict(c, r) \in RunFinal
  BY DEF Verdict
<1>6. /\ runs' \in [Runs -> RunRows] /\ Made' = Made
      /\ \A q \in Runs : /\ runs'[q].source = runs[q].source /\ runs'[q].size = runs[q].size
                         /\ runs'[q].by = runs[q].by /\ runs'[q].seen = runs[q].seen
                         /\ q # r => runs'[q].status = runs[q].status
      /\ runs'[r].status = IF txn[c].last /\ Verdict(c, r) # txn[c].status
                           THEN Verdict(c, r) ELSE runs[r].status
  <2>1. CASE txn[c].last /\ Verdict(c, r) # txn[c].status
    <3>1. runs' = [runs EXCEPT ![r].status = Verdict(c, r)]
      BY <1>1, <2>1 DEF CompleteCommit
    <3> QED
      BY <1>1, <1>5, <2>1, <3>1, StatusWritten
  <2>2. CASE ~ (txn[c].last /\ Verdict(c, r) # txn[c].status)
    <3>1. runs' = runs
      BY <1>1, <2>2 DEF CompleteCommit
    <3> QED
      BY <2>2, <3>1 DEF TypeOK, Made
  <2> QED
    BY <2>1, <2>2
<1>7. /\ \A d \in Clients : txn'[d] = txn[d] \/ (txn'[d].op = "idle" /\ txn'[d].step = "read")
      /\ \A d \in Clients \ {c} : txn'[d] = txn[d]
      /\ txn'[c].op = "idle"
  BY <1>2, Closed
<1>8. TypeOK'
  BY <1>2, <1>3, <1>6, CloseTyped DEF TypeOK
<1>9. \A q \in Runs : /\ Active(q)' => Active(q)
                      /\ runs[q].status # "RUNNING" => runs'[q].status # "RUNNING"
  BY <1>1, <1>5, <1>6 DEF Active
<1>10. Kinds'
  BY <1>4, <1>6 DEF Kinds
<1>11. InFlight' /\ SizeInReach'
  BY <1>4, <1>6, <1>7 DEF InFlight, SizeInReach
<1>12. OnePublisher'
  BY <1>7 DEF OnePublisher, At
<1>13. PublishedAreOver' /\ PublishesSerialised'
  BY <1>6, <1>7, <1>9 DEF PublishedAreOver, PublishesSerialised, At, Made
<1>14. SeenAreOver'
  BY <1>6, <1>7, <1>9 DEF SeenAreOver, Made
<1>15. Unclashed'
  <2>1. \A d \in Clients, q \in Runs : Completing(d, q)' => Completing(d, q) /\ txn'[d] = txn[d] /\ d # c
    BY <1>7 DEF Completing, At
  <2> QED
    BY <1>2, <1>3, <1>4, <2>1 DEF Unclashed
<1>16. EndedAreOver'
  <2> SUFFICES ASSUME r \notin clashed, \A x \in People(r) : sessions'[r][x] \in Outcomes
               PROVE  runs'[r].status # "RUNNING"
    BY <1>2, <1>3, <1>4, <1>6 DEF EndedAreOver, Made
  <2>1. txn[c].last
    BY <1>1, <1>2, <1>3 DEF Unclashed
  <2>2. txn[c].status # "RUNNING" => runs[r].status # "RUNNING"
    BY <1>1, <1>2 DEF SeenAreOver
  <2> QED
    BY <1>5, <1>6, <2>1, <2>2
<1>17. SizeNeverOvercounts'
  BY <1>4, <1>6 DEF SizeNeverOvercounts, Made
<1> QED
  BY <1>8, <1>10, <1>11, <1>12, <1>13, <1>14, <1>15, <1>16, <1>17

\* A new study has no runs and no requests.
LEMMA InvariantInit == Init => StudyInv
<1> SUFFICES ASSUME Init PROVE StudyInv
  OBVIOUS
<1>1. TypeOK
  <2>1. /\ runs \in [Runs -> RunRows] /\ txn \in [Clients -> Txns]
        /\ clashed \subseteq Runs /\ late \subseteq Runs /\ requests \in 0..MaxRequests
        /\ sessions \in [Runs -> [Slots -> {"none", "IN_PROGRESS"} \cup Outcomes]]
    <3>1. NoRun \in RunRows
      BY DEF NoRun, RunRows, RunStatuses
    <3> QED
      BY <3>1, IdleTyped, StudyAssumption DEF Init
  <2>2. /\ study \in [status : StudyStatuses, size : Sizes, live : BOOLEAN]
        /\ tasks \in [Tasks -> {"none"} \cup TaskKinds]
        /\ audience \in [defined : BOOLEAN, people : Sizes] /\ analyzed \in BOOLEAN
    <3>1. 0 \in 0..MaxPeople /\ 1 \in 0..MaxPeople /\ MaxPeople \in 0..MaxPeople
      OBVIOUS
    <3>2. study \in [status : StudyStatuses, size : Sizes, live : BOOLEAN]
      <4>1. study = [status |-> "DRAFT", size |-> 0, live |-> TRUE]
            \/ study = [status |-> "DRAFT", size |-> 1, live |-> TRUE]
        BY DEF Init
      <4>2. [status |-> "DRAFT", size |-> 0, live |-> TRUE]
              \in [status : StudyStatuses, size : Sizes, live : BOOLEAN]
        OBVIOUS
      <4>3. [status |-> "DRAFT", size |-> 1, live |-> TRUE]
              \in [status : StudyStatuses, size : Sizes, live : BOOLEAN]
        OBVIOUS
      <4> QED
        BY <4>1, <4>2, <4>3
    <3>3. tasks \in [Tasks -> {"none"} \cup TaskKinds] /\ analyzed \in BOOLEAN
      BY DEF Init
    <3>4. audience \in [defined : BOOLEAN, people : Sizes]
      <4>1. audience = [defined |-> FALSE, people |-> 0]
            \/ audience = [defined |-> TRUE, people |-> MaxPeople]
        BY DEF Init
      <4>2. [defined |-> FALSE, people |-> 0] \in [defined : BOOLEAN, people : Sizes]
        OBVIOUS
      <4>3. [defined |-> TRUE, people |-> MaxPeople] \in [defined : BOOLEAN, people : Sizes]
        OBVIOUS
      <4> QED
        BY <4>1, <4>2, <4>3
    <3> QED
      BY <3>2, <3>3, <3>4
  <2> QED
    BY <2>1, <2>2 DEF TypeOK
<1>2. Made = {} /\ \A r \in Runs : People(r) = {} /\ runs[r] = NoRun
  BY DEF Init, Made, People, NoRun
<1>3. \A c \in Clients : txn[c].op = "idle" /\ txn[c].step = "read"
  BY DEF Init, Idle
<1>4. Kinds /\ InFlight /\ SizeInReach
  BY <1>2, <1>3 DEF Kinds, InFlight, SizeInReach, NoRun
<1>5. OnePublisher /\ PublishedAreOver /\ SeenAreOver
  BY <1>2, <1>3 DEF OnePublisher, PublishedAreOver, SeenAreOver, At, NoRun
<1>6. Unclashed /\ EndedAreOver /\ PublishesSerialised /\ SizeNeverOvercounts
  BY <1>2, <1>3 DEF Unclashed, EndedAreOver, PublishesSerialised, SizeNeverOvercounts,
    Completing, At
<1> QED
  BY <1>1, <1>4, <1>5, <1>6 DEF StudyInv

\* Nothing changes.
LEMMA StutterPreserves ==
  ASSUME StudyInv, UNCHANGED vars
  PROVE  StudyInv'
<1> USE DEF StudyInv, vars, setup
<1>1. TypeOK' /\ Kinds' /\ InFlight' /\ SizeInReach'
  BY DEF TypeOK, Kinds, InFlight, SizeInReach, Made, People
<1>2. OnePublisher' /\ PublishedAreOver' /\ SeenAreOver'
  BY DEF OnePublisher, PublishedAreOver, SeenAreOver, At, Made, Active
<1>3. Unclashed' /\ EndedAreOver' /\ PublishesSerialised' /\ SizeNeverOvercounts'
  BY DEF Unclashed, EndedAreOver, PublishesSerialised, SizeNeverOvercounts, Completing, At,
    Made, People, Active
<1> QED
  BY <1>1, <1>2, <1>3

\* Every step keeps the invariant.
LEMMA InvariantStep == StudyInv /\ [Next]_vars => StudyInv'
<1> SUFFICES ASSUME StudyInv, [Next]_vars PROVE StudyInv'
  OBVIOUS
<1>1. CASE SetupStep
  BY <1>1, SetupPreserves, CreateHumanRunPreserves DEF SetupStep
<1>2. ASSUME NEW c \in Clients, StudyStep(c) PROVE StudyInv'
  <2>1. CASE PatchOpen(c) \/ DeleteOpen(c) \/ StartOpen(c) \/ PublishOpen(c)
    BY <2>1, PatchOpenPreserves, DeleteOpenPreserves, StartOpenPreserves,
      PublishOpenPreserves
  <2>2. CASE PatchCommit(c) \/ DeleteCommit(c) \/ Rollback(c)
    BY <2>2, ClosePreserves
  <2>3. CASE PublishWrite(c) \/ CreateCheck(c) \/ CreateCommit(c)
    BY <2>3, PublishWritePreserves, CreateCheckPreserves, CreateCommitPreserves
  <2>4. CASE CancelOpen(c) \/ CancelCommit(c)
    BY <2>4, OpenPreserves, CancelCommitPreserves
  <2> QED
    BY <1>2, <2>1, <2>2, <2>3, <2>4 DEF StudyStep
<1>3. ASSUME NEW c \in Clients, CaptureStep(c) PROVE StudyInv'
  <2>1. CASE SessionOpen(c) \/ CompleteOpen(c)
    BY <2>1, OpenPreserves
  <2>2. CASE SessionCommit(c) \/ CompleteWrite(c) \/ CompleteCommit(c)
    BY <2>2, SessionCommitPreserves, CompleteWritePreserves, CompleteCommitPreserves
  <2> QED
    BY <1>3, <2>1, <2>2 DEF CaptureStep
<1>4. ASSUME NEW r \in Runs, SyntheticRunEnds(r) PROVE StudyInv'
  BY <1>4, SyntheticRunEndsPreserves
<1>5. CASE UNCHANGED vars
  BY <1>5, StutterPreserves
<1> QED
  BY <1>1, <1>2, <1>3, <1>4, <1>5 DEF Next

\* The state of the study, its runs, its sessions and the requests in flight is
\* always the one the invariant describes (usecases/studies.py, simulations.py,
\* journey_capture.py).
THEOREM StudyInvariant == Spec => []StudyInv
<1> QED
  BY InvariantInit, InvariantStep, PTL DEF Spec

\* Of all the runs publish has created at most one is active: the flush of the
\* study row comes before create_run's check (usecases/simulations.py:195-203).
THEOREM PublishesAlwaysSerialised == Spec => []PublishesSerialised
<1>1. StudyInv => PublishesSerialised
  BY DEF StudyInv
<1> QED
  BY <1>1, StudyInvariant, PTL

\* A synthetic run that starts beside a RUNNING run had not seen it: the check of
\* create_run is only as good as its snapshot (usecases/simulations.py:125-133).
THEOREM OnlyOverlapEverStartsTwo == Spec => []OnlyOverlapStartsTwo
<1>1. StudyInv => OnlyOverlapStartsTwo
  BY DEF StudyInv, SeenAreOver, OnlyOverlapStartsTwo, Made
<1> QED
  BY <1>1, StudyInvariant, PTL

\* The lost increments of population_size only ever make it too small
\* (simulation_run_service.py:61-64).
THEOREM SizeNeverEverOvercounts == Spec => []SizeNeverOvercounts
<1>1. StudyInv => SizeNeverOvercounts
  BY DEF StudyInv
<1> QED
  BY <1>1, StudyInvariant, PTL

\* A human run whose sessions are over stays RUNNING only after two completions
\* were in flight at once (usecases/journey_capture.py:119-128).
THEOREM OnlyAClashEverStrandsARun == Spec => []OnlyAClashStrandsARun
<1>1. StudyInv => OnlyAClashStrandsARun
  BY DEF StudyInv, EndedAreOver, OnlyAClashStrandsARun
<1> QED
  BY <1>1, StudyInvariant, PTL

-----------------------------------------------------------------------------
(* Verdicts. *)

\* A step that adds no session and begins no completion or cancel keeps
\* VerdictInv if the runs it decides have no session that is open.
LEMMA VerdictFrame ==
  ASSUME VerdictInv, UNCHANGED <<sessions, late>>,
         \A d \in Clients : txn'[d] = txn[d] \/ txn'[d].op \notin {"complete", "cancel"},
         \A r \in Runs : /\ runs'[r].source = "HUMAN" /\ runs'[r].status \in RunFinal
                         /\ runs'[r] # runs[r]
                         => \A s \in People(r) : sessions[r][s] \in Outcomes
  PROVE  VerdictInv'
<1>1. \A r \in Runs : People(r)' = People(r)
  BY DEF People
<1>2. \A d \in Clients, r \in Runs : Completing(d, r)' => Completing(d, r) /\ txn'[d] = txn[d]
  BY DEF Completing, At
<1>3. OverIsOver'
  <2>1. \A r \in Runs \ late : runs'[r].source = "HUMAN" /\ runs'[r].status \in RunFinal =>
          \A s \in People(r) : sessions[r][s] \in Outcomes
    BY DEF VerdictInv, OverIsOver
  <2>2. \A d \in Clients, r \in Runs \ late : Completing(d, r)' /\ txn'[d].last =>
          \A s \in People(r) : View(d, r, s)' \in Outcomes
    BY <1>2 DEF VerdictInv, OverIsOver, View
  <2> QED
    BY <1>1, <2>1, <2>2 DEF OverIsOver
<1>4. LoadedBefore'
  BY DEF VerdictInv, LoadedBefore
<1> QED
  BY <1>3, <1>4 DEF VerdictInv

\* Requests that write neither a run nor a session, and the setup.
LEMMA QuietKeepsVerdicts ==
  ASSUME StudyInv, VerdictInv, UNCHANGED <<runs, sessions, late>>,
         \A d \in Clients : txn'[d] = txn[d] \/ txn'[d].op \notin {"complete", "cancel"}
  PROVE  VerdictInv'
  BY VerdictFrame

\* What such a request has in hand.
LEMMA QuietRequests ==
  ASSUME StudyInv, NEW c \in Clients,
         \/ PatchOpen(c) \/ PatchCommit(c) \/ DeleteOpen(c) \/ DeleteCommit(c) \/ StartOpen(c)
         \/ PublishOpen(c) \/ PublishWrite(c) \/ CreateCheck(c) \/ SessionOpen(c) \/ Rollback(c)
  PROVE  /\ UNCHANGED <<runs, sessions, late>>
         /\ \A d \in Clients : txn'[d] = txn[d] \/ txn'[d].op \notin {"complete", "cancel"}
<1>0. txn \in [Clients -> Txns] /\ txn[c] \in Txns
  BY DEF StudyInv, TypeOK
<1>1. CASE PatchOpen(c) \/ DeleteOpen(c) \/ StartOpen(c) \/ PublishOpen(c) \/ SessionOpen(c)
  <2>1. UNCHANGED <<runs, sessions, late>>
    BY <1>1 DEF PatchOpen, DeleteOpen, StartOpen, PublishOpen, SessionOpen
  <2>2. CASE PatchOpen(c)
    <3>1. PICK status \in Transitions[study.status] \cup {"none"}, size \in Sizes :
            Open(c, [Idle EXCEPT !.op = "patch", !.status = status, !.size = size])
      BY <2>2 DEF PatchOpen
    <3> DEFINE request == [Idle EXCEPT !.op = "patch", !.status = status, !.size = size]
    <3>2. request.op = "patch"
      BY DEF Idle
    <3>3. txn' = [txn EXCEPT ![c] = request]
      BY <3>1 DEF Open
    <3> QED
      BY <1>0, <2>1, <3>2, <3>3
  <2>3. CASE DeleteOpen(c)
    BY <1>0, <2>1, <2>3 DEF DeleteOpen, Open, Idle
  <2>4. CASE StartOpen(c)
    <3>1. PICK size \in (Sizes \ {0}) \cup {study.size}, task \in Tasks \cup {None} :
            Open(c, [Idle EXCEPT !.op = "start", !.step = "written", !.size = size, !.task = task])
      BY <2>4 DEF StartOpen
    <3> DEFINE request == [Idle EXCEPT !.op = "start", !.step = "written", !.size = size,
                                       !.task = task]
    <3>2. request.op = "start"
      BY DEF Idle
    <3>3. txn' = [txn EXCEPT ![c] = request]
      BY <3>1 DEF Open
    <3> QED
      BY <1>0, <2>1, <3>2, <3>3
  <2>5. CASE PublishOpen(c)
    BY <1>0, <2>1, <2>5 DEF PublishOpen, Open, Idle
  <2>6. CASE SessionOpen(c)
    <3>1. PICK r \in Made : Open(c, [Idle EXCEPT !.op = "session", !.run = r,
                                                 !.size = runs[r].size + 1])
      BY <2>6 DEF SessionOpen
    <3> DEFINE request == [Idle EXCEPT !.op = "session", !.run = r, !.size = runs[r].size + 1]
    <3>2. request.op = "session"
      BY DEF Idle
    <3>3. txn' = [txn EXCEPT ![c] = request]
      BY <3>1 DEF Open
    <3> QED
      BY <1>0, <2>1, <3>2, <3>3
  <2> QED
    BY <1>1, <2>2, <2>3, <2>4, <2>5, <2>6
<1>2. CASE PatchCommit(c) \/ DeleteCommit(c) \/ Rollback(c)
  BY <1>0, <1>2 DEF PatchCommit, DeleteCommit, Rollback, Close, Idle
<1>3. CASE PublishWrite(c)
  BY <1>0, <1>3 DEF PublishWrite, At, Txns
<1>4. CASE CreateCheck(c)
  BY <1>0, <1>4 DEF CreateCheck, Txns
<1> QED
  BY <1>1, <1>2, <1>3, <1>4

\* A row that is created is RUNNING; the last participant ends a synthetic run.
LEMMA CreationKeepsVerdicts ==
  ASSUME StudyInv, VerdictInv,
         CreateHumanRun \/ (\E c \in Clients : CreateCommit(c)) \/ (\E r \in Runs : SyntheticRunEnds(r))
  PROVE  VerdictInv'
<1> USE DEF StudyInv
<1>1. CASE CreateHumanRun
  <2>1. PICK q \in Runs : runs' = [runs EXCEPT ![q] = [status |-> "RUNNING", source |-> "HUMAN",
                                     size |-> 0, by |-> "human", seen |-> {}]]
    BY <1>1 DEF CreateHumanRun
  <2>2. \A r \in Runs : runs'[r] = runs[r] \/ runs'[r].status = "RUNNING"
    BY <2>1 DEF TypeOK
  <2>3. UNCHANGED <<sessions, late, txn>>
    BY <1>1 DEF CreateHumanRun
  <2> QED
    BY <2>2, <2>3, VerdictFrame
<1>2. ASSUME NEW c \in Clients, CreateCommit(c) PROVE VerdictInv'
  <2>1. PICK q \in Runs :
          runs' = [runs EXCEPT ![q] = [status |-> "RUNNING", source |-> "SYNTHETIC",
                                       size |-> txn[c].size, by |-> txn[c].op,
                                       seen |-> txn[c].seen]]
    BY <1>2 DEF CreateCommit
  <2>2. \A r \in Runs : runs'[r] = runs[r] \/ runs'[r].status = "RUNNING"
    BY <2>1 DEF TypeOK
  <2>3. UNCHANGED <<sessions, late>> /\ Close(c)
    BY <1>2 DEF CreateCommit
  <2>4. \A d \in Clients : txn'[d] = txn[d] \/ txn'[d].op = "idle"
    BY <2>3, Closed
  <2> QED
    BY <2>2, <2>3, <2>4, VerdictFrame
<1>3. ASSUME NEW q \in Runs, SyntheticRunEnds(q) PROVE VerdictInv'
  <2>1. PICK verdict \in {"COMPLETED", "FAILED"} : runs' = [runs EXCEPT ![q].status = verdict]
    BY <1>3 DEF SyntheticRunEnds
  <2>2. runs[q].source = "SYNTHETIC" /\ runs[q] \in RunRows
    BY <1>3 DEF SyntheticRunEnds, TypeOK
  <2>3. \A r \in Runs : runs'[r] = runs[r] \/ runs'[r].source = "SYNTHETIC"
    BY <2>1, <2>2 DEF TypeOK, RunRows
  <2>4. UNCHANGED <<sessions, late, txn>>
    BY <1>3 DEF SyntheticRunEnds
  <2> QED
    BY <2>3, <2>4, VerdictFrame
<1> QED
  BY <1>1, <1>2, <1>3

\* A cancel cancels a run only when no session of it is open.
LEMMA CancelKeepsVerdicts ==
  ASSUME StudyInv, VerdictInv, NEW c \in Clients, CancelCommit(c)
  PROVE  VerdictInv'
<1> USE DEF StudyInv
<1>1. PICK r \in Runs, status \in RunStatuses :
        /\ r = txn[c].run /\ runs' = [runs EXCEPT ![r].status = status]
        /\ status \in RunFinal => Complete(r) \/ status = runs[r].status
  <2>1. txn[c].run \in Made /\ txn[c].run \in Runs
    BY DEF CancelCommit, At, InFlight, Made
  <2>2. runs[txn[c].run].status \in RunStatuses
    BY <2>1 DEF TypeOK, RunRows
  <2> DEFINE status == IF Complete(txn[c].run) THEN "CANCELLED"
                       ELSE IF txn[c].status = "CANCELLING" THEN runs[txn[c].run].status
                       ELSE "CANCELLING"
  <2>3. /\ status \in RunStatuses
        /\ status \in RunFinal => Complete(txn[c].run) \/ status = runs[txn[c].run].status
    BY <2>2
  <2>4. runs' = [runs EXCEPT ![txn[c].run].status = status]
    BY DEF CancelCommit
  <2> HIDE DEF status
  <2> QED
    BY <2>1, <2>3, <2>4
<1>2. UNCHANGED <<sessions, late>> /\ Close(c)
  BY DEF CancelCommit
<1>3. \A d \in Clients : txn'[d] = txn[d] \/ txn'[d].op = "idle"
  BY <1>2, Closed
<1>4. runs[r] \in RunRows /\ runs'[r].source = runs[r].source /\ runs'[r].status = status
  BY <1>1 DEF TypeOK, RunRows
<1>5. \A q \in Runs \ {r} : runs'[q] = runs[q]
  BY <1>1 DEF TypeOK
<1>6. /\ runs'[r].source = "HUMAN" /\ status \in RunFinal /\ runs'[r] # runs[r]
      => \A s \in People(r) : sessions[r][s] \in Outcomes
  <2>1. status = runs[r].status => runs'[r] = runs[r]
    BY <1>1, <1>4 DEF TypeOK, RunRows
  <2> QED
    BY <1>1, <1>4, <2>1 DEF Complete
<1> QED
  BY <1>2, <1>3, <1>4, <1>5, <1>6, VerdictFrame

\* get_capture_token refuses a session that has ended, cancel_run a run that is
\* over.
LEMMA OpenKeepsVerdicts ==
  ASSUME StudyInv, VerdictInv, NEW c \in Clients, CompleteOpen(c) \/ CancelOpen(c)
  PROVE  VerdictInv'
<1> USE DEF StudyInv
<1>1. UNCHANGED <<runs, sessions, late>>
  BY DEF CompleteOpen, CancelOpen
<1>2. \A r \in Runs : People(r)' = People(r)
  BY <1>1 DEF People
<1>3. PICK r \in Made, request \in Txns :
        /\ Open(c, request) /\ request.run = r /\ request.step = "read"
        /\ request.status = runs[r].status
        /\ (\E s \in Slots : sessions[r][s] = "IN_PROGRESS") \/ Active(r)
  <2>0. \A r \in Made : r \in Runs /\ runs[r].status \in RunStatuses
    BY DEF Made, TypeOK, RunRows
  <2>1. CASE CompleteOpen(c)
    <3>1. PICK r \in Made, s \in Slots, outcome \in Outcomes :
            /\ sessions[r][s] = "IN_PROGRESS"
            /\ Open(c, [Idle EXCEPT !.op = "complete", !.run = r, !.slot = s,
                                    !.status = runs[r].status, !.outcome = outcome])
      BY <2>1 DEF CompleteOpen
    <3> DEFINE request == [Idle EXCEPT !.op = "complete", !.run = r, !.slot = s,
                                       !.status = runs[r].status, !.outcome = outcome]
    <3>2. /\ request \in Txns /\ request.run = r /\ request.step = "read"
          /\ request.status = runs[r].status
      BY <2>0, <3>1 DEF Idle, Txns
    <3> QED
      BY <3>1, <3>2
  <2>2. CASE CancelOpen(c)
    <3>1. PICK r \in Made : /\ Active(r)
                            /\ Open(c, [Idle EXCEPT !.op = "cancel", !.run = r,
                                                    !.status = runs[r].status])
      BY <2>2 DEF CancelOpen
    <3> DEFINE request == [Idle EXCEPT !.op = "cancel", !.run = r, !.status = runs[r].status]
    <3>2. /\ request \in Txns /\ request.run = r /\ request.step = "read"
          /\ request.status = runs[r].status
      BY <2>0, <3>1 DEF Idle, Txns
    <3> QED
      BY <3>1, <3>2
  <2> QED
    BY <2>1, <2>2
<1>4. txn'[c] = request /\ \A d \in Clients \ {c} : txn'[d] = txn[d]
  BY <1>3, OpenTyped
<1>5. r \in Runs \ late => runs[r].status \notin RunFinal
  <2> SUFFICES ASSUME NEW s \in Slots, sessions[r][s] = "IN_PROGRESS", r \in Runs \ late
               PROVE  runs[r].status \notin RunFinal
    BY <1>3 DEF Active
  <2>1. s \in People(r) /\ sessions[r][s] \notin Outcomes
    BY DEF People
  <2>2. runs[r].source = "HUMAN"
    BY <2>1 DEF Kinds
  <2> QED
    BY <2>1, <2>2 DEF VerdictInv, OverIsOver
<1>6. LoadedBefore'
  BY <1>1, <1>3, <1>4, <1>5 DEF VerdictInv, LoadedBefore
<1>7. \A d \in Clients, q \in Runs : Completing(d, q)' => Completing(d, q) /\ txn'[d] = txn[d]
  BY <1>3, <1>4 DEF Completing, At
<1>8. OverIsOver'
  <2>1. \A d \in Clients, q \in Runs \ late : Completing(d, q)' /\ txn'[d].last =>
          \A s \in People(q) : View(d, q, s)' \in Outcomes
    BY <1>1, <1>7 DEF VerdictInv, OverIsOver, View
  <2> QED
    BY <1>1, <1>2, <2>1 DEF VerdictInv, OverIsOver
<1> QED
  BY <1>6, <1>8 DEF VerdictInv

\* A session that comes when the run is over, or about to be, makes it late.
LEMMA SessionCommitKeepsVerdicts ==
  ASSUME StudyInv, VerdictInv, NEW c \in Clients, SessionCommit(c)
  PROVE  VerdictInv'
<1> USE DEF StudyInv
<1>1. PICK r \in Runs, s \in Slots :
        /\ r = txn[c].run /\ s \notin People(r)
        /\ sessions' = [sessions EXCEPT ![r][s] = "IN_PROGRESS"]
        /\ runs' = [runs EXCEPT ![r].size = txn[c].size]
        /\ late' = LateWith(r) /\ Close(c)
    BY DEF SessionCommit, At, InFlight, Made
<1>2. \A q \in Runs : runs'[q].status = runs[q].status /\ runs'[q].source = runs[q].source
  <2>1. \A q \in Runs : runs[q] \in RunRows
    BY DEF TypeOK
  <2> QED
    BY <1>1, <2>1 DEF TypeOK, RunRows
<1>3. \A d \in Clients : txn'[d] = txn[d] \/ (txn'[d].op = "idle" /\ txn'[d].step = "read")
  BY <1>1, Closed
<1>4. late \subseteq late' /\ (TooLate(r) => r \in late')
  BY <1>1 DEF LateWith
<1>5. \A q \in Runs \ {r} : sessions'[q] = sessions[q] /\ People(q)' = People(q)
  <2>1. \A q \in Runs \ {r} : sessions'[q] = sessions[q]
    BY <1>1 DEF TypeOK
  <2> QED
    BY <2>1 DEF People
<1>6. \A d \in Clients, q \in Runs : Completing(d, q)' => Completing(d, q) /\ txn'[d] = txn[d]
  BY <1>3 DEF Completing, At
<1>7. r \in Runs \ late' =>
        /\ runs[r].status \notin RunFinal
        /\ \A d \in Clients : Completing(d, r) => ~ txn[d].last
  BY <1>4 DEF TooLate
<1>8. OverIsOver'
  <2>1. \A q \in Runs \ late' : runs'[q].source = "HUMAN" /\ runs'[q].status \in RunFinal =>
          \A x \in People(q)' : sessions'[q][x] \in Outcomes
    BY <1>2, <1>4, <1>5, <1>7 DEF VerdictInv, OverIsOver
  <2>2. ASSUME NEW d \in Clients, NEW q \in Runs \ late', Completing(d, q)', txn'[d].last
        PROVE  \A x \in People(q)' : View(d, q, x)' \in Outcomes
    <3>1. Completing(d, q) /\ txn[d].last /\ txn'[d] = txn[d] /\ q # r
      BY <1>6, <1>7, <2>2
    <3>2. \A x \in People(q) : View(d, q, x) \in Outcomes
      BY <1>4, <3>1 DEF VerdictInv, OverIsOver
    <3> QED
      BY <1>5, <3>1, <3>2 DEF View
  <2> QED
    BY <2>1, <2>2 DEF OverIsOver
<1>9. LoadedBefore'
  BY <1>3, <1>4 DEF VerdictInv, LoadedBefore
<1> QED
  BY <1>8, <1>9 DEF VerdictInv

\* is_run_complete counts what the completion itself has written, and what is
\* committed.
LEMMA CompleteWriteKeepsVerdicts ==
  ASSUME StudyInv, VerdictInv, NEW c \in Clients, CompleteWrite(c)
  PROVE  VerdictInv'
<1> USE DEF StudyInv
<1>1. /\ UNCHANGED <<runs, sessions, late>>
      /\ txn' = [txn EXCEPT ![c].step = "written", ![c].last = AllEnded(c, txn[c].run)]
      /\ txn[c].op = "complete"
  BY DEF CompleteWrite, At
<1>2. /\ \A d \in Clients \ {c} : txn'[d] = txn[d]
      /\ txn'[c].op = txn[c].op /\ txn'[c].run = txn[c].run /\ txn'[c].slot = txn[c].slot
      /\ txn'[c].status = txn[c].status /\ txn'[c].outcome = txn[c].outcome
      /\ txn'[c].last = AllEnded(c, txn[c].run)
  <2> DEFINE new == [txn[c] EXCEPT !.step = "written", !.last = AllEnded(c, txn[c].run)]
  <2>1. txn \in [Clients -> Txns] /\ txn[c] \in Txns
    BY DEF TypeOK
  <2>2. /\ new.op = txn[c].op /\ new.run = txn[c].run /\ new.slot = txn[c].slot
        /\ new.status = txn[c].status /\ new.outcome = txn[c].outcome
        /\ new.last = AllEnded(c, txn[c].run)
    BY <2>1 DEF Txns
  <2>3. txn' = [txn EXCEPT ![c] = new]
    BY <1>1
  <2> HIDE DEF new
  <2> QED
    BY <2>1, <2>2, <2>3
<1>3. \A q \in Runs : People(q)' = People(q)
  BY <1>1 DEF People
<1>4. LoadedBefore'
  BY <1>1, <1>2 DEF VerdictInv, LoadedBefore
<1>5. OverIsOver'
  <2>1. ASSUME NEW d \in Clients, NEW q \in Runs \ late, Completing(d, q)', txn'[d].last
        PROVE  \A x \in People(q) : View(d, q, x)' \in Outcomes
    <3>1. CASE d = c
      <4>1. q = txn[c].run /\ AllEnded(c, q)
        BY <1>2, <2>1, <3>1 DEF Completing
      <4> QED
        BY <1>1, <1>2, <3>1, <4>1 DEF AllEnded, View
    <3>2. CASE d # c
      <4>1. Completing(d, q) /\ txn[d].last /\ txn'[d] = txn[d]
        BY <1>2, <2>1, <3>2 DEF Completing, At
      <4> QED
        BY <1>1, <4>1 DEF VerdictInv, OverIsOver, View
    <3> QED
      BY <3>1, <3>2
  <2> QED
    BY <1>1, <1>3, <2>1 DEF VerdictInv, OverIsOver
<1> QED
  BY <1>4, <1>5 DEF VerdictInv

\* The run is decided by a completion that leaves no session open.
LEMMA CompleteCommitKeepsVerdicts ==
  ASSUME StudyInv, VerdictInv, NEW c \in Clients, CompleteCommit(c)
  PROVE  VerdictInv'
<1> USE DEF StudyInv
<1>1. PICK r \in Runs, s \in Slots :
        /\ r = txn[c].run /\ s = txn[c].slot /\ s \in People(r) /\ txn[c].outcome \in Outcomes
        /\ Completing(c, r) /\ Close(c)
        /\ sessions' = [sessions EXCEPT ![r][s] = txn[c].outcome]
        /\ UNCHANGED late
  BY DEF CompleteCommit, At, InFlight, Made, People, Completing
<1>2. /\ \A q \in Runs \ {r} : sessions'[q] = sessions[q]
      /\ \A x \in Slots \ {s} : sessions'[r][x] = sessions[r][x]
      /\ sessions'[r][s] = txn[c].outcome
  BY <1>1 DEF TypeOK
<1>3. \A q \in Runs : People(q)' = People(q)
  BY <1>1, <1>2 DEF People
<1>4. \A d \in Clients : txn'[d] = txn[d] \/ (txn'[d].op = "idle" /\ txn'[d].step = "read")
  BY <1>1, Closed
<1>5. /\ \A q \in Runs \ {r} : runs'[q] = runs[q]
      /\ runs'[r].source = runs[r].source
      /\ txn[c].last \/ runs'[r].status = runs[r].status
  <2>1. runs[r] \in RunRows
    BY DEF TypeOK
  <2> QED
    BY <1>1, <2>1 DEF CompleteCommit, TypeOK, RunRows
<1>6. \A d \in Clients, q \in Runs : Completing(d, q)' => Completing(d, q) /\ txn'[d] = txn[d]
  BY <1>4 DEF Completing, At
<1>7. LoadedBefore'
  BY <1>1, <1>4 DEF VerdictInv, LoadedBefore
<1>8. r \notin late /\ txn[c].last => \A x \in People(r) : sessions'[r][x] \in Outcomes
  BY <1>1, <1>2 DEF VerdictInv, OverIsOver, View, People
<1>9. \A q \in Runs, x \in Slots : sessions[q][x] \in Outcomes => sessions'[q][x] \in Outcomes
  BY <1>1, <1>2
<1>10. OverIsOver'
  <2>1. ASSUME NEW q \in Runs \ late, runs'[q].source = "HUMAN", runs'[q].status \in RunFinal
        PROVE  \A x \in People(q) : sessions'[q][x] \in Outcomes
    <3>1. CASE q = r /\ txn[c].last
      BY <1>8, <3>1
    <3>2. CASE ~ (q = r /\ txn[c].last)
      BY <1>5, <1>9, <2>1, <3>2 DEF VerdictInv, OverIsOver, People
    <3> QED
      BY <3>1, <3>2
  <2>2. ASSUME NEW d \in Clients, NEW q \in Runs \ late, Completing(d, q)', txn'[d].last
        PROVE  \A x \in People(q) : View(d, q, x)' \in Outcomes
    <3>1. Completing(d, q) /\ txn[d].last /\ txn'[d] = txn[d]
      BY <1>6, <2>2
    <3>2. \A x \in People(q) : View(d, q, x) \in Outcomes
      BY <3>1 DEF VerdictInv, OverIsOver
    <3> QED
      BY <1>9, <3>1, <3>2 DEF View, People
  <2> QED
    BY <1>1, <1>3, <2>1, <2>2 DEF OverIsOver
<1> QED
  BY <1>7, <1>10 DEF VerdictInv

\* Every step keeps the verdicts' invariant.
LEMMA VerdictStep == StudyInv /\ VerdictInv /\ [Next]_vars => VerdictInv'
<1> SUFFICES ASSUME StudyInv, VerdictInv, [Next]_vars PROVE VerdictInv'
  OBVIOUS
<1>1. CASE SetupStep
  <2>1. CASE WriteTask \/ DefineAudience \/ Generate \/ ScreensAnalyzed
    <3>1. UNCHANGED <<runs, sessions, late, txn>>
      BY <2>1 DEF WriteTask, DefineAudience, Generate, ScreensAnalyzed
    <3> QED
      BY <3>1, QuietKeepsVerdicts
  <2> QED
    BY <1>1, <2>1, CreationKeepsVerdicts DEF SetupStep
<1>2. ASSUME NEW c \in Clients, StudyStep(c) \/ CaptureStep(c) PROVE VerdictInv'
  <2>1. CASE \/ PatchOpen(c) \/ PatchCommit(c) \/ DeleteOpen(c) \/ DeleteCommit(c) \/ StartOpen(c)
             \/ PublishOpen(c) \/ PublishWrite(c) \/ CreateCheck(c) \/ SessionOpen(c) \/ Rollback(c)
    BY <2>1, QuietRequests, QuietKeepsVerdicts
  <2>2. CASE CompleteOpen(c) \/ CancelOpen(c)
    BY <2>2, OpenKeepsVerdicts
  <2>3. CASE CreateCommit(c) \/ CancelCommit(c)
    BY <2>3, CreationKeepsVerdicts, CancelKeepsVerdicts
  <2>4. CASE SessionCommit(c) \/ CompleteWrite(c) \/ CompleteCommit(c)
    BY <2>4, SessionCommitKeepsVerdicts, CompleteWriteKeepsVerdicts, CompleteCommitKeepsVerdicts
  <2> QED
    BY <1>2, <2>1, <2>2, <2>3, <2>4 DEF StudyStep, CaptureStep
<1>3. ASSUME NEW r \in Runs, SyntheticRunEnds(r) PROVE VerdictInv'
  BY <1>3, CreationKeepsVerdicts
<1>4. CASE UNCHANGED vars
  <2>1. UNCHANGED <<runs, sessions, late, txn>>
    BY <1>4 DEF vars
  <2> QED
    BY <2>1, QuietKeepsVerdicts
<1> QED
  BY <1>1, <1>2, <1>3, <1>4 DEF Next

\* Only the commit of a completion or a cancel writes the status of a human run
\* that is there.
LEMMA WhoDecides ==
  ASSUME StudyInv, [Next]_vars, NEW r \in Made, runs[r].source = "HUMAN",
         runs'[r].status # runs[r].status
  PROVE  \E c \in Clients : txn[c].run = r /\ (CompleteCommit(c) \/ CancelCommit(c))
<1> USE DEF StudyInv
<1>0. r \in Runs /\ runs \in [Runs -> RunRows]
  BY DEF Made, TypeOK
<1>1. ~ UNCHANGED runs
  OBVIOUS
<1>2. ~ CreateHumanRun /\ \A c \in Clients : ~ CreateCommit(c)
  BY <1>0 DEF CreateHumanRun, CreateCommit
<1>3. \A q \in Runs : ~ SyntheticRunEnds(q)
  BY <1>0 DEF SyntheticRunEnds
<1>4. \A c \in Clients : ~ SessionCommit(c)
  <2> SUFFICES ASSUME NEW c \in Clients, SessionCommit(c) PROVE FALSE
    OBVIOUS
  <2>1. runs' = [runs EXCEPT ![txn[c].run].size = txn[c].size] /\ runs[r] \in RunRows
    BY <1>0 DEF SessionCommit
  <2> QED
    BY <1>0, <2>1 DEF RunRows
<1>5. PICK c \in Clients : StudyStep(c) \/ CaptureStep(c)
  BY <1>1, <1>2, <1>3 DEF Next, vars, SetupStep, WriteTask, DefineAudience, Generate,
    ScreensAnalyzed
<1>6. CompleteCommit(c) \/ CancelCommit(c)
  BY <1>1, <1>2, <1>4, <1>5 DEF StudyStep, CaptureStep, PatchOpen, PatchCommit, DeleteOpen,
    DeleteCommit, StartOpen, PublishOpen, PublishWrite, CreateCheck, CancelOpen, Rollback,
    SessionOpen, CompleteOpen, CompleteWrite
<1>7. txn[c].run = r
  BY <1>0, <1>6 DEF CompleteCommit, CancelCommit
<1> QED
  BY <1>6, <1>7

\* The verdict of a human run is given again only by a request that had loaded
\* the run before it, as long as no session was added after or with the verdict
\* (usecases/journey_capture.py:58-128, core/auth.py:90-107).
THEOREM VerdictIsAlwaysKept == Spec => VerdictIsKept
<1> DEFINE Kept(r) == /\ runs[r].source = "HUMAN" /\ runs[r].status \in RunFinal
                      /\ runs'[r].status # runs[r].status
                      => \E c \in Clients :
                           /\ txn[c].op \in {"complete", "cancel"} /\ txn[c].run = r
                           /\ txn[c].status \notin RunFinal
                           /\ txn'[c] = Idle
<1>1. ASSUME StudyInv, VerdictInv, [Next]_vars, NEW r \in Made \ late PROVE Kept(r)
  <2> SUFFICES ASSUME runs[r].source = "HUMAN", runs'[r].status # runs[r].status
               PROVE  \E c \in Clients :
                        /\ txn[c].op \in {"complete", "cancel"} /\ txn[c].run = r
                        /\ txn[c].status \notin RunFinal /\ txn'[c] = Idle
    OBVIOUS
  <2>1. PICK c \in Clients : txn[c].run = r /\ (CompleteCommit(c) \/ CancelCommit(c))
    BY <1>1, WhoDecides
  <2>2. txn[c].op \in {"complete", "cancel"} /\ Close(c)
    BY <2>1 DEF CompleteCommit, CancelCommit, At
  <2>3. txn[c].status \notin RunFinal
    BY <1>1, <2>1, <2>2 DEF VerdictInv, LoadedBefore, Made
  <2>4. txn'[c] = Idle
    BY <1>1, <2>2, CloseTyped DEF StudyInv
  <2> QED
    BY <2>1, <2>2, <2>3, <2>4
<1>2. StudyInv /\ VerdictInv /\ [Next]_vars => [\A r \in Made \ late : Kept(r)]_vars
  BY <1>1
<1>3. Init => VerdictInv
  <2> SUFFICES ASSUME Init PROVE VerdictInv
    OBVIOUS
  <2>1. /\ \A r \in Runs : runs[r] = NoRun
        /\ \A c \in Clients : txn[c].op = "idle"
    BY DEF Init, Idle
  <2> QED
    BY <2>1 DEF VerdictInv, OverIsOver, LoadedBefore, Completing, At, NoRun
<1> QED
  BY <1>2, <1>3, StudyInvariant, VerdictStep, PTL DEF Spec, VerdictIsKept
=============================================================================
