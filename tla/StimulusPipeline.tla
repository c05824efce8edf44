-------------------------- MODULE StimulusPipeline --------------------------
(***************************************************************************)
(* The stimuli of one study: uploads, request_analysis, and the jobs it    *)
(* starts, analyze_stimulus for a screenshot and import_figma_prototype    *)
(* for a prototype, which write the study's screens, their elements and    *)
(* the one screen graph they all share (usecases/stimulus.py,              *)
(* services/stimulus_service.py, workers/jobs/analyze_stimulus.py and      *)
(* import_figma_prototype.py).                                             *)
(*                                                                         *)
(* A job is one READ COMMITTED transaction.  "txn" holds what it has read  *)
(* and written so far: nobody sees the writes before its commit, but an    *)
(* UPDATE of a row, and a DELETE of one, keeps the row locked until then.  *)
(* A row the session has loaded stays as it was loaded: listing the study  *)
(* does not load the elements of the job's own screen again, and           *)
(* save_screen_analysis adds rows, not members of that list.               *)
(*                                                                         *)
(* A screenshot's stimulus has one screen and shares its name.  created_at *)
(* is the start of the inserting transaction, the same for a bulk upload   *)
(* or an import, so the upload order a job sees is any order.              *)
(***************************************************************************)
EXTENDS ScreenGraphInference, FigmaDocument

CONSTANTS
    Clients,      \* upload requests that can be in flight at once
    MaxScreens,   \* bound: rows of screens
    MaxJobs,      \* bound: rows of jobs
    MaxAttempts,  \* MAX_ATTEMPTS
    Findings,     \* what the model may find on a screenshot: sequences of element keys
    Classifications, \* what it may say of the screens
    Answers,      \* its successive answers about the transitions
    Documents     \* what the Figma file may hold (FigmaDocument)

Nodes == UNION {DOMAIN doc.node : doc \in Documents}
IsASequence(s) == s \in Seq({s[n] : n \in DOMAIN s})
Found == UNION {{found[n] : n \in DOMAIN found} : found \in Findings}

ASSUME StimulusAssumption ==
    /\ MaxScreens \in Nat /\ MaxJobs \in Nat /\ MaxAttempts \in Nat \ {0}
    /\ None \notin Nat /\ Nodes \cap Nat = {}   \* a node id is no slug
    /\ Findings \subseteq Seq(Found)
    /\ \A a \in Answers : DOMAIN a = 1..MaxInferenceAttempts /\ \A n \in DOMAIN a : IsASequence(a[n])

\* A file is a tree, and what is read in it are lists.
ASSUME DocumentAssumption ==
    \A doc \in Documents : \A s \in ParsedScreens(doc) :
      s \in Nodes /\ ElementsOf(doc, s) \in Seq(Nodes)

VARIABLES
    prototype,  \* has the study a stimulus of type figma
    screens,    \* the rows of screens by id, with their elements; "seen" records the
                \* screens the upload knew when it chose the key
    edges,      \* rows of screen_transitions, with the job they are by
    jobs, txn,  \* rows of jobs; the transaction of each
    uploads,    \* what each client has inserted and not committed
    covered,    \* history: the screens of the last committed graph
    missed,     \* history: a job looked for analyses another had not committed
    doubled,    \* history: screens two jobs had loaded without elements at once, or two
                \* imports were replacing the elements of
    loose,      \* history: two jobs replaced the graph at once and had no
                \* screen to write in common
    overtaken   \* history: a graph has replaced one that covered more screens

rows    == <<prototype, screens, edges>>
history == <<covered, missed, doubled, loose, overtaken>>
vars    == <<prototype, screens, edges, jobs, txn, uploads,
             covered, missed, doubled, loose, overtaken>>

Ids   == 1..MaxScreens
Stage == {"idle", "loaded", "analyzed", "inferred", "importing", "clearing",
          "saved", "deleting", "replaced", "ending"}

\* screens.analysis: whose it is and the role stored under "flow".
Unanalyzed == [source |-> "none", flow |-> None]
FromFigma  == [source |-> "figma", flow |-> None]

NoTxn == [at |-> "idle", own |-> None,         \* what get_with_screens has loaded
          analysis |-> <<>>, added |-> <<>>, fresh |-> <<>>, cleared |-> {},
          flows |-> <<>>, graph |-> {}, covers |-> {}, snap |-> {},
          file |-> None, id |-> <<>>,          \* an import: the file, the rows of its screens,
          now |-> None, seen |-> {}]           \* and the elements it is about to delete

Made    == DOMAIN screens
Screenshots == {i \in Made : screens[i].key \in Nat}
Running == {j \in DOMAIN jobs : jobs[j].status = "RUNNING"}

ElementRow(i, key, j) == [screen |-> i, key |-> key, by |-> j]
ElementRows(i) == [screen : {i}, key : Found \cup Nodes, by : 0..MaxJobs]
IsAnalysis(a)  == DOMAIN a = DOMAIN Unanalyzed /\ a.source \in {"none", "vision", "figma"}

TypeOK ==
    /\ prototype \in BOOLEAN
    /\ Made \subseteq Ids
    /\ \A i \in Made :
         /\ DOMAIN screens[i] = {"key", "seen", "analysis", "elements"}
         /\ screens[i].key \in Nat \cup Nodes /\ screens[i].seen \subseteq Made
         /\ IsAnalysis(screens[i].analysis) /\ screens[i].elements \in Seq(ElementRows(i))
    /\ \A t \in edges : t.from \in Made /\ t.to \in Made /\ t.by \in DOMAIN jobs
    /\ jobs \in Seq([screen : Ids \cup {None}, tries : 0..MaxAttempts,
                     status : {"PENDING", "RUNNING", "DONE", "FAILED"}])
    /\ Len(jobs) <= MaxJobs
    /\ \A j \in DOMAIN jobs : jobs[j].screen = None \/ jobs[j].screen \in Screenshots
    /\ DOMAIN txn = 1..MaxJobs
    /\ \A j \in 1..MaxJobs : /\ DOMAIN txn[j] = DOMAIN NoTxn
                             /\ IF j \in Running THEN txn[j].at \in Stage \ {"idle"}
                                                 ELSE txn[j] = NoTxn
    /\ uploads \in [Clients -> Seq([id : Ids, key : Nat, seen : SUBSET Made])]
    /\ covered \subseteq Made /\ doubled \subseteq Made
    /\ missed \in BOOLEAN /\ loose \in BOOLEAN /\ overtaken \in BOOLEAN

\* A new study, or one whose screenshots have been read while nobody inferred
\* the graph.
Init ==
    /\ prototype \in BOOLEAN
    /\ \E n \in {0, MaxScreens}, found \in Findings \ {<<>>} :
         screens = [i \in 1..n |->
           [key |-> i, seen |-> 1..(i - 1), analysis |-> [source |-> "vision", flow |-> None],
            elements |-> [k \in DOMAIN found |-> ElementRow(i, found[k], 0)]]]
    /\ edges = {}
    /\ jobs = <<>>
    /\ txn = [j \in 1..MaxJobs |-> NoTxn]
    /\ uploads = [c \in Clients |-> <<>>]
    /\ covered = {} /\ doubled = {}
    /\ missed = FALSE /\ loose = FALSE /\ overtaken = FALSE

-----------------------------------------------------------------------------
(* Uploads. *)

Uploading(c) == {uploads[c][n].id : n \in DOMAIN uploads[c]}
Inserting == (UNION {Uploading(c) : c \in Clients})
               \cup (UNION {DOMAIN txn[j].fresh : j \in 1..MaxJobs})
FreeIds == (Ids \ Made) \ Inserting

\* Mutant: the keys are numbered per request.
UniqueScreenKeyOfRequest(c) == Len(uploads[c]) + 1

\* _unique_screen_key: "screen", "screen_2", ... : the first one that no screen
\* of the study has, as this transaction sees them.
UniqueScreenKey(c) ==
    LET taken == {screens[i].key : i \in Made} \cup {uploads[c][n].key : n \in DOMAIN uploads[c]}
    IN  Earliest({n \in 1..(MaxScreens + 1) : n \notin taken})

\* One file of create or create_bulk.
UploadFile(c) ==
    /\ FreeIds # {}
    /\ uploads' = [uploads EXCEPT ![c] =
         Append(@, [id |-> Earliest(FreeIds), key |-> UniqueScreenKey(c), seen |-> Made])]
    /\ UNCHANGED <<rows, jobs, txn, history>>

UploadCommit(c) ==
    /\ uploads[c] # <<>>
    /\ screens' = [i \in Made \cup Uploading(c) |->
         IF i \in Made THEN screens[i]
         ELSE LET n == CHOOSE m \in DOMAIN uploads[c] : uploads[c][m].id = i
              IN  [key |-> uploads[c][n].key, analysis |-> Unanalyzed, elements |-> <<>>,
                   seen |-> uploads[c][n].seen \cup {uploads[c][m].id : m \in 1..(n - 1)}]]
    /\ uploads' = [uploads EXCEPT ![c] = <<>>]
    /\ UNCHANGED <<prototype, edges, jobs, txn, history>>

\* The storage refuses a file, or the client goes away.
UploadFails(c) ==
    /\ uploads[c] # <<>>
    /\ uploads' = [uploads EXCEPT ![c] = <<>>]
    /\ UNCHANGED <<rows, jobs, txn, history>>

Orders(S) == {order \in [1..Cardinality(S) -> S] : \A i \in S : \E n \in DOMAIN order : order[n] = i}

\* One job per stimulus, whatever was analyzed before.
RequestAnalysis ==
    LET shots == CHOOSE order \in Orders(Screenshots) : TRUE
        job(i) == [screen |-> i, status |-> "PENDING", tries |-> 0]
        more  == [n \in DOMAIN shots |-> job(shots[n])]
                   \o (IF prototype THEN <<job(None)>> ELSE <<>>)
    IN  /\ more # <<>>
        /\ Len(jobs) + Len(more) <= MaxJobs
        /\ jobs' = jobs \o more
        /\ UNCHANGED <<rows, txn, uploads, history>>

-----------------------------------------------------------------------------
(* Transactions of the jobs. *)

\* f, and g where f is not defined.
Over(f, g) == [x \in DOMAIN f \cup DOMAIN g |-> IF x \in DOMAIN f THEN f[x] ELSE g[x]]

Others(j) == Running \ {j}
At(j, stage) == j \in Running /\ txn[j].at = stage
Goto(j, step) == txn' = [txn EXCEPT ![j] = step]

\* No other job has written one of these rows of screens.
Unlocked(j, S) == \A k \in Others(j) : DOMAIN txn[k].analysis \cap S = {}

Waiting(j) == j \in DOMAIN jobs /\ jobs[j].status = "PENDING"

\* A loop takes the job and opens its session with "step" (JobQueue).
Begin(j, step) ==
    /\ Waiting(j)
    /\ jobs' = [jobs EXCEPT ![j].status = "RUNNING"]
    /\ Goto(j, step)

\* The handler fails, or a deadlock or a foreign key makes it fail: rollback,
\* and again up to the last attempt.
HandlerRaises(j) ==
    /\ j \in Running
    /\ jobs' = [jobs EXCEPT ![j].tries = @ + 1,
                            ![j].status = IF jobs[j].tries + 1 < MaxAttempts THEN "PENDING"
                                                                             ELSE "FAILED"]
    /\ Goto(j, NoTxn)
    /\ UNCHANGED <<rows, uploads, history>>

-----------------------------------------------------------------------------
(* analyze_stimulus. *)

\* get_with_screens
Load(j) ==
    /\ Waiting(j) /\ jobs[j].screen # None
    /\ Begin(j, [NoTxn EXCEPT !.at = "loaded", !.own = screens[jobs[j].screen]])
    /\ doubled' = IF /\ screens[jobs[j].screen].elements = <<>>
                     /\ \E k \in Others(j) : jobs[k].screen = jobs[j].screen
                  THEN doubled \cup {jobs[j].screen} ELSE doubled
    /\ UNCHANGED <<rows, uploads, covered, missed, loose, overtaken>>

\* save_screen_analysis: the analysis is replaced, the elements are added.
SaveScreenAnalysis(j, found) ==
    LET i == jobs[j].screen
    IN  /\ Unlocked(j, {i})
        /\ Goto(j, [txn[j] EXCEPT
             !.at = "analyzed",
             !.analysis = [k \in {i} |-> [source |-> "vision", flow |-> None]],
             !.added = [k \in {i} |-> [n \in DOMAIN found |-> ElementRow(k, found[n], j)]]])

\* Mutant: a screen that was read before is read again.
AnalyzeAgain(j) ==
    /\ At(j, "loaded")
    /\ \E found \in Findings : SaveScreenAnalysis(j, found)
    /\ UNCHANGED <<rows, jobs, uploads, history>>

\* A screen that had elements is skipped; the others go to analyze_screen.
Analyze(j) ==
    /\ At(j, "loaded")
    /\ IF txn[j].own.elements # <<>>
       THEN Goto(j, [txn[j] EXCEPT !.at = "analyzed"])
       ELSE \E found \in Findings : SaveScreenAnalysis(j, found)
    /\ UNCHANGED <<rows, jobs, uploads, history>>

\* Mutant: the job looks at the analyses that are committed.
AnalysisCommitted(j, i) == screens[i].analysis

\* screens.analysis as the session has it.
AnalysisSeen(j, i) ==
    IF i \in DOMAIN txn[j].analysis THEN txn[j].analysis[i]
    ELSE IF i = jobs[j].screen THEN txn[j].own.analysis
    ELSE screens[i].analysis

Ready(j) ==
    /\ \A i \in Made : AnalysisSeen(j, i) # Unanalyzed
    /\ Cardinality(Made) >= 2

\* "Only the job that finds every sibling screen already analyzed" goes on.
StopEarly(j) ==
    /\ At(j, "analyzed")
    /\ ~ Ready(j)
    /\ Goto(j, [txn[j] EXCEPT !.at = "ending"])
    /\ missed' = (missed \/ \E k \in Others(j) : DOMAIN txn[k].analysis # {})
    /\ UNCHANGED <<rows, jobs, uploads, covered, doubled, loose, overtaken>>

\* The job's own screen has the elements it was loaded with.
Listed(j, order) ==
    [n \in DOMAIN order |->
       [id |-> order[n], key |-> screens[order[n]].key,
        elements |-> IF order[n] = jobs[j].screen THEN txn[j].own.elements
                                                  ELSE screens[order[n]].elements]]

\* classify_screens, then infer_transitions over the surviving screens; with
\* fewer than two of them the model is not asked.
Infer(j) ==
    /\ At(j, "analyzed")
    /\ Ready(j)
    /\ \E order \in Orders(Made), reports \in Classifications, answers \in Answers :
         LET listed    == Listed(j, order)
             roles     == ResolveScreenRoles(listed, reports)
             canonical == CanonicalScreenKeys(roles)
             given     == IF Cardinality(Surviving(listed, canonical)) < 2
                          THEN [n \in DOMAIN answers |-> <<>>] ELSE answers
             flow(i)   == [AnalysisSeen(j, i) EXCEPT !.flow = roles[screens[i].key]]
             written   == {i \in Made : /\ screens[i].key \in DOMAIN roles
                                        /\ AnalysisSeen(j, i) # flow(i)}
         IN  Goto(j, [txn[j] EXCEPT
               !.at = "inferred",
               !.flows = [i \in written |-> flow(i)],
               !.graph = InferBestTransitions(listed, canonical,
                           Holder(listed, reports, "entry"), Holder(listed, reports, "success"),
                           given),
               !.covers = Made])
    /\ UNCHANGED <<rows, jobs, uploads, history>>

\* Mutant: the roles are kept and written with the commit.
SaveScreenRolesLater(j) ==
    /\ At(j, "inferred")
    /\ Goto(j, [txn[j] EXCEPT !.at = "saved"])
    /\ UNCHANGED <<rows, jobs, uploads, history>>

\* save_screen_roles: only rows that change are written, and stay locked.
SaveScreenRoles(j) ==
    /\ At(j, "inferred")
    /\ Unlocked(j, DOMAIN txn[j].flows)
    /\ Goto(j, [txn[j] EXCEPT !.at = "saved", !.analysis = Over(txn[j].flows, @)])
    /\ UNCHANGED <<rows, jobs, uploads, history>>

-----------------------------------------------------------------------------
(* import_figma_prototype. *)

Elements(i) == {screens[i].elements[n] : n \in DOMAIN screens[i].elements}

\* A foreign key: a transition keeps its trigger, and one that another job is
\* inserting or deleting makes the DELETE of the trigger wait.
Referenced(j, E) ==
    \/ \E t \in edges : t.trigger \in E
    \/ \E k \in Others(j) : txn[k].at = "replaced" /\ \E t \in txn[k].graph : t.trigger \in E

\* What parse_document makes of the file.
Parsed == {[elements |-> [s \in ParsedScreens(doc) |-> ElementsOf(doc, s)],
            hotspots |-> Hotspots(doc)] : doc \in Documents}

\* get_with_screens, and the file as it is now. One without screens is refused: such
\* a file is not in Documents.
LoadPrototype(j) ==
    /\ Waiting(j) /\ jobs[j].screen = None
    /\ \E file \in Parsed :
         Begin(j, [NoTxn EXCEPT !.at = "importing", !.file = file,
                                !.own = [i \in Made \ Screenshots |-> screens[i].analysis]])
    /\ UNCHANGED <<rows, uploads, history>>

\* The screens are upserted in turn.
Unsaved(j) == DOMAIN txn[j].file.elements \ DOMAIN txn[j].id
RowsOf(n)  == {i \in Made : screens[i].key = n}

\* The import has replaced the elements of row i, or is about to.
Replaces(j, i) == i \in DOMAIN txn[j].added \/ i = txn[j].now

\* The element rows of node n of a file, for row i of screens.
NodeRows(file, n, i, j) ==
    [m \in DOMAIN file.elements[n] |-> ElementRow(i, file.elements[n][m], j)]

\* They are inserted.
Saved(j, n, i) ==
    [txn[j] EXCEPT
       !.at = "importing", !.now = None, !.seen = {},
       !.id = Over([m \in {n} |-> i], @),
       !.added = Over([k \in {i} |-> NodeRows(txn[j].file, n, k, j)], @)]

\* save_figma_screen, for a node no row of this stimulus has.
InsertScreen(j) ==
    /\ At(j, "importing") /\ FreeIds # {}
    /\ \E n \in Unsaved(j) :
         LET i == Earliest(FreeIds)
         IN  /\ RowsOf(n) = {}
             /\ Goto(j, [Saved(j, n, i) EXCEPT
                           !.fresh = Over([k \in {i} |-> n], @),
                           !.analysis = Over([k \in {i} |-> FromFigma], @)])
    /\ UNCHANGED <<rows, jobs, uploads, history>>

\* For one that has a row: the DELETE of its elements starts, those it can see.
ClearElements(j) ==
    /\ At(j, "importing")
    /\ \E n \in Unsaved(j) : \E i \in RowsOf(n) :
         /\ Goto(j, [txn[j] EXCEPT !.at = "clearing", !.now = i, !.seen = Elements(i)])
         /\ doubled' = IF \E k \in Others(j) : Replaces(k, i) THEN doubled \cup {i} ELSE doubled
    /\ UNCHANGED <<rows, jobs, uploads, covered, missed, loose, overtaken>>

\* It waits for a DELETE of the same rows and deletes what that one has left; those
\* inserted meanwhile stay.  Then the row is written over, unless it was loaded like
\* that: neither has the frame another name, nor has it been given a role.
ReplaceElements(j) ==
    LET i    == txn[j].now
        gone == txn[j].seen \cap Elements(i)
        was  == IF i \in DOMAIN txn[j].own THEN txn[j].own[i] ELSE screens[i].analysis
    IN  /\ At(j, "clearing")
        /\ \A k \in Others(j) : txn[k].cleared \cap gone = {}
        /\ ~ Referenced(j, gone)
        /\ \E same \in BOOLEAN :
             /\ same => was = FromFigma
             /\ ~ same => Unlocked(j, {i})
             /\ Goto(j, [Saved(j, screens[i].key, i) EXCEPT
                           !.cleared = @ \cup gone,
                           !.analysis = IF same THEN @ ELSE Over([k \in {i} |-> FromFigma], @)])
    /\ UNCHANGED <<rows, jobs, uploads, history>>

\* _resolve_transitions, when all screens are saved.
ResolveHotspots(j) ==
    LET id == txn[j].id
    IN  /\ At(j, "importing") /\ Unsaved(j) = {}
        /\ Goto(j, [txn[j] EXCEPT
             !.at = "saved", !.own = None, !.file = None, !.id = <<>>,
             !.graph = {[from |-> id[h.from], trigger |-> ElementRow(id[h.from], h.trigger, j),
                         to |-> id[h.to]] : h \in txn[j].file.hotspots},
             !.covers = {id[n] : n \in DOMAIN id}])
        /\ UNCHANGED <<rows, jobs, uploads, history>>

-----------------------------------------------------------------------------
(* replace_transitions_for_study, and the commit. *)

\* The elements a job has inserted; those that jobs have deleted and not committed.
Own(j)   == UNION {{txn[j].added[i][n] : n \in DOMAIN txn[j].added[i]} : i \in DOMAIN txn[j].added}
Clearing == UNION {txn[k].cleared : k \in Running}

\* The DELETE starts: the transitions it can see.
DeleteTransitions(j) ==
    /\ At(j, "saved")
    /\ Goto(j, [txn[j] EXCEPT !.at = "deleting", !.snap = edges])
    /\ loose' = (loose \/ \E k \in Others(j) :
                   /\ txn[k].at \in {"deleting", "replaced"}
                   /\ DOMAIN txn[k].flows \cap DOMAIN txn[j].flows = {})
    /\ UNCHANGED <<rows, jobs, uploads, covered, missed, doubled, overtaken>>

\* It waits for a DELETE of the same rows; then the new ones are inserted, if
\* their triggers are there and nobody is deleting them.
InsertTransitions(j) ==
    /\ At(j, "deleting")
    /\ \A k \in Others(j) : txn[k].at = "replaced" => txn[k].snap \cap txn[j].snap \cap edges = {}
    /\ \A t \in txn[j].graph :
         t.trigger \in Own(j) \cup ((UNION {Elements(i) : i \in Made}) \ Clearing)
    /\ Goto(j, [txn[j] EXCEPT !.at = "replaced"])
    /\ UNCHANGED <<rows, jobs, uploads, history>>

\* The rows of s that are not in E, as SelectSeq has them.
Without(s, E) ==
    LET left[n \in 0..Len(s)] == IF n = 0 THEN <<>>
                                 ELSE IF s[n] \in E THEN left[n - 1] ELSE Append(left[n - 1], s[n])
    IN  left[Len(s)]

\* The worker's commit.
Commit(j) ==
    LET t == txn[j]
        values == Over(t.flows, t.analysis)
        added(i) == IF i \in DOMAIN t.added THEN t.added[i] ELSE <<>>
        analysis(i) == IF i \in DOMAIN values THEN values[i] ELSE screens[i].analysis
    IN  /\ j \in Running /\ t.at \in {"ending", "replaced"}
        /\ screens' = [i \in Made \cup DOMAIN t.fresh |->
             IF i \in DOMAIN t.fresh
             THEN [key |-> t.fresh[i], seen |-> Made, analysis |-> t.analysis[i],
                   elements |-> t.added[i]]
             ELSE [screens[i] EXCEPT
                     !.analysis = analysis(i),
                     !.elements = Without(@, t.cleared) \o added(i)]]
        /\ IF t.at = "ending" THEN UNCHANGED <<edges, covered, overtaken>>
           ELSE /\ edges' = (edges \ t.snap)
                              \cup {[from |-> e.from, trigger |-> e.trigger, to |-> e.to, by |-> j] :
                                      e \in t.graph}
                /\ covered' = t.covers
                /\ overtaken' = (overtaken \/ ~ covered \subseteq t.covers)
        /\ jobs' = [jobs EXCEPT ![j].status = "DONE"]
        /\ Goto(j, NoTxn)
        /\ UNCHANGED <<prototype, uploads, missed, doubled, loose>>

-----------------------------------------------------------------------------
UploadStep(c) == UploadFile(c) \/ UploadCommit(c) \/ UploadFails(c)
JobStep(j) == \/ HandlerRaises(j)
              \/ Load(j) \/ Analyze(j) \/ StopEarly(j) \/ Infer(j) \/ SaveScreenRoles(j)
              \/ LoadPrototype(j) \/ InsertScreen(j) \/ ClearElements(j) \/ ReplaceElements(j)
              \/ ResolveHotspots(j)
              \/ DeleteTransitions(j) \/ InsertTransitions(j) \/ Commit(j)

Next == \/ \E c \in Clients : UploadStep(c)
        \/ RequestAnalysis
        \/ \E j \in 1..MaxJobs : JobStep(j)

Spec == Init /\ [][Next]_vars

-----------------------------------------------------------------------------
(* Properties. *)

\* Two screenshots of a study share a screen_key only if the later one's
\* key was chosen before the earlier one was committed: a study's keys are told
\* apart by a read, and no constraint. (stimulus_service.py:128-148)
KeysClashOnlyByOverlap ==
    \A i, k \in Screenshots :
      i # k /\ screens[i].key = screens[k].key
        => i \notin screens[k].seen /\ k \notin screens[i].seen

\* The elements of a screen are those of one reading, or of one import, unless two jobs
\* of the stimulus had both loaded the screen without elements, or one started to delete
\* them while another's were not committed: jobs that follow each other, or are tried
\* again, skip what was read and replace what was imported.
\* (analyze_stimulus.py:267-269, stimulus_service.py:310-344, usecases/stimulus.py:121-131)
ElementsDoubleOnlyByOverlap ==
    \A i \in Made \ doubled :
      \A n, m \in DOMAIN screens[i].elements :
        screens[i].elements[n].by = screens[i].elements[m].by

\* The rows are well formed, and screens are read once but for that.
StimulusInv == TypeOK /\ ElementsDoubleOnlyByOverlap

\* Every stored transition hangs on an element of the screen it leaves, after twins
\* were collapsed, elements doubled or replaced, whoever wrote the graph, and an
\* inferred one leads to another screen, as long as no two screens share a key; else
\* execute_action never fires it. (analyze_stimulus.py:136-164,
\* import_figma_prototype.py:48-67, simulation_graph.py:465-473)
EveryEdgeCanFire ==
    \/ \E i, k \in Made : i # k /\ screens[i].key = screens[k].key
    \/ \A t \in edges :
         /\ t.trigger \in Elements(t.from)
         /\ jobs[t.by].screen # None => t.from # t.to

\* No element leads to two screens, unless two jobs replaced the graph at once
\* without having a screen to write in common: the lock that serialises them is
\* that of the rows save_screen_roles has changed, which a repeated answer does
\* not change and an import does not touch. (analyze_stimulus.py:126-134, 306-324)
OneDestination ==
    loose \/ \A t, u \in edges : t.trigger = u.trigger => t.to = u.to

Quiet == \A j \in DOMAIN jobs : jobs[j].status = "DONE"

\* When every job is done and every screen has been analyzed, the graph in place has
\* been inferred over all of them, unless a job looked before another's analysis was
\* committed, for then all may have left it to each other, or one that had looked at
\* fewer screens was the last to commit. (analyze_stimulus.py:281-298, 306-324)
SomebodyInfers ==
    /\ Quiet /\ ~ missed /\ ~ overtaken /\ ~ prototype /\ jobs # <<>>
    /\ Cardinality(Made) >= 2 /\ \A i \in Made : screens[i].analysis # Unanalyzed
    => covered = Made

\* analyze_stimulus.py:255-258: analyze_stimulus "re-infers the screen graph ...
\* across every analyzed screen in the whole study".  So where all answers agree
\* on an edge, and its trigger has been found, the inferred graph has it.
GraphIsWhole ==
    Quiet /\ ~ prototype /\ covered = Made =>
      \A answers \in Answers : \A n \in DOMAIN answers[1] :
        LET edge == answers[1][n]
        IN  \A i, k \in Made :
              /\ screens[i].key = edge.from /\ screens[k].key = edge.to
              /\ \E e \in Elements(i) : e.key = edge.element
              => \E t \in edges : t.from = i /\ t.to = k

-----------------------------------------------------------------------------
(* The inductive invariant. *)

\* The rows that are being inserted are each one transaction's own.
IdsApart ==
    /\ \A c \in Clients :
         /\ Uploading(c) \cap Made = {}
         /\ \A n, m \in DOMAIN uploads[c] : uploads[c][n].id = uploads[c][m].id => n = m
         /\ \A d \in Clients \ {c} : Uploading(c) \cap Uploading(d) = {}
         /\ \A j \in 1..MaxJobs : Uploading(c) \cap DOMAIN txn[j].fresh = {}
    /\ \A j \in 1..MaxJobs :
         /\ DOMAIN txn[j].fresh \subseteq Ids \ Made
         /\ \A k \in 1..MaxJobs \ {j} : DOMAIN txn[j].fresh \cap DOMAIN txn[k].fresh = {}

\* The screens a transaction can see.
Visible(j) == Made \cup DOMAIN txn[j].fresh

WritesFit(j) ==
    /\ DOMAIN txn[j].flows \subseteq Made
    /\ DOMAIN txn[j].analysis \subseteq Visible(j) /\ DOMAIN txn[j].added \subseteq Visible(j)
    /\ \A i \in DOMAIN txn[j].flows : IsAnalysis(txn[j].flows[i])
    /\ \A i \in DOMAIN txn[j].analysis : IsAnalysis(txn[j].analysis[i])
    /\ \A i \in DOMAIN txn[j].added :
         /\ txn[j].added[i] \in Seq(ElementRows(i))
         /\ \A n \in DOMAIN txn[j].added[i] : txn[j].added[i][n].by = j
    /\ \A e \in txn[j].graph : e.from \in Visible(j) /\ e.to \in Visible(j)
    /\ txn[j].covers \subseteq Visible(j)

\* analyze_stimulus: it writes the elements of its screen if it has found none.
ReadingFits(j) ==
    /\ txn[j].at \notin {"importing", "clearing"}
    /\ txn[j].own.elements \in Seq(ElementRows(jobs[j].screen))
    /\ IsAnalysis(txn[j].own.analysis)
    /\ DOMAIN txn[j].fresh = {} /\ txn[j].cleared = {} /\ txn[j].now = None
    /\ DOMAIN txn[j].added \subseteq DOMAIN txn[j].analysis \cap {jobs[j].screen}
    /\ DOMAIN txn[j].added # {} => txn[j].own.elements = <<>>
    /\ txn[j].at = "loaded" => DOMAIN txn[j].analysis = {} /\ DOMAIN txn[j].added = {}
    /\ txn[j].at \in {"loaded", "analyzed"} => DOMAIN txn[j].flows = {}

\* The screens of the file that are saved have their rows, and these their elements.
FileFits(j) ==
    /\ txn[j].file \in Parsed /\ DOMAIN txn[j].id \subseteq DOMAIN txn[j].file.elements
    /\ \A n \in DOMAIN txn[j].id :
         LET i == txn[j].id[n]
         IN  /\ i \in Visible(j)
             /\ n = IF i \in Made THEN screens[i].key ELSE txn[j].fresh[i]
             /\ i \in DOMAIN txn[j].added
             /\ txn[j].added[i] = NodeRows(txn[j].file, n, i, j)
    /\ IF txn[j].at = "clearing"
       THEN txn[j].now \in Made /\ screens[txn[j].now].key \in Unsaved(j)
       ELSE txn[j].now = None

\* import_figma_prototype: it writes the elements of screens of the prototype.
ImportFits(j) ==
    /\ txn[j].at \in {"importing", "clearing", "saved", "deleting", "replaced"}
    /\ DOMAIN txn[j].flows = {}
    /\ \A i \in DOMAIN txn[j].fresh : txn[j].fresh[i] \in Nodes
    /\ DOMAIN txn[j].fresh \subseteq DOMAIN txn[j].analysis \cap DOMAIN txn[j].added
    /\ DOMAIN txn[j].added \cap Screenshots = {}
    /\ \A e \in txn[j].cleared : e.screen \in DOMAIN txn[j].added
    /\ IF txn[j].at \in {"importing", "clearing"} THEN FileFits(j) /\ txn[j].graph = {}
                                                 ELSE txn[j].now = None

TxnFits ==
    \A j \in Running :
      WritesFit(j) /\ IF jobs[j].screen = None THEN ImportFits(j) ELSE ReadingFits(j)

\* Of two screens of a study, one was there when the other's key was chosen or they
\* may share it.
KeysTold ==
    /\ \A k \in Screenshots : \A i \in screens[k].seen :
         i # k /\ screens[i].key # screens[k].key
    /\ \A c \in Clients : \A n \in DOMAIN uploads[c] :
         /\ \A i \in uploads[c][n].seen : screens[i].key # uploads[c][n].key
         /\ \A m \in 1..(n - 1) : uploads[c][m].key # uploads[c][n].key

\* Whoever is to read a screen is alone with it.
ReadOnce ==
    \A j \in Running : jobs[j].screen \in Screenshots \ doubled /\ txn[j].own.elements = <<>> =>
      /\ screens[jobs[j].screen].elements = <<>>
      /\ \A k \in Others(j) : jobs[k].screen # jobs[j].screen

\* Whoever replaces the elements of a screen is alone with it, and deletes them all.
ReplacedOnce ==
    \A j \in Running : \A i \in Made \ doubled : jobs[j].screen = None /\ Replaces(j, i) =>
      /\ \A k \in Others(j) : ~ Replaces(k, i)
      /\ i = txn[j].now => txn[j].seen = Elements(i)
      /\ i \in DOMAIN txn[j].added => Elements(i) \subseteq txn[j].cleared

\* A job that may run has an attempt left.
AttemptLeft ==
    \A j \in DOMAIN jobs : jobs[j].status \in {"PENDING", "RUNNING"} => jobs[j].tries < MaxAttempts

RowsSafe ==
    /\ TypeOK /\ IdsApart /\ TxnFits /\ AttemptLeft
    /\ KeysTold /\ ElementsDoubleOnlyByOverlap /\ ReadOnce

Clash == \E i, k \in Made : i # k /\ screens[i].key = screens[k].key
\* Elements are committed, and so are those that are being deleted.
RowsFinished ==
    LET finished == {0} \cup {k \in DOMAIN jobs : jobs[k].status = "DONE"}
    IN  /\ \A i \in Made : \A e \in Elements(i) : e.by \in finished
        /\ \A e \in Clearing : e.by \in finished

\* No transition, in place or about to be, hangs on an element that is being deleted.
TriggersKept ==
    /\ \A t \in edges :
         /\ t.trigger \in Elements(t.from) /\ t.trigger \notin Clearing
         /\ jobs[t.by].screen # None => t.from # t.to
    /\ \A j \in Running : \A e \in txn[j].graph :
         /\ e.trigger.screen = e.from
         /\ jobs[j].screen # None => e.from # e.to
         /\ txn[j].at = "replaced" =>
              \/ e.trigger \in Own(j)
              \/ e.trigger \notin Clearing /\ \E i \in Made : e.trigger \in Elements(i)

FireInv == RowsFinished /\ (Clash \/ TriggersKept)

\* The roles a job has written are locked until its commit.
FlowsLocked ==
    \A j \in Running : txn[j].at \in {"saved", "deleting", "replaced"} =>
      /\ DOMAIN txn[j].flows \subseteq DOMAIN txn[j].analysis
      /\ \A k \in Others(j) : txn[k].at \in {"saved", "deleting", "replaced"}
                                => DOMAIN txn[j].flows \cap DOMAIN txn[k].flows = {}

Replacing == {j \in Running : txn[j].at \in {"deleting", "replaced"}}

OneReplaces ==
    loose \/ \A j \in Replacing : txn[j].snap = edges /\ Replacing = {j}

GraphsAreMaps ==
    \A j \in Running : \A d, e \in txn[j].graph : d.trigger = e.trigger => d.to = e.to

MapInv == FlowsLocked /\ OneReplaces /\ GraphsAreMaps /\ OneDestination

\* A job looks at the analyses of the study once, between these.
BeforeLook == {"loaded", "analyzed"}
AfterInfer == {"inferred", "saved", "deleting", "replaced"}

Unread == {i \in Made : screens[i].analysis = Unanalyzed}
Read(a) == a.source \in {"vision", "figma"}

\* Whoever has found elements of its screen has its analysis, and what a session writes
\* are analyses, of its own screen or of one that is read.
SessionFits(j) ==
    LET t   == txn[j]
        own == jobs[j].screen
    IN  /\ t.own.analysis = Unanalyzed \/ (Read(t.own.analysis) /\ own \notin Unread)
        /\ t.own.elements # <<>> => t.own.analysis # Unanalyzed
        /\ t.own.elements = <<>> /\ t.at # "loaded" => own \in DOMAIN t.analysis
        /\ \A i \in DOMAIN t.flows : Read(t.flows[i]) /\ (i = own \/ i \notin Unread)
        /\ \A i \in DOMAIN t.analysis : Read(t.analysis[i]) /\ (i = own \/ i \notin Unread)
        /\ t.at \in AfterInfer => own \in t.covers

AnalysesFit ==
    /\ \A i \in Made : /\ i \notin Unread => Read(screens[i].analysis)
                       /\ screens[i].elements # <<>> => i \notin Unread
    /\ \A j \in Running : SessionFits(j)

\* Nobody who has looked is about to commit an analysis of screen i.
ToBeRead(i) == i \in Unread /\ \A k \in Running : jobs[k].screen = i => txn[k].at \in BeforeLook

\* What a job leaves to others, or does not cover.
Leaves(j) ==
    /\ txn[j].at = "ending" =>
         Made = {jobs[j].screen} \/ \E i \in Made \ {jobs[j].screen} : ToBeRead(i)
    /\ txn[j].at \in AfterInfer => \A i \in Made \ txn[j].covers : ToBeRead(i)

\* While its own analysis is not committed, that of what it leaves is not, either: it
\* makes the others stop early, and they have "missed" it.
LeftToOthers == \A j \in Running : jobs[j].screen \in Unread => Leaves(j)

\* Once all screens are read the graph is inferred over them, or some job may do so.
MayCover(j) ==
    \/ jobs[j].status \in {"PENDING", "FAILED"}
    \/ j \in Running /\ txn[j].at \in BeforeLook
    \/ j \in Running /\ txn[j].at \in AfterInfer /\ txn[j].covers = Made

SomebodyWill ==
    Unread = {} /\ Cardinality(Made) >= 2 /\ jobs # <<>> =>
      covered = Made \/ \E j \in DOMAIN jobs : MayCover(j)

InferInv ==
    prototype \/
      /\ \A j \in DOMAIN jobs : jobs[j].screen # None
      /\ AnalysesFit
      /\ missed \/ (LeftToOthers /\ (overtaken \/ SomebodyWill))
=============================================================================
