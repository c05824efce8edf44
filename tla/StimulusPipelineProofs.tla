----------------------- MODULE StimulusPipelineProofs -----------------------
(***************************************************************************)
(* Proofs about StimulusPipeline, for any clients, jobs, screens, answers  *)
(* of the model and Figma files.                                           *)
(*                                                                         *)
(* RowsSafe is what every row is: typed, its id one transaction's own, a   *)
(* key that was none of those its upload saw, the elements of one reading. *)
(* With ReplacedOnce, that an import which replaces the elements of a      *)
(* screen is alone with them, it is inductive, and three independent       *)
(* arguments rest on it.  FireInv: a DELETE of elements has no transition  *)
(* on them, in place or being inserted, and no INSERT of a transition has  *)
(* its trigger deleted under it.  MapInv: the rows that save_screen_roles  *)
(* has written stay locked, so whoever replaces the graph is alone with    *)
(* it.  InferInv: the last screen to be read is that of a job that has     *)
(* seen all the others read.                                               *)
(***************************************************************************)
EXTENDS StimulusPipeline, FiniteSetTheorems, WellFoundedInduction, TLAPS

\* A set of naturals has a least member.
LEMMA LeastOfSet ==
    ASSUME NEW T \in SUBSET Nat, T # {}
    PROVE  Earliest(T) \in T /\ \A m \in T : Earliest(T) <= m
<1>1. PICK n \in T : \A y \in T : ~ (<<y, n>> \in OpToRel(<, Nat))
  BY WFMin, NatLessThanWellFounded
<1>2. ASSUME NEW y \in T PROVE n <= y
  <2>1. ~ (<<y, n>> \in OpToRel(<, Nat))
    BY <1>1
  <2>2. <<y, n>> \in OpToRel(<, Nat) <=> y < n
    BY DEF OpToRel
  <2>3. ~ (y < n)
    BY <2>1, <2>2
  <2>4. y \in Nat /\ n \in Nat
    OBVIOUS
  <2> QED BY <2>3, <2>4
<1> QED BY <1>2 DEF Earliest

\* A finite one has a greatest member, too.
LEMMA GreatestOfSet ==
    ASSUME NEW N \in Nat, NEW T \in SUBSET (0..N), T # {}
    PROVE  Latest(T) \in T /\ \A m \in T : m <= Latest(T)
<1> DEFINE Above == {n \in Nat : \A m \in T : m <= n}
<1>1. N \in Above
  OBVIOUS
<1> DEFINE n == Earliest(Above)
<1>2. n \in Above /\ \A m \in Above : n <= m
  BY <1>1, LeastOfSet
<1> HIDE DEF n
<1>3. n \in T
  <2> SUFFICES ASSUME n \notin T PROVE FALSE
    OBVIOUS
  <2>1. \A m \in T : m <= n - 1
    BY <1>2
  <2>2. n - 1 \in Nat
    <3>1. PICK m \in T : m <= n /\ m # n
      BY <1>2
    <3> QED BY <1>2, <3>1
  <2>3. n - 1 \in Above
    BY <2>1, <2>2
  <2> QED BY <1>2, <2>2, <2>3
<1> QED BY <1>2, <1>3 DEF Latest

IsListing(S) == \E n \in Nat : DOMAIN S = 1..n

\* The place of a key that some screen has.
LEMMA PlaceOfKey ==
    ASSUME NEW S, IsListing(S), NEW key \in Known(S)
    PROVE  Place(S, key) \in DOMAIN S /\ S[Place(S, key)].key = key
<1>1. PICK n \in Nat : DOMAIN S = 1..n
  BY DEF IsListing
<1> DEFINE T == {i \in DOMAIN S : S[i].key = key}
<1>2. T \in SUBSET (0..n) /\ T # {}
  BY <1>1 DEF Known
<1>3. Latest(T) \in T
  BY <1>2, GreatestOfSet
<1> QED BY <1>3 DEF Place

\* A trigger is an element of a screen that has its key.
LEMMA TriggerOfRows ==
    ASSUME NEW S, IsListing(S), \A i \in DOMAIN S : IsListing(S[i].elements),
           NEW key, NEW element, Rows(S, key, element) # {}
    PROVE  \E i \in DOMAIN S : /\ S[i].key = key
                               /\ \E n \in DOMAIN S[i].elements : Trigger(S, key, element) = S[i].elements[n]
<1> DEFINE R == Rows(S, key, element)
<1>1. \A x \in R : \E i \in DOMAIN S : /\ S[i].key = key
                                      /\ \E n \in DOMAIN S[i].elements : x = <<i, n>>
  BY DEF Rows
<1>2. \E x \in R : \A y \in R : y[1] < x[1] \/ (y[1] = x[1] /\ y[2] <= x[2])
  <2>1. PICK N \in Nat : DOMAIN S = 1..N
    BY DEF IsListing
  <2> DEFINE I == {x[1] : x \in R}
  <2>2. I \in SUBSET (0..N) /\ I # {}
    BY <1>1, <2>1
  <2> DEFINE i == Latest(I)
  <2>3. i \in I /\ \A m \in I : m <= i
    BY <2>2, GreatestOfSet
  <2> HIDE DEF i
  <2> DEFINE J == {x[2] : x \in {y \in R : y[1] = i}}
  <2>4. i \in 1..N
    BY <1>1, <2>1, <2>3
  <2>5. PICK M \in Nat : DOMAIN S[i].elements = 1..M
    BY <2>1, <2>4 DEF IsListing
  <2>6. J \in SUBSET (0..M) /\ J # {}
    BY <1>1, <2>3, <2>5
  <2> DEFINE n == Latest(J)
  <2>7. n \in J /\ \A m \in J : m <= n
    BY <2>6, GreatestOfSet
  <2> HIDE DEF n
  <2>8. PICK x \in R : x[1] = i /\ x[2] = n
    BY <2>7
  <2>9. \A y \in R : y[1] \in 1..N /\ y[1] <= i /\ (y[1] = i => y[2] <= n)
    BY <1>1, <2>1, <2>3, <2>7
  <2> QED BY <2>4, <2>8, <2>9
<1> DEFINE last == CHOOSE x \in R : \A y \in R : y[1] < x[1] \/ (y[1] = x[1] /\ y[2] <= x[2])
<1>3. last \in R
  BY <1>2
<1>4. Trigger(S, key, element) = S[last[1]].elements[last[2]]
  BY DEF Trigger
<1> HIDE DEF last, R
<1> QED BY <1>1, <1>3, <1>4

\* What a resolved transition is made of.
LEMMA ResolvedEdge ==
    ASSUME NEW S, IsListing(S), \A i \in DOMAIN S : IsListing(S[i].elements),
           NEW canonical, NEW inferred, NEW t \in ResolveTransitions(S, inferred, canonical)
    PROVE  /\ t.from \in {S[i].id : i \in DOMAIN S} /\ t.to \in {S[i].id : i \in DOMAIN S}
           /\ t.from # t.to
           /\ \E i, k \in DOMAIN S :
                /\ t.from = S[i].id /\ S[i].key = S[k].key
                /\ \E n \in DOMAIN S[k].elements : t.trigger = S[k].elements[n]
<1>1. PICK q \in DOMAIN inferred : /\ FirstOfItsTrigger(S, canonical, inferred, q)
                                   /\ t = Transition(S, canonical, inferred[q])
  BY DEF ResolveTransitions
<1> DEFINE edge == inferred[q]
           from == Onto(canonical, edge.from)
           to   == Onto(canonical, edge.to)
<1>2. /\ from \in Known(S) /\ to \in Known(S)
      /\ Rows(S, from, edge.element) # {}
      /\ IdOf(S, from) # IdOf(S, to)
  BY <1>1 DEF FirstOfItsTrigger, Resolves
<1>3. /\ t.from = IdOf(S, from) /\ t.to = IdOf(S, to)
      /\ t.trigger = Trigger(S, from, edge.element)
  BY <1>1 DEF Transition
<1> HIDE DEF from, to
<1>4. PICK i \in DOMAIN S : t.from = S[i].id /\ S[i].key = from
  BY <1>2, <1>3, PlaceOfKey DEF IdOf
<1>5. \E k \in DOMAIN S : t.to = S[k].id
  BY <1>2, <1>3, PlaceOfKey DEF IdOf
<1>6. PICK k \in DOMAIN S : /\ S[k].key = from
                            /\ \E n \in DOMAIN S[k].elements : t.trigger = S[k].elements[n]
  BY <1>2, <1>3, TriggerOfRows
<1> QED BY <1>2, <1>3, <1>4, <1>5, <1>6

\* Of several finite numbers one is the first to be the greatest.
LEMMA BestExists ==
    ASSUME NEW made \in Nat \ {0}, NEW N \in Nat, NEW sizes, DOMAIN sizes = 1..made,
           \A n \in 1..made : sizes[n] \in 0..N
    PROVE  BestAttempt(sizes) \in 1..made
<1> DEFINE T == {sizes[n] : n \in 1..made}
<1>1. T \in SUBSET (0..N) /\ T # {}
  <2>1. sizes[1] \in T
    OBVIOUS
  <2> QED BY <2>1
<1> DEFINE greatest == Latest(T)
<1>2. greatest \in T /\ \A m \in T : m <= greatest
  BY <1>1, GreatestOfSet
<1> HIDE DEF greatest
<1> DEFINE B == {n \in 1..made : sizes[n] = greatest}
<1>3. B \in SUBSET Nat /\ B # {}
  BY <1>2
<1> DEFINE best == Earliest(B)
<1>4. best \in B /\ \A n \in B : best <= n
  BY <1>3, LeastOfSet
<1> HIDE DEF best
<1>5. best \in 1..made /\ \A m \in 1..made : sizes[m] <= sizes[best]
  BY <1>2, <1>4
<1>6. \A m \in 1..(best - 1) : sizes[m] < sizes[best]
  <2> SUFFICES ASSUME NEW m \in 1..(best - 1) PROVE sizes[m] < sizes[best]
    OBVIOUS
  <2>1. m \in 1..made /\ ~ (best <= m)
    BY <1>5
  <2>2. sizes[m] # greatest /\ sizes[best] = greatest
    BY <1>4, <2>1
  <2>3. sizes[m] \in 0..N /\ sizes[best] \in 0..N /\ sizes[m] <= sizes[best]
    BY <1>5, <2>1
  <2> QED BY <2>2, <2>3
<1> QED BY <1>5, <1>6 DEF BestAttempt

\* The graph that is kept is what one of the answers resolves to.
LEMMA KeptGraph ==
    ASSUME NEW S, IsListing(S), NEW canonical, NEW entry, NEW success, NEW answers
    PROVE  \E n \in 1..MaxInferenceAttempts :
             InferBestTransitions(S, canonical, entry, success, answers)
               = ResolveTransitions(S, answers[n], canonical)
<1> DEFINE M == 1..MaxInferenceAttempts
           resolved == [n \in M |-> ResolveTransitions(S, answers[n], canonical)]
           reached  == [n \in M |-> ReachableScreenIds(S, resolved[n], entry)]
           made     == LastAttempt(S, reached, success)
           sizes    == [n \in 1..made |-> Cardinality(reached[n])]
           best     == BestAttempt(sizes)
<1>1. InferBestTransitions(S, canonical, entry, success, answers)
        = IF entry = None THEN resolved[1] ELSE resolved[best]
  BY DEF InferBestTransitions
<1>2. made \in M
  <2> DEFINE T == {n \in M : n = MaxInferenceAttempts \/ SuccessReached(S, reached[n], success)}
  <2>1. T \in SUBSET Nat
    OBVIOUS
  <2>2. MaxInferenceAttempts \in T
    BY DEF MaxInferenceAttempts
  <2>3. Earliest(T) \in T
    BY <2>1, <2>2, LeastOfSet
  <2>4. made = Earliest(T)
    BY DEF LastAttempt
  <2> QED BY <2>3, <2>4
<1> DEFINE ids == {S[i].id : i \in DOMAIN S}
<1>3. IsFiniteSet(ids) /\ Cardinality(ids) \in Nat
  <2>1. PICK N \in Nat : DOMAIN S = 1..N
    BY DEF IsListing
  <2> DEFINE f == [i \in 1..N |-> S[i].id]
  <2>2. f \in Surjection(1..N, ids)
    BY <2>1 DEF Surjection
  <2> QED BY <2>1, <2>2, FS_Interval, FS_Surjection, FS_CardinalityType
<1>4. \A n \in 1..made : sizes[n] \in 0..Cardinality(ids)
  <2> SUFFICES ASSUME NEW n \in 1..made PROVE Cardinality(reached[n]) \in 0..Cardinality(ids)
    OBVIOUS
  <2>1. n \in M
    BY <1>2 DEF MaxInferenceAttempts
  <2>2. reached[n] \in SUBSET ids
    BY <2>1 DEF ReachableScreenIds
  <2> HIDE DEF reached, ids
  <2>3. IsFiniteSet(reached[n]) /\ Cardinality(reached[n]) <= Cardinality(ids)
    BY <1>3, <2>2, FS_Subset
  <2> QED BY <1>3, <2>3, FS_CardinalityType
<1>5. made \in Nat \ {0} /\ DOMAIN sizes = 1..made
  BY <1>2
<1> HIDE DEF sizes
<1>6. best \in 1..made
  BY <1>3, <1>4, <1>5, BestExists
<1>7. best \in M /\ 1 \in M
  BY <1>2, <1>6 DEF MaxInferenceAttempts
<1> HIDE DEF best, made, reached
<1> QED BY <1>1, <1>7

-----------------------------------------------------------------------------
(* The rows. *)

\* The elements a reading adds are rows of the screen.
LEMMA RowsOfReading ==
    ASSUME NEW X \in SUBSET (Found \cup Nodes), NEW found \in Seq(X), NEW i, NEW j \in 0..MaxJobs
    PROVE  [n \in DOMAIN found |-> ElementRow(i, found[n], j)] \in Seq(ElementRows(i))
<1>1. \A n \in DOMAIN found : ElementRow(i, found[n], j) \in ElementRows(i)
  BY DEF ElementRow, ElementRows
<1> DEFINE read == [n \in DOMAIN found |-> ElementRow(i, found[n], j)]
<1>2. Len(found) \in Nat /\ DOMAIN found = 1..Len(found)
  OBVIOUS
<1>3. read \in [1..Len(found) -> ElementRows(i)]
  BY <1>1, <1>2
<1> QED BY <1>2, <1>3

\* The rows of one upload request are told apart by their ids.
LEMMA UploadRows ==
    ASSUME TypeOK, NEW c \in Clients
    PROVE  /\ Len(uploads[c]) \in Nat /\ DOMAIN uploads[c] = 1..Len(uploads[c])
           /\ \A n \in DOMAIN uploads[c] : /\ uploads[c][n].id \in Ids /\ uploads[c][n].key \in Nat
                                           /\ uploads[c][n].seen \in SUBSET Made
<1> DEFINE R == [id : Ids, key : Nat, seen : SUBSET Made]
<1>1. uploads[c] \in Seq(R)
  BY DEF TypeOK
<1>2. \A r \in R : r.id \in Ids /\ r.key \in Nat /\ r.seen \in SUBSET Made
  OBVIOUS
<1> HIDE DEF R
<1>3. /\ Len(uploads[c]) \in Nat /\ DOMAIN uploads[c] = 1..Len(uploads[c])
      /\ \A n \in DOMAIN uploads[c] : uploads[c][n] \in R
  BY <1>1
<1> QED BY <1>2, <1>3

\* The key _unique_screen_key chooses is none that the upload sees.
LEMMA KeyIsNew ==
    ASSUME TypeOK, IdsApart, NEW c \in Clients
    PROVE  /\ UniqueScreenKey(c) \in Nat
           /\ \A i \in Made : screens[i].key # UniqueScreenKey(c)
           /\ \A n \in DOMAIN uploads[c] : uploads[c][n].key # UniqueScreenKey(c)
<1> USE StimulusAssumption
<1> DEFINE taken == {screens[i].key : i \in Made} \cup {uploads[c][n].key : n \in DOMAIN uploads[c]}
           T == {n \in 1..(MaxScreens + 1) : n \notin taken}
           Has(i, n) == \/ i \in Made /\ screens[i].key = n
                        \/ \E m \in DOMAIN uploads[c] : uploads[c][m].id = i /\ uploads[c][m].key = n
<1>1. T # {}
  <2> SUFFICES ASSUME T = {} PROVE FALSE
    OBVIOUS
  <2>1. \A n \in 1..(MaxScreens + 1) : \E i \in Ids : Has(i, n)
    <3> SUFFICES ASSUME NEW n \in 1..(MaxScreens + 1) PROVE \E i \in Ids : Has(i, n)
      OBVIOUS
    <3>1. n \in taken
      OBVIOUS
    <3>2. Made \subseteq Ids /\ uploads[c] \in Seq([id : Ids, key : Nat, seen : SUBSET Made])
      BY DEF TypeOK
    <3>3. \A m \in DOMAIN uploads[c] : uploads[c][m].id \in Ids
      BY UploadRows
    <3> QED BY <3>1, <3>2, <3>3
  <2>2. \A i \in Ids : \A m, n \in 1..(MaxScreens + 1) : Has(i, m) /\ Has(i, n) => m = n
    BY DEF IdsApart, Uploading
  <2> HIDE DEF Has, T
  <2> DEFINE f == [n \in 1..(MaxScreens + 1) |-> CHOOSE i \in Ids : Has(i, n)]
  <2>3. f \in [1..(MaxScreens + 1) -> Ids] /\ \A n \in 1..(MaxScreens + 1) : Has(f[n], n)
    BY <2>1
  <2> HIDE DEF f
  <2>4. /\ IsFiniteSet(Ids) /\ Cardinality(Ids) = MaxScreens
        /\ IsFiniteSet(1..(MaxScreens + 1)) /\ Cardinality(1..(MaxScreens + 1)) = MaxScreens + 1
    BY FS_Interval DEF Ids
  <2>5. \E m, n \in 1..(MaxScreens + 1) : m # n /\ f[m] = f[n]
    BY <2>3, <2>4, FS_PigeonHole
  <2> QED BY <2>2, <2>3, <2>5
<1>2. UniqueScreenKey(c) = Earliest(T)
  BY DEF UniqueScreenKey
<1> HIDE DEF T
<1>3. Earliest(T) \in T
  <2>1. T \in SUBSET Nat
    BY DEF T
  <2> QED BY <1>1, <2>1, LeastOfSet
<1>4. \A n \in T : n \in Nat /\ n \notin taken
  BY DEF T
<1>5. UniqueScreenKey(c) \in Nat /\ UniqueScreenKey(c) \notin taken
  BY <1>2, <1>3, <1>4
<1> QED BY <1>5

\* Only rows of jobs run.
LEMMA RunningJobs ==
    ASSUME TypeOK PROVE Running \subseteq DOMAIN jobs /\ DOMAIN jobs \subseteq 1..MaxJobs
<1>1. DOMAIN jobs = 1..Len(jobs) /\ Len(jobs) \in Nat /\ Len(jobs) <= MaxJobs
  BY DEF TypeOK
<1> QED BY <1>1, StimulusAssumption DEF Running

\* A new study, or one that has been read.
LEMMA InitRows == ASSUME Init PROVE RowsSafe
<1>1. PICK n \in {0, MaxScreens}, found \in Findings \ {<<>>} :
         screens = [i \in 1..n |->
           [key |-> i, seen |-> 1..(i - 1), analysis |-> [source |-> "vision", flow |-> None],
            elements |-> [k \in DOMAIN found |-> ElementRow(i, found[k], 0)]]]
  BY DEF Init
<1>2. /\ prototype \in BOOLEAN /\ edges = {} /\ jobs = <<>>
      /\ txn = [j \in 1..MaxJobs |-> NoTxn] /\ uploads = [c \in Clients |-> <<>>]
      /\ covered = {} /\ doubled = {} /\ missed = FALSE /\ loose = FALSE /\ overtaken = FALSE
  BY DEF Init
<1> DEFINE rowsOf(i) == [k \in DOMAIN found |-> ElementRow(i, found[k], 0)]
<1>3. \A i \in 1..n : rowsOf(i) \in Seq(ElementRows(i)) /\ \A k \in DOMAIN rowsOf(i) : rowsOf(i)[k].by = 0
  <2>1. found \in Seq(Found)
    BY StimulusAssumption
  <2>2. 0 \in 0..MaxJobs
    BY StimulusAssumption
  <2> QED BY <2>1, <2>2, RowsOfReading DEF ElementRow
<1> HIDE DEF rowsOf
<1>4. n \in Nat /\ 1..n \subseteq Ids
  BY StimulusAssumption DEF Ids
<1>5. /\ Made = 1..n /\ Made \subseteq Ids
      /\ \A i \in Made : /\ DOMAIN screens[i] = {"key", "seen", "analysis", "elements"}
                         /\ screens[i].key = i /\ screens[i].seen = 1..(i - 1)
                         /\ IsAnalysis(screens[i].analysis) /\ screens[i].elements = rowsOf(i)
  BY <1>1, <1>4 DEF Made, rowsOf, IsAnalysis, Unanalyzed
<1>6. \A i \in Made : i \in Nat /\ \A k \in screens[i].seen : k \in Made /\ k # i
  BY <1>4, <1>5
<1> HIDE <1>1
<1>7. TypeOK
  <2>1. \A i \in Made :
         /\ DOMAIN screens[i] = {"key", "seen", "analysis", "elements"}
         /\ screens[i].key \in Nat \cup Nodes /\ screens[i].seen \subseteq Made
         /\ IsAnalysis(screens[i].analysis) /\ screens[i].elements \in Seq(ElementRows(i))
    BY <1>3, <1>5, <1>6
  <2>2. /\ jobs \in Seq([screen : Ids \cup {None}, tries : 0..MaxAttempts,
                     status : {"PENDING", "RUNNING", "DONE", "FAILED"}])
        /\ Len(jobs) <= MaxJobs /\ DOMAIN jobs = {}
    BY <1>2, StimulusAssumption
  <2>3. uploads \in [Clients -> Seq([id : Ids, key : Nat, seen : SUBSET Made])]
    BY <1>2
  <2>4. DOMAIN txn = 1..MaxJobs /\ \A j \in 1..MaxJobs : j \notin Running /\ txn[j] = NoTxn
    BY <1>2, <2>2 DEF Running
  <2> QED BY <1>2, <1>5, <2>1, <2>2, <2>3, <2>4 DEF TypeOK
<1>8. IdsApart /\ TxnFits /\ ReadOnce /\ AttemptLeft
  <2>1. \A c \in Clients : DOMAIN uploads[c] = {} /\ Uploading(c) = {}
    BY <1>2 DEF Uploading
  <2>2. \A j \in 1..MaxJobs : DOMAIN txn[j].fresh = {}
    BY <1>2 DEF NoTxn
  <2>3. Running = {} /\ DOMAIN jobs = {}
    BY <1>2 DEF Running
  <2> QED BY <2>1, <2>2, <2>3 DEF IdsApart, TxnFits, ReadOnce, AttemptLeft
<1>9. KeysTold
  <2>1. \A c \in Clients : DOMAIN uploads[c] = {}
    BY <1>2
  <2> QED BY <1>5, <1>6, <2>1 DEF KeysTold, Screenshots
<1>10. ElementsDoubleOnlyByOverlap
  BY <1>3, <1>5 DEF ElementsDoubleOnlyByOverlap, Screenshots
<1> QED BY <1>7, <1>8, <1>9, <1>10 DEF RowsSafe

\* None is no screen.
LEMMA NoneIsNoScreen == ASSUME TypeOK PROVE None \notin Made /\ None \notin Screenshots
<1>1. Made \subseteq Ids /\ Ids \subseteq Nat
  BY DEF TypeOK, Ids
<1>2. Screenshots \subseteq Made
  BY DEF Screenshots
<1> QED BY <1>1, <1>2, StimulusAssumption

\* An import that does nothing while rows are added.
LEMMA ImportStays ==
    ASSUME NEW k, txn'[k] = txn[k], Made \subseteq Made', DOMAIN txn[k].fresh \cap Made' = {},
           \A i \in Made : screens'[i].key = screens[i].key,
           WritesFit(k), ImportFits(k)
    PROVE  ImportFits(k)'
<1>1. DOMAIN txn[k].added \subseteq Made \cup DOMAIN txn[k].fresh
  BY DEF WritesFit, Visible
<1>2. DOMAIN txn[k].added \cap Screenshots' = {}
  BY <1>1 DEF ImportFits, Screenshots
<1>3. ASSUME FileFits(k) PROVE FileFits(k)'
  <2>1. \A i \in Visible(k) : i \in Visible(k)' /\ (i \in Made' <=> i \in Made)
    BY DEF Visible
  <2>2. ASSUME NEW n \in DOMAIN txn[k].id
        PROVE  LET i == txn[k].id[n]
               IN  /\ i \in Visible(k)'
                   /\ n = IF i \in Made' THEN screens'[i].key ELSE txn[k].fresh[i]
                   /\ i \in DOMAIN txn[k].added
                   /\ txn[k].added[i] = NodeRows(txn[k].file, n, i, k)
    BY <1>3, <2>1, <2>2 DEF FileFits
  <2>3. Unsaved(k)' = Unsaved(k)
    BY DEF Unsaved
  <2> QED BY <1>3, <2>2, <2>3 DEF FileFits
<1> QED BY <1>2, <1>3 DEF ImportFits

\* A transaction that does nothing, while no row changes.
LEMMA FitsStay ==
    ASSUME TypeOK, IdsApart, TxnFits, NEW k \in Running, screens' = screens,
           txn'[k] = txn[k], jobs'[k].screen = jobs[k].screen
    PROVE  WritesFit(k)' /\ IF jobs'[k].screen = None THEN ImportFits(k)' ELSE ReadingFits(k)'
<1>1. WritesFit(k) /\ IF jobs[k].screen = None THEN ImportFits(k) ELSE ReadingFits(k)
  BY DEF TxnFits
<1>2. Made' = Made /\ DOMAIN txn[k].fresh \cap Made = {}
  <2>1. k \in 1..MaxJobs
    BY RunningJobs
  <2> QED BY <2>1 DEF Made, IdsApart
<1>3. WritesFit(k)'
  BY <1>1, <1>2 DEF WritesFit, Visible
<1>4. CASE jobs[k].screen = None
  <2>1. ImportFits(k)'
    BY <1>1, <1>2, <1>4, ImportStays
  <2> QED BY <1>3, <1>4, <2>1
<1>5. CASE jobs[k].screen # None
  BY <1>1, <1>3, <1>5 DEF ReadingFits
<1> QED BY <1>4, <1>5

\* So do all of them.
LEMMA AllFitStay ==
    ASSUME TypeOK, IdsApart, TxnFits, screens' = screens, Running' \subseteq Running,
           \A k \in Running' : txn'[k] = txn[k] /\ jobs'[k].screen = jobs[k].screen
    PROVE  TxnFits'
  BY FitsStay DEF TxnFits

\* A transaction that goes on, with nothing else changed.
LEMMA TxnGoesOn ==
    ASSUME RowsSafe, NEW j \in 1..MaxJobs, j \in Running,
           UNCHANGED <<rows, jobs, uploads, covered>>,
           doubled \subseteq doubled', doubled' \subseteq Made,
           missed' \in BOOLEAN, loose' \in BOOLEAN, overtaken' \in BOOLEAN,
           txn' = [txn EXCEPT ![j] = txn'[j]],
           DOMAIN txn'[j] = DOMAIN NoTxn, txn'[j].at \in Stage \ {"idle"},
           DOMAIN txn'[j].fresh \subseteq DOMAIN txn[j].fresh \cup FreeIds,
           jobs[j].screen = None \/ txn'[j].own = txn[j].own,
           WritesFit(j)', IF jobs[j].screen = None THEN ImportFits(j)' ELSE ReadingFits(j)'
    PROVE  RowsSafe'
<1> USE DEF RowsSafe, rows
<1>1. /\ Running' = Running /\ Made' = Made /\ Screenshots' = Screenshots
      /\ \A k \in 1..MaxJobs : k # j => txn'[k] = txn[k]
  BY DEF TypeOK, Running, Made, Screenshots
<1>2. TypeOK'
  <2>1. \A k \in 1..MaxJobs : /\ DOMAIN txn'[k] = DOMAIN NoTxn
                              /\ IF k \in Running THEN txn'[k].at \in Stage \ {"idle"}
                                                  ELSE txn'[k] = NoTxn
    BY <1>1 DEF TypeOK
  <2>2. DOMAIN txn' = 1..MaxJobs
    BY DEF TypeOK
  <2> QED BY <1>1, <2>1, <2>2 DEF TypeOK
<1>3. IdsApart'
  <2>1. \A c \in Clients : Uploading(c)' = Uploading(c)
    BY <1>1 DEF Uploading
  <2>2. ASSUME NEW c \in Clients PROVE Uploading(c) \cap FreeIds = {}
    <3>1. Uploading(c) \subseteq Inserting
      BY Zenon DEF Inserting
    <3> QED BY <3>1 DEF FreeIds
  <2>3. ASSUME NEW k \in 1..MaxJobs PROVE DOMAIN txn[k].fresh \cap FreeIds = {}
    <3>1. DOMAIN txn[k].fresh \subseteq Inserting
      BY Zenon DEF Inserting
    <3> QED BY <3>1 DEF FreeIds
  <2>4. FreeIds \subseteq Ids \ Made
    BY DEF FreeIds
  <2> QED BY <1>1, <2>1, <2>2, <2>3, <2>4 DEF IdsApart
<1>4. TxnFits'
  <2>1. \A k \in Running : k \in 1..MaxJobs
    BY RunningJobs
  <2> SUFFICES ASSUME NEW k \in Running, k # j
               PROVE  WritesFit(k)' /\ IF jobs[k].screen = None THEN ImportFits(k)' ELSE ReadingFits(k)'
    BY <1>1 DEF TxnFits
  <2>2. WritesFit(k)'
    BY <1>1, <2>1 DEF TxnFits, WritesFit, Visible
  <2>3. CASE jobs[k].screen = None
    <3>1. DOMAIN txn[k].fresh \cap Made = {}
      BY <2>1 DEF IdsApart
    <3>2. WritesFit(k) /\ ImportFits(k)
      BY <2>3 DEF TxnFits
    <3>3. ImportFits(k)'
      BY <1>1, <2>1, <3>1, <3>2, ImportStays
    <3> QED BY <2>2, <2>3, <3>3
  <2>4. CASE jobs[k].screen # None
    BY <1>1, <2>1, <2>2, <2>4 DEF TxnFits, ReadingFits
  <2> QED BY <2>3, <2>4
<1>5. KeysTold' /\ ElementsDoubleOnlyByOverlap' /\ AttemptLeft'
  BY <1>1 DEF KeysTold, ElementsDoubleOnlyByOverlap, AttemptLeft
<1>6. ReadOnce'
  <2>1. Running \subseteq 1..MaxJobs /\ None \notin Screenshots
    BY RunningJobs, NoneIsNoScreen
  <2>2. \A k \in Running : jobs[k].screen \in Screenshots => txn'[k].own = txn[k].own
    BY <1>1, <2>1
  <2> QED BY <1>1, <2>1, <2>2 DEF ReadOnce, Others
<1> QED BY <1>2, <1>3, <1>4, <1>5, <1>6

\* One that loads nothing and inserts no row of screens.
LEMMA TxnRows ==
    ASSUME RowsSafe, NEW j \in 1..MaxJobs, j \in Running,
           UNCHANGED <<rows, jobs, uploads, covered, doubled>>,
           missed' \in BOOLEAN, loose' \in BOOLEAN, overtaken' \in BOOLEAN,
           txn' = [txn EXCEPT ![j] = txn'[j]],
           DOMAIN txn'[j] = DOMAIN NoTxn, txn'[j].at \in Stage \ {"idle"},
           txn'[j].fresh = txn[j].fresh, txn'[j].own = txn[j].own,
           WritesFit(j)', IF jobs[j].screen = None THEN ImportFits(j)' ELSE ReadingFits(j)'
    PROVE  RowsSafe'
<1>1. doubled \subseteq doubled' /\ doubled' \subseteq Made
  BY DEF RowsSafe, TypeOK
<1> QED BY <1>1, TxnGoesOn

\* Another file of a request: its id is free, its key unseen.
LEMMA UploadFileRows == ASSUME RowsSafe, NEW c \in Clients, UploadFile(c) PROVE RowsSafe'
<1> DEFINE new == [id |-> Earliest(FreeIds), key |-> UniqueScreenKey(c), seen |-> Made]
           n == Len(uploads[c]) + 1
<1>1. /\ FreeIds # {} /\ uploads' = [uploads EXCEPT ![c] = Append(@, new)]
      /\ UNCHANGED <<rows, jobs, txn, history>>
  BY DEF UploadFile
<1>2. Earliest(FreeIds) \in FreeIds
  <2>1. FreeIds \in SUBSET Nat
    BY DEF FreeIds, Ids
  <2> QED BY <1>1, <2>1, LeastOfSet
<1>3. new.id \in Ids \ Made /\ new.id \notin Inserting
  BY <1>2 DEF FreeIds
<1>4. /\ new.key \in Nat
      /\ \A i \in Made : screens[i].key # new.key
      /\ \A m \in DOMAIN uploads[c] : uploads[c][m].key # new.key
  BY KeyIsNew DEF RowsSafe
<1>5. new \in [id : Ids, key : Nat, seen : SUBSET Made] /\ new.seen = Made
  BY <1>3, <1>4
<1> HIDE DEF new
<1>6. /\ uploads \in [Clients -> Seq([id : Ids, key : Nat, seen : SUBSET Made])]
      /\ uploads[c] \in Seq([id : Ids, key : Nat, seen : SUBSET Made])
  BY DEF RowsSafe, TypeOK
<1>7. /\ Len(uploads[c]) \in Nat /\ DOMAIN uploads[c] = 1..(n - 1)
      /\ DOMAIN uploads'[c] = 1..n /\ uploads'[c][n] = new
      /\ \A m \in 1..(n - 1) : uploads'[c][m] = uploads[c][m]
      /\ \A d \in Clients \ {c} : uploads'[d] = uploads[d]
  <2> HIDE DEF n
  <2>1. /\ uploads'[c] = Append(uploads[c], new)
        /\ \A d \in Clients \ {c} : uploads'[d] = uploads[d]
    BY <1>1, <1>6
  <2> QED BY <1>5, <1>6, <2>1 DEF n
<1>8. /\ n \in Nat /\ n \in 1..n /\ 1..n = (1..(n - 1)) \cup {n} /\ n \notin 1..(n - 1)
      /\ \A m \in 1..n : m # n => m \in 1..(n - 1)
  BY <1>7
<1> HIDE DEF n
<1>9. /\ Made' = Made /\ Running' = Running /\ Screenshots' = Screenshots
      /\ screens' = screens /\ txn' = txn /\ jobs' = jobs /\ doubled' = doubled
  BY <1>1 DEF Made, Running, Screenshots, rows, history
<1>10. TypeOK'
  <2> DEFINE R == [id : Ids, key : Nat, seen : SUBSET Made]
  <2>1. new \in R /\ uploads \in [Clients -> Seq(R)]
    BY <1>5, <1>6
  <2> HIDE DEF R
  <2>2. uploads' \in [Clients -> Seq(R)]
    BY <1>1, <2>1
  <2>3. uploads' \in [Clients -> Seq([id : Ids, key : Nat, seen : SUBSET Made])]
    BY <2>2 DEF R
  <2> QED BY <1>1, <1>9, <2>3 DEF RowsSafe, TypeOK, rows, history
<1>11. IdsApart'
  <2>1. Uploading(c)' = Uploading(c) \cup {new.id} /\ \A d \in Clients \ {c} : Uploading(d)' = Uploading(d)
    BY <1>7, <1>8 DEF Uploading
  <2>2. /\ \A d \in Clients : new.id \notin Uploading(d)
        /\ \A j \in 1..MaxJobs : new.id \notin DOMAIN txn[j].fresh
    <3>1. ASSUME NEW d \in Clients PROVE new.id \notin Uploading(d)
      BY <1>3, Zenon DEF Inserting
    <3>2. ASSUME NEW j \in 1..MaxJobs PROVE new.id \notin DOMAIN txn[j].fresh
      BY <1>3, Zenon DEF Inserting
    <3> QED BY <3>1, <3>2
  <2>3. \A m \in 1..(n - 1) : uploads[c][m].id # new.id
    BY <1>7, <2>2 DEF Uploading
  <2>4. \A k, m \in DOMAIN uploads'[c] : uploads'[c][k].id = uploads'[c][m].id => k = m
    BY <1>7, <1>8, <2>3 DEF RowsSafe, IdsApart
  <2>5. IdsApart
    BY DEF RowsSafe
  <2>6. /\ \A d \in Clients : Uploading(d)' \cap Made = {}
        /\ \A d \in Clients : \A j \in 1..MaxJobs : Uploading(d)' \cap DOMAIN txn[j].fresh = {}
        /\ \A d \in Clients : \A e \in Clients \ {d} : Uploading(d)' \cap Uploading(e)' = {}
    BY <1>3, <2>1, <2>2, <2>5 DEF IdsApart
  <2>7. \A d \in Clients : \A k, m \in DOMAIN uploads'[d] :
          uploads'[d][k].id = uploads'[d][m].id => k = m
    BY <1>7, <2>4, <2>5 DEF IdsApart
  <2> QED BY <1>9, <2>5, <2>6, <2>7 DEF IdsApart
<1>12. KeysTold'
  <2>1. KeysTold
    BY DEF RowsSafe
  <2>2. ASSUME NEW d \in Clients, NEW k \in DOMAIN uploads'[d]
        PROVE  /\ \A i \in uploads'[d][k].seen : screens[i].key # uploads'[d][k].key
               /\ \A m \in 1..(k - 1) : uploads'[d][m].key # uploads'[d][k].key
    <3>1. CASE d # c
      BY <1>7, <2>1, <3>1 DEF KeysTold
    <3>2. CASE d = c /\ k = n
      BY <1>4, <1>5, <1>7, <3>2
    <3>3. CASE d = c /\ k # n
      <4>1. k \in 1..(n - 1) /\ \A m \in 1..(k - 1) : m \in 1..(n - 1)
        BY <1>7, <1>8, <3>3
      <4>2. /\ \A i \in uploads[c][k].seen : screens[i].key # uploads[c][k].key
            /\ \A m \in 1..(k - 1) : uploads[c][m].key # uploads[c][k].key
        BY <1>7, <2>1, <4>1 DEF KeysTold
      <4> QED BY <1>7, <3>3, <4>1, <4>2
    <3> QED BY <3>1, <3>2, <3>3
  <2> QED BY <1>9, <2>1, <2>2 DEF KeysTold
<1>13. TxnFits' /\ ReadOnce' /\ AttemptLeft' /\ ElementsDoubleOnlyByOverlap'
  <2>1. TxnFits'
    BY <1>9, AllFitStay DEF RowsSafe
  <2> QED BY <1>9, <2>1 DEF RowsSafe, ReadOnce, AttemptLeft, ElementsDoubleOnlyByOverlap, Others
<1> QED BY <1>10, <1>11, <1>12, <1>13 DEF RowsSafe

\* A request that fails leaves nothing behind.
LEMMA UploadFailsRows == ASSUME RowsSafe, NEW c \in Clients, UploadFails(c) PROVE RowsSafe'
<1> USE DEF RowsSafe
<1>1. /\ uploads' = [uploads EXCEPT ![c] = <<>>]
      /\ UNCHANGED <<rows, jobs, txn, history>>
  BY DEF UploadFails
<1>2. /\ Made' = Made /\ Running' = Running /\ Screenshots' = Screenshots
      /\ screens' = screens /\ txn' = txn /\ jobs' = jobs /\ doubled' = doubled
  BY <1>1 DEF Made, Running, Screenshots, rows, history
<1>3. /\ uploads'[c] = <<>> /\ DOMAIN uploads'[c] = {} /\ Uploading(c)' = {}
      /\ \A d \in Clients \ {c} : uploads'[d] = uploads[d] /\ Uploading(d)' = Uploading(d)
  BY <1>1 DEF Uploading, TypeOK
<1>4. TypeOK'
  <2> DEFINE R == [id : Ids, key : Nat, seen : SUBSET Made]
  <2>1. uploads \in [Clients -> Seq(R)]
    BY DEF TypeOK
  <2> HIDE DEF R
  <2>2. uploads' \in [Clients -> Seq(R)]
    BY <1>1, <2>1
  <2>3. uploads' \in [Clients -> Seq([id : Ids, key : Nat, seen : SUBSET Made])]
    BY <2>2 DEF R
  <2> QED BY <1>1, <1>2, <2>3 DEF TypeOK, rows, history
<1>5. IdsApart'
  BY <1>2, <1>3 DEF IdsApart
<1>6. KeysTold'
  BY <1>2, <1>3 DEF KeysTold
<1>7. TxnFits' /\ ReadOnce' /\ AttemptLeft' /\ ElementsDoubleOnlyByOverlap'
  <2>1. TxnFits'
    BY <1>2, AllFitStay
  <2> QED BY <1>2, <2>1 DEF ReadOnce, AttemptLeft, ElementsDoubleOnlyByOverlap, Others
<1> QED BY <1>4, <1>5, <1>6, <1>7

\* The rows of a request are there at once; later uploads saw their keys or not.
LEMMA UploadCommitRows ==
    ASSUME RowsSafe, NEW c \in Clients, UploadCommit(c) PROVE RowsSafe'
<1> DEFINE U == Uploading(c)
           nth(i) == CHOOSE m \in DOMAIN uploads[c] : uploads[c][m].id = i
           seen(n) == uploads[c][n].seen \cup {uploads[c][m].id : m \in 1..(n - 1)}
           new(n) == [key |-> uploads[c][n].key, analysis |-> Unanalyzed, elements |-> <<>>,
                      seen |-> seen(n)]
<1>1. /\ screens' = [i \in Made \cup U |-> IF i \in Made THEN screens[i] ELSE new(nth(i))]
      /\ uploads' = [uploads EXCEPT ![c] = <<>>]
      /\ UNCHANGED <<prototype, edges, jobs, txn, history>>
  BY DEF UploadCommit
<1>2. TypeOK /\ IdsApart
  BY DEF RowsSafe
<1>3. /\ Len(uploads[c]) \in Nat /\ DOMAIN uploads[c] = 1..Len(uploads[c])
      /\ \A n \in DOMAIN uploads[c] : /\ uploads[c][n].id \in Ids /\ uploads[c][n].key \in Nat
                                      /\ uploads[c][n].seen \in SUBSET Made
  BY <1>2, UploadRows
<1>4. U \cap Made = {} /\ U \subseteq Ids
  BY <1>2, <1>3 DEF IdsApart, Uploading
<1>5. \A i \in U : nth(i) \in DOMAIN uploads[c] /\ uploads[c][nth(i)].id = i
  BY DEF Uploading
<1> HIDE DEF nth
<1>6. \A n \in DOMAIN uploads[c] : uploads[c][n].id \in U /\ nth(uploads[c][n].id) = n
  <2>1. \A n \in DOMAIN uploads[c] : uploads[c][n].id \in U
    BY DEF Uploading
  <2> QED BY <1>2, <1>5, <2>1 DEF IdsApart
<1>7. \A n \in DOMAIN uploads[c] :
        /\ 1..(n - 1) \subseteq DOMAIN uploads[c] /\ n \notin 1..(n - 1)
        /\ \A i \in seen(n) : i \in Made \/ \E m \in 1..(n - 1) : i = uploads[c][m].id
        /\ seen(n) \subseteq Made \cup U
  BY <1>3, <1>6
<1> HIDE DEF U, seen
<1>8. /\ Made' = Made \cup U
      /\ \A i \in Made : screens'[i] = screens[i]
      /\ \A i \in U : /\ screens'[i].key = uploads[c][nth(i)].key /\ screens'[i].seen = seen(nth(i))
                      /\ screens'[i].analysis = Unanalyzed /\ screens'[i].elements = <<>>
                      /\ DOMAIN screens'[i] = {"key", "seen", "analysis", "elements"}
  BY <1>1, <1>4 DEF Made
<1> HIDE DEF new
<1>9. /\ txn' = txn /\ jobs' = jobs /\ doubled' = doubled /\ Running' = Running
      /\ edges' = edges /\ prototype' = prototype /\ covered' = covered
      /\ missed' = missed /\ loose' = loose /\ overtaken' = overtaken
  BY <1>1 DEF Running, history
<1>10. \A i \in U : screens'[i].key \in Nat /\ i \in Screenshots'
  BY <1>3, <1>5, <1>8 DEF Screenshots
<1>11. \A i \in Made : i \in Screenshots' <=> i \in Screenshots
  BY <1>8 DEF Screenshots
<1>12. Screenshots \subseteq Made /\ Screenshots' \subseteq Made \cup U
  BY <1>8 DEF Screenshots
<1>13. /\ uploads'[c] = <<>> /\ DOMAIN uploads'[c] = {} /\ Uploading(c)' = {}
       /\ \A d \in Clients \ {c} : uploads'[d] = uploads[d] /\ Uploading(d)' = Uploading(d)
  BY <1>1, <1>2 DEF Uploading, TypeOK
<1>14. TypeOK'
  <2>1. ASSUME NEW i \in Made'
        PROVE  /\ DOMAIN screens'[i] = {"key", "seen", "analysis", "elements"}
               /\ screens'[i].key \in Nat \cup Nodes /\ screens'[i].seen \subseteq Made'
               /\ IsAnalysis(screens'[i].analysis) /\ screens'[i].elements \in Seq(ElementRows(i))
    <3>1. CASE i \in Made
      BY <1>2, <1>8, <3>1 DEF TypeOK
    <3>2. CASE i \in U
      <4>1. IsAnalysis(Unanalyzed)
        BY DEF IsAnalysis, Unanalyzed
      <4>2. screens'[i].seen \subseteq Made'
        BY <1>5, <1>7, <1>8, <3>2
      <4>3. <<>> \in Seq(ElementRows(i))
        OBVIOUS
      <4> QED BY <1>8, <1>10, <3>2, <4>1, <4>2, <4>3
    <3> QED BY <1>8, <3>1, <3>2
  <2>2. uploads' \in [Clients -> Seq([id : Ids, key : Nat, seen : SUBSET Made'])]
    <3> DEFINE R == [id : Ids, key : Nat, seen : SUBSET Made]
               Q == [id : Ids, key : Nat, seen : SUBSET Made']
    <3>1. uploads \in [Clients -> Seq(R)]
      BY <1>2 DEF TypeOK
    <3>2. R \subseteq Q
      BY <1>8
    <3> HIDE DEF R, Q
    <3>3. uploads' \in [Clients -> Seq(R)]
      BY <1>1, <3>1
    <3>4. Seq(R) \subseteq Seq(Q)
      BY <3>2
    <3>5. uploads' \in [Clients -> Seq(Q)]
      BY <3>3, <3>4
    <3> QED BY <3>5 DEF Q
  <2>3. \A j \in DOMAIN jobs' : jobs'[j].screen = None \/ jobs'[j].screen \in Screenshots'
    BY <1>2, <1>9, <1>11, <1>12 DEF TypeOK
  <2>4. \A t \in edges' : t.from \in Made' /\ t.to \in Made' /\ t.by \in DOMAIN jobs'
    BY <1>2, <1>8, <1>9 DEF TypeOK
  <2>5. Made' \subseteq Ids /\ covered' \subseteq Made' /\ doubled' \subseteq Made'
    BY <1>2, <1>4, <1>8, <1>9 DEF TypeOK
  <2> QED BY <1>2, <1>9, <2>1, <2>2, <2>3, <2>4, <2>5 DEF TypeOK
<1>15. IdsApart'
  <2>1. \A d \in Clients \ {c} : Uploading(d) \cap U = {}
    BY <1>2 DEF IdsApart, U
  <2>2. \A j \in 1..MaxJobs : U \cap DOMAIN txn[j].fresh = {}
    BY <1>2 DEF IdsApart, U
  <2> QED BY <1>2, <1>8, <1>9, <1>13, <2>1, <2>2 DEF IdsApart
<1>16. TxnFits'
  <2>1. \A j \in Running : jobs[j].screen # None => jobs[j].screen \in Made
    BY <1>2, <1>12, RunningJobs DEF TypeOK
  <2>2. ASSUME NEW j \in Running
        PROVE  WritesFit(j)' /\ IF jobs[j].screen = None THEN ImportFits(j)' ELSE ReadingFits(j)'
    <3>1. WritesFit(j)'
      BY <1>8, <1>9 DEF RowsSafe, TxnFits, WritesFit, Visible
    <3>2. CASE jobs[j].screen = None
      <4>1. j \in 1..MaxJobs /\ WritesFit(j) /\ ImportFits(j)
        BY <1>2, <2>2, <3>2, RunningJobs DEF RowsSafe, TxnFits
      <4>2. DOMAIN txn[j].fresh \cap Made' = {}
        BY <1>2, <1>8, <4>1 DEF IdsApart, U
      <4>3. ImportFits(j)'
        BY <1>8, <1>9, <4>1, <4>2, ImportStays
      <4> QED BY <3>1, <3>2, <4>3
    <3>3. CASE jobs[j].screen # None
      BY <1>8, <1>9, <3>1, <3>3 DEF RowsSafe, TxnFits, ReadingFits
    <3> QED BY <3>2, <3>3
  <2> QED BY <1>9, <2>2 DEF TxnFits
<1>17. KeysTold'
  <2>1. KeysTold
    BY DEF RowsSafe
  <2>2. ASSUME NEW k \in Screenshots', NEW i \in screens'[k].seen
        PROVE  i # k /\ screens'[i].key # screens'[k].key
    <3>1. CASE k \in Made
      <4>1. k \in Screenshots /\ i \in screens[k].seen /\ i \in Made
        BY <1>2, <1>8, <1>11, <3>1 DEF TypeOK
      <4> QED BY <1>8, <2>1, <3>1, <4>1 DEF KeysTold
    <3>2. CASE k \in U
      <4> DEFINE n == nth(k)
      <4>1. /\ n \in DOMAIN uploads[c] /\ uploads[c][n].id = k /\ screens'[k].key = uploads[c][n].key
            /\ i \in seen(n)
        BY <1>5, <1>8, <3>2
      <4> HIDE DEF n
      <4>2. CASE i \in uploads[c][n].seen
        <5>1. i \in Made
          BY <1>3, <4>1, <4>2
        <5> QED BY <1>4, <1>8, <2>1, <3>2, <4>1, <4>2, <5>1 DEF KeysTold
      <4>3. CASE \E m \in 1..(n - 1) : i = uploads[c][m].id
        <5>1. PICK m \in 1..(n - 1) : i = uploads[c][m].id
          BY <4>3
        <5>2. m \in DOMAIN uploads[c] /\ m # n
          BY <1>7, <4>1
        <5>3. i \in U /\ nth(i) = m
          BY <1>6, <5>1, <5>2
        <5>4. screens'[i].key = uploads[c][m].key
          BY <1>8, <5>3
        <5>5. i # k
          BY <1>2, <4>1, <5>1, <5>2 DEF IdsApart
        <5> QED BY <2>1, <4>1, <5>4, <5>5 DEF KeysTold
      <4> QED BY <4>1, <4>2, <4>3 DEF seen
    <3> QED BY <1>12, <3>1, <3>2
  <2>3. ASSUME NEW d \in Clients, NEW n \in DOMAIN uploads'[d]
        PROVE  /\ \A i \in uploads'[d][n].seen : screens'[i].key # uploads'[d][n].key
               /\ \A m \in 1..(n - 1) : uploads'[d][m].key # uploads'[d][n].key
    <3>1. d # c /\ uploads'[d] = uploads[d]
      BY <1>13
    <3>2. uploads[d][n].seen \in SUBSET Made
      BY <1>2, <3>1, UploadRows
    <3> QED BY <1>8, <2>1, <3>1, <3>2 DEF KeysTold
  <2> QED BY <2>2, <2>3 DEF KeysTold
<1>18. ElementsDoubleOnlyByOverlap'
  <2>1. \A i \in U : DOMAIN screens'[i].elements = {}
    BY <1>8
  <2> QED BY <1>8, <1>9, <2>1 DEF RowsSafe, ElementsDoubleOnlyByOverlap
<1>19. ReadOnce' /\ AttemptLeft'
  <2>1. \A j \in Running : jobs[j].screen # None => jobs[j].screen \in Screenshots
    BY <1>2, RunningJobs DEF TypeOK
  <2>2. \A j \in Running : jobs[j].screen \in Screenshots' => jobs[j].screen # None
    <3>1. Ids \subseteq Nat /\ Made \subseteq Ids
      BY <1>2 DEF TypeOK, Ids
    <3>2. None \notin Screenshots'
      BY <1>4, <1>12, <3>1, StimulusAssumption
    <3> QED BY <3>2
  <2> QED BY <1>8, <1>9, <1>12, <2>1, <2>2 DEF RowsSafe, ReadOnce, AttemptLeft, Others
<1> QED BY <1>14, <1>15, <1>16, <1>17, <1>18, <1>19 DEF RowsSafe

\* request_analysis lists every screenshot once.
LEMMA AnOrderExists ==
    ASSUME NEW S, IsFiniteSet(S) PROVE (CHOOSE order \in Orders(S) : TRUE) \in Orders(S)
<1>1. PICK f \in Bijection(1..Cardinality(S), S) : TRUE
  BY FS_CardinalityType DEF ExistsBijection
<1>2. f \in Orders(S)
  <2>1. f \in [1..Cardinality(S) -> S] /\ \A i \in S : \E n \in 1..Cardinality(S) : f[n] = i
    BY DEF Bijection, Surjection, Injection
  <2> QED BY <2>1 DEF Orders
<1> QED BY <1>2

\* There are finitely many screens.
LEMMA MadeIsFinite ==
    ASSUME TypeOK
    PROVE  /\ IsFiniteSet(Made) /\ IsFiniteSet(Screenshots)
           /\ Cardinality(Made) \in Nat /\ Cardinality(Screenshots) \in Nat
<1>1. IsFiniteSet(Ids)
  BY FS_Interval, StimulusAssumption DEF Ids
<1>2. Made \subseteq Ids /\ Screenshots \subseteq Made
  BY DEF TypeOK, Screenshots
<1> QED BY <1>1, <1>2, FS_Subset, FS_CardinalityType

JobRows == [screen : Ids \cup {None}, tries : 0..MaxAttempts,
            status : {"PENDING", "RUNNING", "DONE", "FAILED"}]

\* The jobs request_analysis adds.
LEMMA RequestedJobs ==
    ASSUME TypeOK, RequestAnalysis
    PROVE  /\ jobs' \in Seq(JobRows) /\ Len(jobs') <= MaxJobs
           /\ DOMAIN jobs \subseteq DOMAIN jobs'
           /\ \A j \in DOMAIN jobs : jobs'[j] = jobs[j]
           /\ \A j \in DOMAIN jobs' \ DOMAIN jobs :
                /\ jobs'[j].status = "PENDING" /\ jobs'[j].tries = 0
                /\ jobs'[j].screen \in Screenshots \cup {None}
                /\ ~ prototype => jobs'[j].screen # None
<1> DEFINE shots == CHOOSE order \in Orders(Screenshots) : TRUE
           job(i) == [screen |-> i, status |-> "PENDING", tries |-> 0]
           mine  == [n \in DOMAIN shots |-> job(shots[n])]
           flow  == IF prototype THEN <<job(None)>> ELSE <<>>
           more  == mine \o flow
           J == {job(i) : i \in Screenshots \cup {None}}
<1>1. jobs' = jobs \o more /\ Len(jobs) + Len(more) <= MaxJobs
  BY DEF RequestAnalysis
<1>2. shots \in [1..Cardinality(Screenshots) -> Screenshots] /\ Cardinality(Screenshots) \in Nat
  BY AnOrderExists, MadeIsFinite DEF Orders
<1>3. mine \in Seq(J)
  <2>1. mine \in [1..Cardinality(Screenshots) -> J]
    BY <1>2
  <2> QED BY <1>2, <2>1
<1>4. flow \in Seq(J)
  <2>1. job(None) \in J
    OBVIOUS
  <2> HIDE DEF J, job
  <2> QED BY <2>1
<1>5. /\ J \subseteq JobRows
      /\ \A r \in J : r.status = "PENDING" /\ r.tries = 0 /\ r.screen \in Screenshots \cup {None}
  <2>1. Screenshots \subseteq Ids /\ 0 \in 0..MaxAttempts
    BY StimulusAssumption DEF TypeOK, Screenshots
  <2> QED BY <2>1 DEF JobRows
<1>6. jobs \in Seq(JobRows)
  BY DEF TypeOK, JobRows
<1>7. ASSUME ~ prototype PROVE \A n \in 1..Len(more) : more[n].screen # None
  <2>1. DOMAIN mine = 1..Cardinality(Screenshots)
    BY <1>2
  <2>2. \A n \in DOMAIN mine : mine[n].screen \in Screenshots
    BY <1>2
  <2>3. more = mine
    BY <1>3, <1>7
  <2>4. Len(mine) = Cardinality(Screenshots)
    BY <1>2, <1>3, <2>1
  <2> QED BY <2>1, <2>2, <2>3, <2>4, NoneIsNoScreen
<1> HIDE DEF mine, flow, J, job
<1>8. more \in Seq(J)
  BY <1>3, <1>4
<1>9. more \in Seq(JobRows)
  BY <1>5, <1>8
<1> HIDE DEF more
<1>10. /\ jobs' \in Seq(JobRows) /\ Len(jobs') = Len(jobs) + Len(more)
       /\ \A j \in 1..Len(jobs) : jobs'[j] = jobs[j]
       /\ \A j \in 1..Len(jobs') : j \notin 1..Len(jobs) => jobs'[j] = more[j - Len(jobs)]
                                                         /\ j - Len(jobs) \in 1..Len(more)
  BY <1>1, <1>6, <1>9
<1>11. \A n \in 1..Len(more) : more[n] \in J
  BY <1>8
<1>12. /\ DOMAIN jobs = 1..Len(jobs) /\ DOMAIN jobs' = 1..Len(jobs')
       /\ Len(jobs) \in Nat /\ Len(more) \in Nat
  BY <1>6, <1>9, <1>10
<1> QED BY <1>1, <1>5, <1>7, <1>10, <1>11, <1>12

\* New jobs are pending and have all their attempts.
LEMMA RequestAnalysisRows == ASSUME RowsSafe, RequestAnalysis PROVE RowsSafe'
<1>1. TypeOK /\ TxnFits /\ AttemptLeft /\ IdsApart /\ ReadOnce /\ KeysTold /\ ElementsDoubleOnlyByOverlap
  BY DEF RowsSafe
<1>2. UNCHANGED <<rows, txn, uploads, history>>
  BY DEF RequestAnalysis
<1>3. /\ jobs' \in Seq(JobRows) /\ Len(jobs') <= MaxJobs
      /\ DOMAIN jobs \subseteq DOMAIN jobs'
      /\ \A j \in DOMAIN jobs : jobs'[j] = jobs[j]
      /\ \A j \in DOMAIN jobs' \ DOMAIN jobs :
           /\ jobs'[j].status = "PENDING" /\ jobs'[j].tries = 0
           /\ jobs'[j].screen \in Screenshots \cup {None}
  BY <1>1, RequestedJobs
<1>4. /\ Made' = Made /\ Screenshots' = Screenshots /\ screens' = screens /\ txn' = txn
      /\ uploads' = uploads /\ edges' = edges /\ doubled' = doubled
  BY <1>2 DEF Made, Screenshots, rows, history
<1>5. Running' = Running
  BY <1>3 DEF Running
<1>6. TypeOK'
  <2>1. \A j \in DOMAIN jobs' : jobs'[j].screen = None \/ jobs'[j].screen \in Screenshots
    BY <1>1, <1>3 DEF TypeOK
  <2>2. \A t \in edges : t.by \in DOMAIN jobs'
    BY <1>1, <1>3 DEF TypeOK
  <2> QED BY <1>1, <1>2, <1>3, <1>4, <1>5, <2>1, <2>2 DEF TypeOK, JobRows, rows, history
<1>7. IdsApart' /\ KeysTold' /\ ElementsDoubleOnlyByOverlap'
  <2>1. \A c \in Clients : Uploading(c)' = Uploading(c)
    BY <1>4 DEF Uploading
  <2>2. IdsApart'
    BY <1>1, <1>4, <2>1 DEF IdsApart
  <2> QED BY <1>1, <1>4, <2>2 DEF KeysTold, ElementsDoubleOnlyByOverlap
<1>8. \A j \in Running : j \in DOMAIN jobs /\ jobs'[j] = jobs[j]
  BY <1>1, <1>3, RunningJobs
<1>9. TxnFits'
  BY <1>1, <1>4, <1>5, <1>8, AllFitStay
<1>10. ReadOnce'
  BY <1>1, <1>4, <1>5, <1>8 DEF ReadOnce, Others
<1>11. AttemptLeft'
  <2>1. 0 < MaxAttempts
    BY StimulusAssumption
  <2> QED BY <1>1, <1>3, <2>1 DEF AttemptLeft
<1> QED BY <1>6, <1>7, <1>9, <1>10, <1>11 DEF RowsSafe

\* A rollback leaves the rows alone.
LEMMA HandlerRaisesRows ==
    ASSUME RowsSafe, NEW j \in 1..MaxJobs, HandlerRaises(j) PROVE RowsSafe'
<1>1. TypeOK /\ TxnFits /\ AttemptLeft /\ IdsApart /\ ReadOnce /\ KeysTold /\ ElementsDoubleOnlyByOverlap
  BY DEF RowsSafe
<1>2. /\ j \in Running /\ j \in DOMAIN jobs /\ jobs[j].status = "RUNNING"
      /\ UNCHANGED <<rows, uploads, history>>
      /\ txn' = [txn EXCEPT ![j] = NoTxn]
      /\ jobs' = [jobs EXCEPT ![j].tries = @ + 1,
                              ![j].status = IF jobs[j].tries + 1 < MaxAttempts THEN "PENDING"
                                                                               ELSE "FAILED"]
  BY DEF HandlerRaises, Goto, Running
<1>3. /\ Made' = Made /\ Screenshots' = Screenshots /\ screens' = screens
      /\ uploads' = uploads /\ edges' = edges /\ doubled' = doubled
  BY <1>2 DEF Made, Screenshots, rows, history
<1>4. /\ jobs \in Seq(JobRows) /\ jobs[j] \in JobRows
  <2>1. jobs \in Seq(JobRows)
    BY <1>1 DEF TypeOK, JobRows
  <2> HIDE DEF JobRows
  <2> QED BY <1>2, <2>1
<1> DEFINE row == [jobs[j] EXCEPT !.tries = @ + 1,
                                  !.status = IF jobs[j].tries + 1 < MaxAttempts THEN "PENDING"
                                                                                ELSE "FAILED"]
<1>5. /\ row \in JobRows /\ row.screen = jobs[j].screen /\ row.status \in {"PENDING", "FAILED"}
      /\ row.status = "PENDING" => row.tries < MaxAttempts
  <2>1. jobs[j].tries \in Nat /\ jobs[j].tries < MaxAttempts
    <3>1. jobs[j].tries \in 0..MaxAttempts
      BY <1>4 DEF JobRows
    <3>2. jobs[j].tries < MaxAttempts
      BY <1>1, <1>2 DEF AttemptLeft
    <3> QED BY <3>1, <3>2
  <2>2. jobs[j].tries + 1 \in 0..MaxAttempts
    BY <2>1, StimulusAssumption
  <2> QED BY <1>4, <2>1, <2>2 DEF JobRows
<1>6. jobs' = [jobs EXCEPT ![j] = row]
  BY <1>2
<1> HIDE DEF row
<1>7. /\ jobs' \in Seq(JobRows) /\ Len(jobs') = Len(jobs) /\ DOMAIN jobs' = DOMAIN jobs
      /\ jobs'[j] = row /\ \A k \in DOMAIN jobs \ {j} : jobs'[k] = jobs[k]
  <2>1. Len(jobs) \in Nat /\ jobs \in [1..Len(jobs) -> JobRows]
    BY <1>4
  <2>2. jobs' \in [1..Len(jobs) -> JobRows]
    BY <1>5, <1>6, <2>1
  <2>3. jobs' \in Seq(JobRows)
    BY <2>1, <2>2
  <2>4. Len(jobs') = Len(jobs) /\ DOMAIN jobs' = DOMAIN jobs
    BY <2>1, <2>2
  <2> QED BY <1>2, <1>6, <2>3, <2>4
<1>8. Running' = Running \ {j} /\ \A k \in Running' : jobs'[k] = jobs[k]
  BY <1>5, <1>7 DEF Running
<1>9. /\ DOMAIN txn' = 1..MaxJobs /\ txn'[j] = NoTxn
      /\ \A k \in 1..MaxJobs \ {j} : txn'[k] = txn[k]
  BY <1>1, <1>2 DEF TypeOK
<1>10. Running \subseteq 1..MaxJobs
  BY <1>1, RunningJobs
<1>11. TypeOK'
  <2>1. \A k \in DOMAIN jobs' : jobs'[k].screen = None \/ jobs'[k].screen \in Screenshots
    BY <1>1, <1>5, <1>7 DEF TypeOK
  <2>2. \A k \in 1..MaxJobs : /\ DOMAIN txn'[k] = DOMAIN NoTxn
                              /\ IF k \in Running' THEN txn'[k].at \in Stage \ {"idle"}
                                                   ELSE txn'[k] = NoTxn
    BY <1>1, <1>8, <1>9 DEF TypeOK
  <2>3. \A t \in edges : t.from \in Made /\ t.to \in Made /\ t.by \in DOMAIN jobs'
    BY <1>1, <1>7 DEF TypeOK
  <2>4. /\ prototype' \in BOOLEAN /\ covered' \subseteq Made
        /\ missed' \in BOOLEAN /\ loose' \in BOOLEAN /\ overtaken' \in BOOLEAN
    BY <1>1, <1>2 DEF TypeOK, rows, history
  <2>5. /\ \A i \in Made :
             /\ DOMAIN screens[i] = {"key", "seen", "analysis", "elements"}
             /\ screens[i].key \in Nat \cup Nodes /\ screens[i].seen \subseteq Made
             /\ IsAnalysis(screens[i].analysis) /\ screens[i].elements \in Seq(ElementRows(i))
        /\ Made \subseteq Ids /\ doubled \subseteq Made /\ Len(jobs) <= MaxJobs
        /\ uploads \in [Clients -> Seq([id : Ids, key : Nat, seen : SUBSET Made])]
    BY <1>1 DEF TypeOK
  <2> QED BY <1>3, <1>7, <1>9, <2>1, <2>2, <2>3, <2>4, <2>5 DEF TypeOK, JobRows
<1>12. IdsApart'
  <2>1. DOMAIN txn'[j].fresh = {}
    BY <1>9 DEF NoTxn
  <2>2. \A c \in Clients : Uploading(c)' = Uploading(c)
    BY <1>3 DEF Uploading
  <2>3. \A k \in 1..MaxJobs : DOMAIN txn'[k].fresh \subseteq DOMAIN txn[k].fresh
    BY <1>9, <2>1
  <2> QED BY <1>1, <1>3, <2>2, <2>3 DEF IdsApart
<1>13. KeysTold' /\ ElementsDoubleOnlyByOverlap'
  BY <1>1, <1>3 DEF KeysTold, ElementsDoubleOnlyByOverlap
<1>14. TxnFits'
  BY <1>1, <1>3, <1>8, <1>9, <1>10, <1>5, <1>7, AllFitStay
<1>15. ReadOnce'
  <2>1. \A k \in Running' : /\ k \in Running /\ k # j /\ txn'[k] = txn[k]
                             /\ jobs'[k].screen = jobs[k].screen
    BY <1>8, <1>9, <1>10
  <2>2. \A k \in Running' : Others(k)' \subseteq Others(k) /\ Others(k)' \subseteq Running'
    BY <2>1 DEF Others
  <2> QED BY <1>1, <1>3, <2>1, <2>2 DEF ReadOnce
<1>16. AttemptLeft'
  BY <1>1, <1>5, <1>7 DEF AttemptLeft
<1> QED BY <1>11, <1>12, <1>13, <1>14, <1>15, <1>16 DEF RowsSafe

\* A job that begins.
LEMMA JobBegins ==
    ASSUME TypeOK, NEW j \in 1..MaxJobs, Waiting(j),
           jobs' = [jobs EXCEPT ![j].status = "RUNNING"]
    PROVE  /\ jobs' \in Seq(JobRows) /\ Len(jobs') = Len(jobs) /\ DOMAIN jobs' = DOMAIN jobs
           /\ Running' = Running \cup {j} /\ j \notin Running /\ j \in DOMAIN jobs
           /\ jobs[j].status = "PENDING" /\ jobs'[j].status = "RUNNING"
           /\ \A k \in DOMAIN jobs : /\ jobs'[k].screen = jobs[k].screen
                                     /\ jobs'[k].tries = jobs[k].tries
                                     /\ k # j => jobs'[k] = jobs[k]
<1>1. jobs \in Seq(JobRows)
  BY DEF TypeOK, JobRows
<1>2. Len(jobs) \in Nat /\ DOMAIN jobs = 1..Len(jobs) /\ jobs \in [1..Len(jobs) -> JobRows]
  BY <1>1
<1>3. j \in DOMAIN jobs /\ jobs[j].status = "PENDING" /\ jobs[j] \in JobRows
  BY <1>2 DEF Waiting
<1> DEFINE row == [jobs[j] EXCEPT !.status = "RUNNING"]
<1>4. /\ row \in JobRows /\ row.screen = jobs[j].screen /\ row.tries = jobs[j].tries
      /\ row.status = "RUNNING"
  BY <1>3 DEF JobRows
<1>5. jobs' = [jobs EXCEPT ![j] = row]
  BY <1>3
<1> HIDE DEF row
<1>6. jobs' \in [1..Len(jobs) -> JobRows]
  BY <1>2, <1>4, <1>5
<1>7. jobs'[j] = row /\ \A k \in DOMAIN jobs : k # j => jobs'[k] = jobs[k]
  BY <1>2, <1>3, <1>5
<1>8. Running' = Running \cup {j} /\ j \notin Running
  BY <1>2, <1>3, <1>4, <1>6, <1>7 DEF Running
<1>9. jobs' \in Seq(JobRows) /\ Len(jobs') = Len(jobs) /\ DOMAIN jobs' = DOMAIN jobs
  BY <1>2, <1>6
<1> QED BY <1>3, <1>4, <1>7, <1>8, <1>9

\* A job that begins while another reads the same empty screen makes it "doubled".
LEMMA LoadRows == ASSUME RowsSafe, NEW j \in 1..MaxJobs, Load(j) PROVE RowsSafe'
<1>1. TypeOK /\ TxnFits /\ AttemptLeft /\ IdsApart /\ ReadOnce /\ KeysTold /\ ElementsDoubleOnlyByOverlap
  BY DEF RowsSafe
<1> DEFINE i == jobs[j].screen
           new == [NoTxn EXCEPT !.at = "loaded", !.own = screens[i]]
<1>2. /\ Waiting(j) /\ i # None
      /\ jobs' = [jobs EXCEPT ![j].status = "RUNNING"] /\ txn' = [txn EXCEPT ![j] = new]
      /\ doubled' = IF screens[i].elements = <<>> /\ \E k \in Others(j) : jobs[k].screen = i
                    THEN doubled \cup {i} ELSE doubled
      /\ UNCHANGED <<rows, uploads, covered, missed, loose, overtaken>>
  BY DEF Load, Begin, Goto
<1>3. /\ jobs' \in Seq(JobRows) /\ Len(jobs') = Len(jobs) /\ DOMAIN jobs' = DOMAIN jobs
      /\ Running' = Running \cup {j} /\ j \notin Running /\ j \in DOMAIN jobs
      /\ jobs[j].status = "PENDING" /\ jobs'[j].status = "RUNNING"
      /\ \A k \in DOMAIN jobs : /\ jobs'[k].screen = jobs[k].screen
                                /\ jobs'[k].tries = jobs[k].tries
                                /\ k # j => jobs'[k] = jobs[k]
  BY <1>1, <1>2, JobBegins
<1>4. /\ Made' = Made /\ Screenshots' = Screenshots /\ screens' = screens
      /\ uploads' = uploads /\ edges' = edges
  BY <1>2 DEF Made, Screenshots, rows
<1>5. i \in Screenshots /\ i \in Made
  BY <1>1, <1>2, <1>3 DEF TypeOK, Screenshots
<1>6. /\ DOMAIN new = DOMAIN NoTxn /\ new.at = "loaded" /\ new.own = screens[i]
      /\ DOMAIN new.analysis = {} /\ DOMAIN new.added = {} /\ DOMAIN new.fresh = {}
      /\ new.cleared = {} /\ DOMAIN new.flows = {} /\ new.graph = {} /\ new.covers = {} /\ new.now = None
  BY DEF NoTxn
<1> HIDE DEF new
<1>7. /\ DOMAIN txn' = 1..MaxJobs /\ txn'[j] = new
      /\ \A k \in 1..MaxJobs \ {j} : txn'[k] = txn[k]
  BY <1>1, <1>2 DEF TypeOK
<1>8. Running \subseteq 1..MaxJobs /\ Running \subseteq DOMAIN jobs /\ DOMAIN jobs \subseteq 1..MaxJobs
  BY <1>1, RunningJobs
<1> HIDE DEF i
<1>9. TypeOK'
  <2>1. \A k \in DOMAIN jobs' : jobs'[k].screen = None \/ jobs'[k].screen \in Screenshots
    BY <1>1, <1>3 DEF TypeOK
  <2>2. \A k \in 1..MaxJobs : /\ DOMAIN txn'[k] = DOMAIN NoTxn
                              /\ IF k \in Running' THEN txn'[k].at \in Stage \ {"idle"}
                                                   ELSE txn'[k] = NoTxn
    BY <1>1, <1>3, <1>6, <1>7 DEF TypeOK, Stage
  <2>3. doubled' \subseteq Made
    BY <1>1, <1>2, <1>5 DEF TypeOK
  <2>4. \A t \in edges : t.from \in Made /\ t.to \in Made /\ t.by \in DOMAIN jobs'
    BY <1>1, <1>3 DEF TypeOK
  <2>5. /\ prototype' \in BOOLEAN /\ covered' \subseteq Made
        /\ missed' \in BOOLEAN /\ loose' \in BOOLEAN /\ overtaken' \in BOOLEAN
    BY <1>1, <1>2 DEF TypeOK, rows
  <2> QED BY <1>1, <1>3, <1>4, <1>7, <2>1, <2>2, <2>3, <2>4, <2>5 DEF TypeOK, JobRows
<1>10. IdsApart'
  <2>1. \A c \in Clients : Uploading(c)' = Uploading(c)
    BY <1>4 DEF Uploading
  <2>2. \A k \in 1..MaxJobs : DOMAIN txn'[k].fresh \subseteq DOMAIN txn[k].fresh
    BY <1>6, <1>7
  <2> QED BY <1>1, <1>4, <2>1, <2>2 DEF IdsApart
<1>11. KeysTold'
  BY <1>1, <1>4 DEF KeysTold
<1>12. ElementsDoubleOnlyByOverlap'
  <2>1. doubled \subseteq doubled'
    BY <1>2
  <2> QED BY <1>1, <1>4, <2>1 DEF ElementsDoubleOnlyByOverlap
<1>13. TxnFits'
  <2>1. \A k \in Running :
          WritesFit(k)' /\ IF jobs'[k].screen = None THEN ImportFits(k)' ELSE ReadingFits(k)'
    <3>1. \A k \in Running : txn'[k] = txn[k] /\ jobs'[k].screen = jobs[k].screen
      BY <1>3, <1>7, <1>8
    <3> QED BY <1>1, <1>4, <3>1, FitsStay
  <2>2. WritesFit(j)'
    BY <1>6, <1>7 DEF WritesFit
  <2>3. ReadingFits(j)'
    <3>1. IsAnalysis(screens[i].analysis) /\ screens[i].elements \in Seq(ElementRows(i))
      BY <1>1, <1>5 DEF TypeOK
    <3> QED BY <1>3, <1>6, <1>7, <3>1 DEF ReadingFits, i
  <2> QED BY <1>2, <1>3, <1>8, <2>1, <2>2, <2>3 DEF TxnFits, i
<1>14. ReadOnce'
  <2>1. /\ doubled \subseteq doubled'
        /\ screens[i].elements = <<>> /\ (\E k \in Others(j) : jobs[k].screen = i) => i \in doubled'
    BY <1>2
  <2>2. ASSUME NEW k \in Running', jobs[k].screen \in Screenshots \ doubled', txn'[k].own.elements = <<>>
        PROVE  /\ screens[jobs[k].screen].elements = <<>>
               /\ \A l \in Running' \ {k} : jobs[l].screen # jobs[k].screen
    <3>1. CASE k = j
      <4>1. screens[i].elements = <<>>
        BY <1>6, <1>7, <2>2, <3>1
      <4> QED BY <1>3, <2>1, <2>2, <3>1, <4>1 DEF Others, i
    <3>2. CASE k # j
      <4>1. /\ screens[jobs[k].screen].elements = <<>>
            /\ \A l \in Running \ {k} : jobs[l].screen # jobs[k].screen
        BY <1>1, <1>3, <1>7, <1>8, <2>1, <2>2, <3>2 DEF ReadOnce, Others
      <4>2. jobs[k].screen # i
        BY <1>3, <2>1, <2>2, <3>2, <4>1 DEF Others
      <4> QED BY <1>3, <4>1, <4>2 DEF i
    <3> QED BY <3>1, <3>2
  <2> QED BY <1>3, <1>4, <1>8, <2>2 DEF ReadOnce, Others
<1>15. AttemptLeft'
  BY <1>1, <1>3 DEF AttemptLeft
<1> QED BY <1>9, <1>10, <1>11, <1>12, <1>13, <1>14, <1>15 DEF RowsSafe

\* A screen is read by a job that has loaded it empty.
LEMMA AnalyzeRows == ASSUME RowsSafe, NEW j \in 1..MaxJobs, Analyze(j) PROVE RowsSafe'
<1>1. TypeOK /\ TxnFits
  BY DEF RowsSafe
<1>2. /\ j \in Running /\ txn[j].at = "loaded"
      /\ UNCHANGED <<rows, jobs, uploads, history>>
  BY DEF Analyze, At
<1>3. /\ DOMAIN txn[j] = DOMAIN NoTxn /\ j \in DOMAIN txn
      /\ DOMAIN jobs \subseteq 1..MaxJobs /\ j \in DOMAIN jobs
  BY <1>1, <1>2, RunningJobs DEF TypeOK
<1>4. WritesFit(j) /\ IF jobs[j].screen = None THEN ImportFits(j) ELSE ReadingFits(j)
  BY <1>1, <1>2 DEF TxnFits
<1>5. jobs[j].screen # None /\ ReadingFits(j)
  BY <1>2, <1>4 DEF ImportFits
<1> DEFINE i == jobs[j].screen
<1>6. i \in Made
  BY <1>1, <1>3, <1>5 DEF TypeOK, Screenshots
<1>7. Made' = Made
  BY <1>2 DEF Made, rows
<1>8. /\ txn' = [txn EXCEPT ![j] = txn'[j]]
      /\ DOMAIN txn'[j] = DOMAIN NoTxn /\ txn'[j].at = "analyzed"
      /\ txn'[j].fresh = txn[j].fresh /\ txn'[j].own = txn[j].own
      /\ txn'[j].flows = txn[j].flows /\ txn'[j].cleared = txn[j].cleared
      /\ txn'[j].now = txn[j].now
      /\ txn'[j].graph = txn[j].graph /\ txn'[j].covers = txn[j].covers
      /\ \/ txn'[j].analysis = txn[j].analysis /\ txn'[j].added = txn[j].added
         \/ /\ txn[j].own.elements = <<>>
            /\ DOMAIN txn'[j].analysis = {i} /\ IsAnalysis(txn'[j].analysis[i])
            /\ DOMAIN txn'[j].added = {i} /\ txn'[j].added[i] \in Seq(ElementRows(i))
            /\ \A n \in DOMAIN txn'[j].added[i] : txn'[j].added[i][n].by = j
  <2>1. CASE txn[j].own.elements # <<>>
    <3> DEFINE new == [txn[j] EXCEPT !.at = "analyzed"]
    <3>1. txn' = [txn EXCEPT ![j] = new]
      BY <2>1 DEF Analyze, Goto
    <3>2. /\ DOMAIN new = DOMAIN NoTxn /\ new.at = "analyzed"
          /\ new.fresh = txn[j].fresh /\ new.own = txn[j].own /\ new.now = txn[j].now
          /\ new.flows = txn[j].flows /\ new.cleared = txn[j].cleared
          /\ new.graph = txn[j].graph /\ new.covers = txn[j].covers
          /\ new.analysis = txn[j].analysis /\ new.added = txn[j].added
      BY <1>3 DEF NoTxn
    <3> HIDE DEF new
    <3> QED BY <1>3, <3>1, <3>2
  <2>2. CASE txn[j].own.elements = <<>>
    <3>1. PICK found \in Findings : SaveScreenAnalysis(j, found)
      BY <2>2 DEF Analyze
    <3> DEFINE an == [k \in {i} |-> [source |-> "vision", flow |-> None]]
               ad == [k \in {i} |-> [n \in DOMAIN found |-> ElementRow(k, found[n], j)]]
               new == [txn[j] EXCEPT !.at = "analyzed", !.analysis = an, !.added = ad]
    <3>2. txn' = [txn EXCEPT ![j] = new]
      BY <3>1 DEF SaveScreenAnalysis, Goto
    <3>3. DOMAIN an = {i} /\ IsAnalysis(an[i]) /\ DOMAIN ad = {i}
      BY DEF IsAnalysis, Unanalyzed
    <3>4. ad[i] \in Seq(ElementRows(i)) /\ \A n \in DOMAIN ad[i] : ad[i][n].by = j
      <4>1. found \in Seq(Found) /\ j \in 0..MaxJobs
        BY StimulusAssumption
      <4>2. ad[i] = [n \in DOMAIN found |-> ElementRow(i, found[n], j)]
        OBVIOUS
      <4>3. [n \in DOMAIN found |-> ElementRow(i, found[n], j)] \in Seq(ElementRows(i))
        BY <4>1, RowsOfReading
      <4> QED BY <4>2, <4>3 DEF ElementRow
    <3> HIDE DEF an, ad
    <3>5. /\ DOMAIN new = DOMAIN NoTxn /\ new.at = "analyzed"
          /\ new.fresh = txn[j].fresh /\ new.own = txn[j].own /\ new.now = txn[j].now
          /\ new.flows = txn[j].flows /\ new.cleared = txn[j].cleared
          /\ new.graph = txn[j].graph /\ new.covers = txn[j].covers
          /\ new.analysis = an /\ new.added = ad
      BY <1>3 DEF NoTxn
    <3> HIDE DEF new
    <3> QED BY <1>3, <2>2, <3>2, <3>3, <3>4, <3>5
  <2> QED BY <2>1, <2>2
<1>9. WritesFit(j)'
  BY <1>4, <1>6, <1>7, <1>8 DEF WritesFit, Visible
<1>10. ReadingFits(j)'
  BY <1>2, <1>5, <1>8 DEF ReadingFits
<1>11. txn'[j].at \in Stage \ {"idle"}
  BY <1>8 DEF Stage
<1>12. missed' \in BOOLEAN /\ loose' \in BOOLEAN /\ overtaken' \in BOOLEAN
  BY <1>1, <1>2 DEF TypeOK, history
<1>13. UNCHANGED <<rows, jobs, uploads, covered, doubled>>
  BY <1>2 DEF history
<1> QED BY <1>2, <1>5, <1>8, <1>9, <1>10, <1>11, <1>12, <1>13, TxnRows

\* Analyses, elements and edges stay as they are; the stage moves on.
LEMMA StageRows ==
    ASSUME RowsSafe, NEW j \in 1..MaxJobs, j \in Running,
           txn[j].at \notin {"importing", "clearing"},
           UNCHANGED <<rows, jobs, uploads, covered, doubled>>,
           missed' \in BOOLEAN, loose' \in BOOLEAN, overtaken' \in BOOLEAN,
           txn' = [txn EXCEPT ![j] = txn'[j]], DOMAIN txn'[j] = DOMAIN NoTxn,
           txn'[j].at \in {"ending", "deleting", "replaced"},
           txn'[j].at = "ending" => jobs[j].screen # None,
           \A f \in DOMAIN NoTxn \ {"at", "snap"} : txn'[j][f] = txn[j][f]
    PROVE  RowsSafe'
<1>1. /\ txn'[j].own = txn[j].own /\ txn'[j].fresh = txn[j].fresh
      /\ txn'[j].flows = txn[j].flows /\ txn'[j].cleared = txn[j].cleared
      /\ txn'[j].graph = txn[j].graph /\ txn'[j].covers = txn[j].covers
      /\ txn'[j].analysis = txn[j].analysis /\ txn'[j].added = txn[j].added
      /\ txn'[j].now = txn[j].now
  BY DEF NoTxn
<1>2. Made' = Made /\ screens' = screens /\ Screenshots' = Screenshots
  BY DEF Made, Screenshots, rows
<1>3. WritesFit(j) /\ IF jobs[j].screen = None THEN ImportFits(j) ELSE ReadingFits(j)
  BY DEF RowsSafe, TxnFits
<1>4. WritesFit(j)'
  BY <1>1, <1>2, <1>3 DEF WritesFit, Visible
<1>5. CASE jobs[j].screen = None
  <2>1. ImportFits(j)'
    BY <1>1, <1>2, <1>3, <1>5 DEF ImportFits
  <2> QED BY <1>1, <1>4, <1>5, <2>1, TxnRows DEF Stage
<1>6. CASE jobs[j].screen # None
  <2>1. ReadingFits(j)'
    BY <1>1, <1>2, <1>3, <1>6 DEF ReadingFits
  <2> QED BY <1>1, <1>4, <1>6, <2>1, TxnRows DEF Stage
<1> QED BY <1>5, <1>6

\* The job has looked and goes to its commit.
LEMMA StopEarlyRows == ASSUME RowsSafe, NEW j \in 1..MaxJobs, StopEarly(j) PROVE RowsSafe'
<1>1. TypeOK /\ TxnFits
  BY DEF RowsSafe
<1>2. /\ j \in Running /\ txn[j].at = "analyzed"
      /\ txn' = [txn EXCEPT ![j] = [txn[j] EXCEPT !.at = "ending"]]
      /\ missed' = (missed \/ \E k \in Others(j) : DOMAIN txn[k].analysis # {})
      /\ UNCHANGED <<rows, jobs, uploads, covered, doubled, loose, overtaken>>
  BY DEF StopEarly, At, Goto
<1>3. DOMAIN txn[j] = DOMAIN NoTxn /\ j \in DOMAIN txn
  BY <1>1 DEF TypeOK
<1>4. jobs[j].screen # None
  BY <1>1, <1>2 DEF TxnFits, ImportFits
<1>5. /\ txn' = [txn EXCEPT ![j] = txn'[j]] /\ DOMAIN txn'[j] = DOMAIN NoTxn
      /\ txn'[j].at = "ending"
      /\ \A f \in DOMAIN NoTxn \ {"at", "snap"} : txn'[j][f] = txn[j][f]
  BY <1>2, <1>3 DEF NoTxn
<1>6. missed' \in BOOLEAN /\ loose' \in BOOLEAN /\ overtaken' \in BOOLEAN
  BY <1>1, <1>2 DEF TypeOK
<1> QED BY <1>2, <1>4, <1>5, <1>6, StageRows

\* The DELETE has only chosen its rows.
LEMMA DeleteTransitionsRows ==
    ASSUME RowsSafe, NEW j \in 1..MaxJobs, DeleteTransitions(j) PROVE RowsSafe'
<1>1. TypeOK
  BY DEF RowsSafe
<1>2. /\ j \in Running /\ txn[j].at = "saved"
      /\ UNCHANGED <<rows, jobs, uploads, covered, missed, doubled, overtaken>>
      /\ txn' = [txn EXCEPT ![j] = [txn[j] EXCEPT !.at = "deleting", !.snap = edges]]
      /\ loose' = (loose \/ \E k \in Others(j) :
                     /\ txn[k].at \in {"deleting", "replaced"}
                     /\ DOMAIN txn[k].flows \cap DOMAIN txn[j].flows = {})
  BY DEF DeleteTransitions, At, Goto
<1>3. DOMAIN txn[j] = DOMAIN NoTxn /\ j \in DOMAIN txn
  BY <1>1 DEF TypeOK
<1>4. /\ txn' = [txn EXCEPT ![j] = txn'[j]] /\ DOMAIN txn'[j] = DOMAIN NoTxn
      /\ txn'[j].at = "deleting"
      /\ \A f \in DOMAIN NoTxn \ {"at", "snap"} : txn'[j][f] = txn[j][f]
  BY <1>2, <1>3 DEF NoTxn
<1>5. missed' \in BOOLEAN /\ loose' \in BOOLEAN /\ overtaken' \in BOOLEAN
  BY <1>1, <1>2 DEF TypeOK
<1> QED BY <1>2, <1>4, <1>5, StageRows

\* The new transitions are not seen before the commit.
LEMMA InsertTransitionsRows ==
    ASSUME RowsSafe, NEW j \in 1..MaxJobs, InsertTransitions(j) PROVE RowsSafe'
<1>1. TypeOK
  BY DEF RowsSafe
<1>2. /\ j \in Running /\ txn[j].at = "deleting" /\ UNCHANGED <<rows, jobs, uploads, history>>
      /\ txn' = [txn EXCEPT ![j] = [txn[j] EXCEPT !.at = "replaced"]]
  BY DEF InsertTransitions, At, Goto
<1>3. DOMAIN txn[j] = DOMAIN NoTxn /\ j \in DOMAIN txn
  BY <1>1 DEF TypeOK
<1>4. /\ txn' = [txn EXCEPT ![j] = txn'[j]] /\ DOMAIN txn'[j] = DOMAIN NoTxn
      /\ txn'[j].at = "replaced"
      /\ \A f \in DOMAIN NoTxn \ {"at", "snap"} : txn'[j][f] = txn[j][f]
  BY <1>2, <1>3 DEF NoTxn
<1>5. /\ missed' \in BOOLEAN /\ loose' \in BOOLEAN /\ overtaken' \in BOOLEAN
      /\ covered' = covered /\ doubled' = doubled
  BY <1>1, <1>2 DEF TypeOK, history
<1> QED BY <1>2, <1>4, <1>5, StageRows

\* Of the edges of one trigger the first one is left.
LEMMA FirstWins ==
    ASSUME NEW S, IsListing(S), \A i \in DOMAIN S : IsListing(S[i].elements),
           \A i, k \in DOMAIN S : \A n \in DOMAIN S[i].elements, m \in DOMAIN S[k].elements :
             S[i].elements[n] = S[k].elements[m] => S[i].key = S[k].key,
           NEW canonical, NEW inferred, DOMAIN inferred \subseteq Nat \ {0},
           NEW t \in ResolveTransitions(S, inferred, canonical),
           NEW u \in ResolveTransitions(S, inferred, canonical), t.trigger = u.trigger
    PROVE  t = u
<1>1. PICK q \in DOMAIN inferred : /\ FirstOfItsTrigger(S, canonical, inferred, q)
                                   /\ t = Transition(S, canonical, inferred[q])
  BY DEF ResolveTransitions
<1>2. PICK r \in DOMAIN inferred : /\ FirstOfItsTrigger(S, canonical, inferred, r)
                                   /\ u = Transition(S, canonical, inferred[r])
  BY DEF ResolveTransitions
<1>3. ASSUME NEW p \in DOMAIN inferred, Resolves(S, canonical, inferred[p])
      PROVE  /\ Transition(S, canonical, inferred[p]).from = IdOf(S, Onto(canonical, inferred[p].from))
             /\ \E k \in DOMAIN S :
                  /\ S[k].key = Onto(canonical, inferred[p].from)
                  /\ \E n \in DOMAIN S[k].elements :
                       Transition(S, canonical, inferred[p]).trigger = S[k].elements[n]
  <2> DEFINE from == Onto(canonical, inferred[p].from)
  <2>1. Rows(S, from, inferred[p].element) # {}
    BY <1>3 DEF Resolves
  <2>2. /\ Transition(S, canonical, inferred[p]).from = IdOf(S, from)
        /\ Transition(S, canonical, inferred[p]).trigger = Trigger(S, from, inferred[p].element)
    BY DEF Transition
  <2> HIDE DEF from
  <2>3. PICK k \in DOMAIN S : /\ S[k].key = from
                              /\ \E n \in DOMAIN S[k].elements :
                                   Trigger(S, from, inferred[p].element) = S[k].elements[n]
    BY <2>1, TriggerOfRows
  <2> QED BY <2>2, <2>3 DEF from
<1>4. Resolves(S, canonical, inferred[q]) /\ Resolves(S, canonical, inferred[r])
  BY <1>1, <1>2 DEF FirstOfItsTrigger
<1>5. t.from = u.from
  BY <1>1, <1>2, <1>3, <1>4
<1>6. SameTrigger(t, u) /\ SameTrigger(u, t)
  BY <1>5 DEF SameTrigger
<1>7. q \in Nat /\ r \in Nat /\ q > 0 /\ r > 0
  OBVIOUS
<1>8. ~ (q < r)
  <2> SUFFICES ASSUME q < r PROVE FALSE
    OBVIOUS
  <2>1. q \in 1..(r - 1)
    BY <1>7
  <2> QED BY <1>1, <1>2, <1>4, <1>6, <2>1 DEF FirstOfItsTrigger
<1>9. ~ (r < q)
  <2> SUFFICES ASSUME r < q PROVE FALSE
    OBVIOUS
  <2>1. r \in 1..(q - 1)
    BY <1>7
  <2> QED BY <1>1, <1>2, <1>4, <1>6, <2>1 DEF FirstOfItsTrigger
<1>10. q = r
  BY <1>7, <1>8, <1>9
<1> QED BY <1>1, <1>2, <1>10

\* The elements of a screen as the session of a job has them.
ElementsSeen(j, i) == IF i = jobs[j].screen THEN txn[j].own.elements ELSE screens[i].elements

\* What infer does.
LEMMA Inferred ==
    ASSUME TypeOK, TxnFits, NEW j \in 1..MaxJobs, Infer(j)
    PROVE  /\ j \in Running /\ txn[j].at = "analyzed" /\ jobs[j].screen # None
           /\ UNCHANGED <<rows, jobs, uploads, history>>
           /\ txn' = [txn EXCEPT ![j] = txn'[j]] /\ DOMAIN txn'[j] = DOMAIN NoTxn
           /\ txn'[j].at = "inferred" /\ txn'[j].covers = Made
           /\ txn'[j].own = txn[j].own /\ txn'[j].fresh = txn[j].fresh
           /\ txn'[j].cleared = txn[j].cleared /\ txn'[j].snap = txn[j].snap /\ txn'[j].now = txn[j].now
           /\ txn'[j].analysis = txn[j].analysis /\ txn'[j].added = txn[j].added
           /\ DOMAIN txn'[j].flows \subseteq Made
           /\ \A i \in DOMAIN txn'[j].flows :
                IsAnalysis(txn'[j].flows[i]) /\ txn'[j].flows[i].source = AnalysisSeen(j, i).source
           /\ \A e \in txn'[j].graph :
                /\ e.from \in Made /\ e.to \in Made /\ e.from # e.to
                /\ \E k \in Made : /\ screens[e.from].key = screens[k].key
                                   /\ \E n \in DOMAIN ElementsSeen(j, k) :
                                        e.trigger = ElementsSeen(j, k)[n]
           /\ \A d, e \in txn'[j].graph : d.trigger = e.trigger => d.to = e.to
<1>1. /\ j \in Running /\ txn[j].at = "analyzed"
      /\ UNCHANGED <<rows, jobs, uploads, history>>
  BY DEF Infer, At
<1>2. DOMAIN txn[j] = DOMAIN NoTxn /\ j \in DOMAIN txn
  BY DEF TypeOK
<1>3. jobs[j].screen # None /\ ReadingFits(j) /\ WritesFit(j)
  BY <1>1 DEF TxnFits, ImportFits
<1>4. PICK order \in Orders(Made), reports \in Classifications, answers \in Answers :
         LET listed    == Listed(j, order)
             roles     == ResolveScreenRoles(listed, reports)
             canonical == CanonicalScreenKeys(roles)
             given     == IF Cardinality(Surviving(listed, canonical)) < 2
                          THEN [n \in DOMAIN answers |-> <<>>] ELSE answers
             flow(i)   == [AnalysisSeen(j, i) EXCEPT !.flow = roles[screens[i].key]]
             written   == {i \in Made : /\ screens[i].key \in DOMAIN roles
                                        /\ AnalysisSeen(j, i) # flow(i)}
         IN  Goto(j, [txn[j] EXCEPT
               !.at = "inferred",
               !.flows = [i \in written |-> flow(i)],
               !.graph = InferBestTransitions(listed, canonical,
                           Holder(listed, reports, "entry"), Holder(listed, reports, "success"),
                           given),
               !.covers = Made])
  BY DEF Infer
<1> DEFINE S         == Listed(j, order)
           roles     == ResolveScreenRoles(S, reports)
           canonical == CanonicalScreenKeys(roles)
           given     == IF Cardinality(Surviving(S, canonical)) < 2
                        THEN [n \in DOMAIN answers |-> <<>>] ELSE answers
           flow(i)   == [AnalysisSeen(j, i) EXCEPT !.flow = roles[screens[i].key]]
           written   == {i \in Made : /\ screens[i].key \in DOMAIN roles
                                      /\ AnalysisSeen(j, i) # flow(i)}
           flows     == [i \in written |-> flow(i)]
           entry     == Holder(S, reports, "entry")
           success   == Holder(S, reports, "success")
           graph     == InferBestTransitions(S, canonical, entry, success, given)
           new       == [txn[j] EXCEPT !.at = "inferred", !.flows = flows, !.graph = graph,
                                       !.covers = Made]
<1>5. txn' = [txn EXCEPT ![j] = new]
  BY <1>4 DEF Goto
<1>6. DOMAIN flows \subseteq Made
  OBVIOUS
<1>7. \A i \in DOMAIN flows : IsAnalysis(flows[i]) /\ flows[i].source = AnalysisSeen(j, i).source
  <2>1. ASSUME NEW i \in Made PROVE IsAnalysis(AnalysisSeen(j, i))
    BY <1>3 DEF AnalysisSeen, WritesFit, ReadingFits, TypeOK
  <2>2. ASSUME NEW a, NEW x, IsAnalysis(a)
        PROVE  IsAnalysis([a EXCEPT !.flow = x]) /\ [a EXCEPT !.flow = x].source = a.source
    BY <2>2 DEF IsAnalysis, Unanalyzed
  <2>3. ASSUME NEW i \in Made PROVE IsAnalysis(flow(i)) /\ flow(i).source = AnalysisSeen(j, i).source
    BY <2>1, <2>2
  <2> HIDE DEF flow
  <2> QED BY <2>3
<1>8. \A n \in 1..MaxInferenceAttempts : DOMAIN given[n] \subseteq Nat \ {0}
  <2>1. /\ DOMAIN answers = 1..MaxInferenceAttempts
        /\ \A n \in DOMAIN answers : IsASequence(answers[n])
    BY StimulusAssumption
  <2>2. ASSUME NEW s, IsASequence(s) PROVE DOMAIN s \subseteq Nat \ {0}
    BY <2>2 DEF IsASequence
  <2>3. DOMAIN <<>> = {}
    OBVIOUS
  <2> QED BY <2>1, <2>2, <2>3
<1>9. /\ order \in [1..Cardinality(Made) -> Made] /\ Cardinality(Made) \in Nat
  BY MadeIsFinite DEF Orders
<1>10. /\ DOMAIN S = 1..Cardinality(Made)
       /\ \A n \in DOMAIN S : /\ S[n].id \in Made /\ S[n].key = screens[S[n].id].key
                              /\ S[n].elements = ElementsSeen(j, S[n].id)
  BY <1>9 DEF Listed, ElementsSeen
<1>11. ASSUME NEW i \in Made
       PROVE  ElementsSeen(j, i) \in Seq(ElementRows(i))
  BY <1>3 DEF ElementsSeen, ReadingFits, TypeOK
<1> HIDE DEF flows, graph, canonical, given, entry, success, S
<1>12. IsListing(S) /\ \A n \in DOMAIN S : IsListing(S[n].elements)
  <2>1. ASSUME NEW X, NEW s \in Seq(X) PROVE IsListing(s)
    BY DEF IsListing
  <2>2. \A n \in DOMAIN S : IsListing(S[n].elements)
    BY <1>10, <1>11, <2>1
  <2> QED BY <1>9, <1>10, <2>2 DEF IsListing
<1>13. \A i \in Made : \A n \in DOMAIN ElementsSeen(j, i) : ElementsSeen(j, i)[n].screen = i
  <2>1. ASSUME NEW i \in Made, NEW n \in DOMAIN ElementsSeen(j, i)
        PROVE  ElementsSeen(j, i)[n].screen = i
    <3>1. ElementsSeen(j, i)[n] \in ElementRows(i)
      BY <1>11
    <3> QED BY <3>1 DEF ElementRows
  <2> QED BY <2>1
<1>14. \A i, k \in DOMAIN S : \A n \in DOMAIN S[i].elements, m \in DOMAIN S[k].elements :
         S[i].elements[n] = S[k].elements[m] => S[i].key = S[k].key
  BY <1>10, <1>13
<1>15. PICK n \in 1..MaxInferenceAttempts : graph = ResolveTransitions(S, given[n], canonical)
  BY <1>12, KeptGraph DEF graph
<1>16. \A e \in graph :
         /\ e.from \in Made /\ e.to \in Made /\ e.from # e.to
         /\ \E k \in Made : /\ screens[e.from].key = screens[k].key
                            /\ \E m \in DOMAIN ElementsSeen(j, k) :
                                 e.trigger = ElementsSeen(j, k)[m]
  <2> TAKE e \in graph
  <2>1. /\ e.from \in {S[i].id : i \in DOMAIN S} /\ e.to \in {S[i].id : i \in DOMAIN S}
        /\ e.from # e.to
        /\ \E i, k \in DOMAIN S :
             /\ e.from = S[i].id /\ S[i].key = S[k].key
             /\ \E m \in DOMAIN S[k].elements : e.trigger = S[k].elements[m]
    BY <1>12, <1>15, ResolvedEdge
  <2> QED BY <1>10, <2>1
<1>17. \A d, e \in graph : d.trigger = e.trigger => d = e
  <2> SUFFICES ASSUME NEW d \in graph, NEW e \in graph, d.trigger = e.trigger PROVE d = e
    OBVIOUS
  <2>1. DOMAIN given[n] \subseteq Nat \ {0}
    BY <1>8
  <2> QED BY <1>12, <1>14, <1>15, <2>1, FirstWins
<1>18. /\ DOMAIN new = DOMAIN NoTxn /\ new.at = "inferred" /\ new.covers = Made
       /\ new.own = txn[j].own /\ new.fresh = txn[j].fresh
       /\ new.cleared = txn[j].cleared /\ new.snap = txn[j].snap /\ new.now = txn[j].now
       /\ new.analysis = txn[j].analysis /\ new.added = txn[j].added
       /\ new.flows = flows /\ new.graph = graph
  BY <1>2 DEF NoTxn
<1> HIDE DEF new
<1>19. txn'[j] = new /\ txn' = [txn EXCEPT ![j] = txn'[j]]
  BY <1>2, <1>5
<1> QED BY <1>1, <1>3, <1>6, <1>7, <1>16, <1>17, <1>18, <1>19

\* The inferred graph is one over the screens that are there.
LEMMA InferRows == ASSUME RowsSafe, NEW j \in 1..MaxJobs, Infer(j) PROVE RowsSafe'
<1>1. TypeOK /\ TxnFits
  BY DEF RowsSafe
<1>2. /\ j \in Running /\ txn[j].at = "analyzed" /\ jobs[j].screen # None
      /\ UNCHANGED <<rows, jobs, uploads, history>>
      /\ txn' = [txn EXCEPT ![j] = txn'[j]] /\ DOMAIN txn'[j] = DOMAIN NoTxn
      /\ txn'[j].at = "inferred" /\ txn'[j].covers = Made
      /\ txn'[j].own = txn[j].own /\ txn'[j].fresh = txn[j].fresh
      /\ txn'[j].cleared = txn[j].cleared /\ txn'[j].now = txn[j].now
      /\ txn'[j].analysis = txn[j].analysis /\ txn'[j].added = txn[j].added
      /\ DOMAIN txn'[j].flows \subseteq Made
      /\ \A i \in DOMAIN txn'[j].flows : IsAnalysis(txn'[j].flows[i])
      /\ \A e \in txn'[j].graph : e.from \in Made /\ e.to \in Made
  BY <1>1, Inferred
<1>3. WritesFit(j) /\ ReadingFits(j)
  BY <1>1, <1>2 DEF TxnFits
<1>4. Made' = Made
  BY <1>2 DEF Made, rows
<1>5. WritesFit(j)'
  BY <1>2, <1>3, <1>4 DEF WritesFit, Visible
<1>6. ReadingFits(j)'
  BY <1>2, <1>3 DEF ReadingFits
<1>7. /\ missed' \in BOOLEAN /\ loose' \in BOOLEAN /\ overtaken' \in BOOLEAN
      /\ covered' = covered /\ doubled' = doubled /\ txn'[j].at \in Stage \ {"idle"}
  BY <1>1, <1>2 DEF TypeOK, history, Stage
<1> QED BY <1>2, <1>5, <1>6, <1>7, TxnRows

\* Only analyses of screens that are there are written.
LEMMA SaveScreenRolesRows ==
    ASSUME RowsSafe, NEW j \in 1..MaxJobs, SaveScreenRoles(j) PROVE RowsSafe'
<1>1. TypeOK /\ TxnFits
  BY DEF RowsSafe
<1> DEFINE an  == Over(txn[j].flows, txn[j].analysis)
           new == [txn[j] EXCEPT !.at = "saved", !.analysis = an]
<1>2. /\ j \in Running /\ txn[j].at = "inferred"
      /\ UNCHANGED <<rows, jobs, uploads, history>> /\ txn' = [txn EXCEPT ![j] = new]
  BY DEF SaveScreenRoles, At, Goto
<1>3. jobs[j].screen # None /\ WritesFit(j) /\ ReadingFits(j)
  BY <1>1, <1>2 DEF TxnFits, ImportFits
<1>4. /\ DOMAIN an = DOMAIN txn[j].flows \cup DOMAIN txn[j].analysis
      /\ \A i \in DOMAIN an : IsAnalysis(an[i])
  BY <1>3 DEF Over, WritesFit
<1> HIDE DEF an
<1>5. DOMAIN txn[j] = DOMAIN NoTxn /\ j \in DOMAIN txn
  BY <1>1 DEF TypeOK
<1>6. /\ DOMAIN new = DOMAIN NoTxn /\ new.at = "saved" /\ new.analysis = an
      /\ new.own = txn[j].own /\ new.fresh = txn[j].fresh
      /\ new.flows = txn[j].flows /\ new.cleared = txn[j].cleared
      /\ new.graph = txn[j].graph /\ new.covers = txn[j].covers /\ new.added = txn[j].added
      /\ new.now = txn[j].now
  BY <1>5 DEF NoTxn
<1> HIDE DEF new
<1>7. txn'[j] = new /\ txn' = [txn EXCEPT ![j] = txn'[j]]
  BY <1>2, <1>5
<1>8. Made' = Made
  BY <1>2 DEF Made, rows
<1>9. WritesFit(j)'
  BY <1>3, <1>4, <1>6, <1>7, <1>8 DEF WritesFit, Visible
<1>10. ReadingFits(j)'
  BY <1>2, <1>3, <1>6, <1>7 DEF ReadingFits
<1>11. /\ missed' \in BOOLEAN /\ loose' \in BOOLEAN /\ overtaken' \in BOOLEAN
       /\ covered' = covered /\ doubled' = doubled /\ new.at \in Stage \ {"idle"}
  BY <1>1, <1>2, <1>6 DEF TypeOK, history, Stage
<1> QED BY <1>2, <1>3, <1>6, <1>7, <1>9, <1>10, <1>11, TxnRows

-----------------------------------------------------------------------------
(* Imports. *)

\* What is read in a file are lists of nodes.
LEMMA FilesAreLists ==
    ASSUME NEW file \in Parsed
    PROVE  \A n \in DOMAIN file.elements : n \in Nodes /\ file.elements[n] \in Seq(Nodes)
<1>1. PICK doc \in Documents :
        file = [elements |-> [s \in ParsedScreens(doc) |-> ElementsOf(doc, s)],
                hotspots |-> Hotspots(doc)]
  BY DEF Parsed
<1>2. file.elements = [s \in ParsedScreens(doc) |-> ElementsOf(doc, s)]
  BY <1>1
<1>3. \A s \in ParsedScreens(doc) : s \in Nodes /\ ElementsOf(doc, s) \in Seq(Nodes)
  BY DocumentAssumption
<1> QED BY <1>2, <1>3

\* A hotspot leads from an element of one screen to another.
LEMMA HotspotsOfFile ==
    ASSUME NEW file \in Parsed
    PROVE  /\ \A h \in file.hotspots :
                /\ h.from \in DOMAIN file.elements /\ h.to \in DOMAIN file.elements
                /\ \E n \in DOMAIN file.elements[h.from] : h.trigger = file.elements[h.from][n]
           /\ \A g, h \in file.hotspots : g.trigger = h.trigger => g.to = h.to
<1>1. PICK doc \in Documents :
        file = [elements |-> [s \in ParsedScreens(doc) |-> ElementsOf(doc, s)],
                hotspots |-> Hotspots(doc)]
  BY DEF Parsed
<1>2. /\ file.elements = [s \in ParsedScreens(doc) |-> ElementsOf(doc, s)]
      /\ file.hotspots = Hotspots(doc)
  BY <1>1
<1>3. \A h \in Hotspots(doc) :
         /\ h.from \in ParsedScreens(doc) /\ h.to \in ParsedScreens(doc)
         /\ h.to = doc.node[h.trigger].link
         /\ \E n \in DOMAIN ElementsOf(doc, h.from) : h.trigger = ElementsOf(doc, h.from)[n]
  BY DEF Hotspots, ToSet
<1> QED BY <1>2, <1>3

\* Who imports.
LEMMA Importing ==
    ASSUME TypeOK, TxnFits, NEW j \in Running, txn[j].at \in {"importing", "clearing"}
    PROVE  /\ jobs[j].screen = None /\ WritesFit(j) /\ ImportFits(j) /\ FileFits(j)
           /\ txn[j].graph = {} /\ DOMAIN txn[j] = DOMAIN NoTxn /\ j \in DOMAIN txn
           /\ \A n \in DOMAIN txn[j].file.elements :
                n \in Nodes /\ txn[j].file.elements[n] \in Seq(Nodes)
<1>1. jobs[j].screen = None /\ WritesFit(j) /\ ImportFits(j)
  BY DEF TxnFits, ReadingFits
<1>2. FileFits(j) /\ txn[j].graph = {}
  BY <1>1 DEF ImportFits
<1>3. txn[j].file \in Parsed
  BY <1>2 DEF FileFits
<1>4. DOMAIN txn[j] = DOMAIN NoTxn /\ j \in DOMAIN txn
  BY RunningJobs DEF TypeOK
<1> QED BY <1>1, <1>2, <1>3, <1>4, FilesAreLists

\* The fields of Saved.
HasSaved(w, j, n, i) ==
    /\ DOMAIN w = DOMAIN NoTxn /\ w.at = "importing" /\ w.now = None /\ w.seen = {}
    /\ w.own = txn[j].own /\ w.file = txn[j].file /\ w.fresh = txn[j].fresh
    /\ w.analysis = txn[j].analysis /\ w.cleared = txn[j].cleared
    /\ w.flows = txn[j].flows /\ w.graph = txn[j].graph
    /\ w.covers = txn[j].covers /\ w.snap = txn[j].snap
    /\ DOMAIN w.id = DOMAIN txn[j].id \cup {n} /\ w.id[n] = i
    /\ \A m \in DOMAIN txn[j].id \ {n} : w.id[m] = txn[j].id[m]
    /\ DOMAIN w.added = DOMAIN txn[j].added \cup {i}
    /\ w.added[i] = NodeRows(txn[j].file, n, i, j)
    /\ \A k \in DOMAIN txn[j].added \ {i} : w.added[k] = txn[j].added[k]

\* Saved is what HasSaved says.
LEMMA SavedFields ==
    ASSUME NEW j, DOMAIN txn[j] = DOMAIN NoTxn, NEW n, NEW i
    PROVE  HasSaved(Saved(j, n, i), j, n, i)
<1> DEFINE one  == [m \in {n} |-> i]
           read == [k \in {i} |-> NodeRows(txn[j].file, n, k, j)]
           id   == Over(one, txn[j].id)
           ad   == Over(read, txn[j].added)
           w    == Saved(j, n, i)
<1>1. w = [txn[j] EXCEPT !.at = "importing", !.now = None, !.seen = {}, !.id = id, !.added = ad]
  BY DEF Saved
<1>2. /\ DOMAIN id = DOMAIN txn[j].id \cup {n} /\ id[n] = i
      /\ \A m \in DOMAIN txn[j].id \ {n} : id[m] = txn[j].id[m]
  BY DEF Over
<1>3. DOMAIN read = {i} /\ read[i] = NodeRows(txn[j].file, n, i, j)
  OBVIOUS
<1> HIDE DEF read
<1>4. /\ DOMAIN ad = DOMAIN txn[j].added \cup {i} /\ ad[i] = NodeRows(txn[j].file, n, i, j)
      /\ \A k \in DOMAIN txn[j].added \ {i} : ad[k] = txn[j].added[k]
  BY <1>3 DEF Over
<1> HIDE DEF id, ad
<1>5. /\ DOMAIN w = DOMAIN NoTxn /\ w.at = "importing" /\ w.now = None /\ w.seen = {}
      /\ w.own = txn[j].own /\ w.file = txn[j].file /\ w.fresh = txn[j].fresh
      /\ w.analysis = txn[j].analysis /\ w.cleared = txn[j].cleared
      /\ w.flows = txn[j].flows /\ w.graph = txn[j].graph
      /\ w.covers = txn[j].covers /\ w.snap = txn[j].snap
      /\ w.id = id /\ w.added = ad
  BY <1>1 DEF NoTxn
<1> HIDE DEF w
<1> QED BY <1>2, <1>4, <1>5 DEF w, HasSaved

\* The elements of a node are rows of its screen, by the import.
LEMMA RowsOfNode ==
    ASSUME NEW file, NEW n, NEW i, NEW j \in 0..MaxJobs, file.elements[n] \in Seq(Nodes)
    PROVE  /\ NodeRows(file, n, i, j) \in Seq(ElementRows(i))
           /\ \A m \in DOMAIN NodeRows(file, n, i, j) : NodeRows(file, n, i, j)[m].by = j
<1> DEFINE found == file.elements[n]
<1>1. Nodes \in SUBSET (Found \cup Nodes) /\ found \in Seq(Nodes)
  OBVIOUS
<1>2. NodeRows(file, n, i, j) = [m \in DOMAIN found |-> ElementRow(i, found[m], j)]
  BY DEF NodeRows
<1> HIDE DEF found
<1>3. NodeRows(file, n, i, j) \in Seq(ElementRows(i))
  BY <1>1, <1>2, RowsOfReading
<1> QED BY <1>2, <1>3 DEF ElementRow

\* What a transaction that has inserted the elements "added", and no transition, has
\* written.
LEMMA WritesOf ==
    ASSUME NEW j, NEW added, txn'[j].added = added,
           \A k \in DOMAIN added :
             /\ k \in Visible(j)' /\ added[k] \in Seq(ElementRows(k))
             /\ \A m \in DOMAIN added[k] : added[k][m].by = j,
           DOMAIN txn'[j].flows = {}, txn'[j].graph = {}, txn'[j].covers \subseteq Visible(j)',
           DOMAIN txn'[j].analysis \subseteq Visible(j)',
           \A k \in DOMAIN txn'[j].analysis : IsAnalysis(txn'[j].analysis[k])
    PROVE  WritesFit(j)'
<1>1. \A k : ElementRows(k)' = ElementRows(k)
  BY DEF ElementRows
<1> QED BY <1>1 DEF WritesFit, IsAnalysis, Unanalyzed

\* An import that is not replacing a row.
LEMMA FileOf ==
    ASSUME NEW j, txn'[j].at # "clearing", txn'[j].now = None, txn'[j].file \in Parsed,
           DOMAIN txn'[j].id \subseteq DOMAIN txn'[j].file.elements,
           \A m \in DOMAIN txn'[j].id :
             LET r == txn'[j].id[m]
             IN  /\ r \in Visible(j)'
                 /\ m = IF r \in Made' THEN screens'[r].key ELSE txn'[j].fresh[r]
                 /\ r \in DOMAIN txn'[j].added
                 /\ txn'[j].added[r] = NodeRows(txn'[j].file, m, r, j)
    PROVE  FileFits(j)'
  BY DEF FileFits, Parsed

\* The transaction has the fields of w, and in it row i is that of node n.
HasRow(j, n, i, w) ==
    /\ \A f \in {"at", "now", "file", "id", "added", "flows", "graph", "covers"} :
         txn'[j][f] = w[f]
    /\ i \in Visible(j)' /\ n = IF i \in Made THEN screens[i].key ELSE txn'[j].fresh[i]
    /\ DOMAIN txn[j].fresh \subseteq DOMAIN txn'[j].fresh
    /\ DOMAIN txn'[j].fresh \cap Made = {}
    /\ \A k \in DOMAIN txn[j].fresh : txn'[j].fresh[k] = txn[j].fresh[k]

\* All its new rows are of nodes, and have an analysis and, like those whose elements
\* it has deleted, elements.
RowsHaveAll(j, w) ==
    /\ \A k \in DOMAIN txn'[j].fresh : txn'[j].fresh[k] \in Nodes
    /\ DOMAIN txn'[j].fresh \subseteq DOMAIN txn'[j].analysis \cap DOMAIN w.added
    /\ DOMAIN txn'[j].analysis \subseteq Visible(j)'
    /\ \A k \in DOMAIN txn'[j].analysis : IsAnalysis(txn'[j].analysis[k])
    /\ \A e \in txn'[j].cleared : e.screen \in DOMAIN w.added

\* Node n has row i, and row i the elements of n.
LEMMA RowSaved ==
    ASSUME TypeOK, TxnFits, NEW j \in Running, txn[j].at \in {"importing", "clearing"},
           screens' = screens, NEW n \in Unsaved(j), NEW i, NEW w, w = Saved(j, n, i),
           HasRow(j, n, i, w), RowsHaveAll(j, w)
    PROVE  WritesFit(j)' /\ ImportFits(j)'
<1>1. /\ WritesFit(j) /\ ImportFits(j) /\ FileFits(j)
      /\ txn[j].graph = {} /\ DOMAIN txn[j] = DOMAIN NoTxn
      /\ n \in Nodes /\ txn[j].file.elements[n] \in Seq(Nodes)
      /\ n \in DOMAIN txn[j].file.elements /\ n \notin DOMAIN txn[j].id
  BY Importing DEF Unsaved
<1> DEFINE read == NodeRows(txn[j].file, n, i, j)
<1>2. HasSaved(w, j, n, i)
  BY <1>1, SavedFields
<1>3. w.added[i] = read
  BY <1>2 DEF HasSaved
<1>4. /\ w.at = "importing" /\ w.now = None /\ w.file = txn[j].file
      /\ w.flows = txn[j].flows /\ w.graph = {} /\ w.covers = txn[j].covers
      /\ DOMAIN w.id = DOMAIN txn[j].id \cup {n} /\ w.id[n] = i
      /\ \A m \in DOMAIN txn[j].id : w.id[m] = txn[j].id[m]
      /\ DOMAIN w.added = DOMAIN txn[j].added \cup {i}
      /\ \A k \in DOMAIN txn[j].added \ {i} : w.added[k] = txn[j].added[k]
  BY <1>1, <1>2 DEF HasSaved
<1>5. /\ txn'[j].at = "importing" /\ txn'[j].now = None /\ txn'[j].file = txn[j].file
      /\ txn'[j].flows = txn[j].flows /\ txn'[j].graph = {} /\ txn'[j].covers = txn[j].covers
      /\ txn'[j].id = w.id /\ txn'[j].added = w.added
  BY <1>4 DEF HasRow
<1>6. Made' = Made /\ Screenshots' = Screenshots /\ Visible(j) \subseteq Visible(j)'
  BY DEF Made, Screenshots, Visible, HasRow
<1>7. read \in Seq(ElementRows(i)) /\ \A m \in DOMAIN read : read[m].by = j
  <2>1. txn[j].file.elements[n] \in Seq(Nodes) /\ j \in 0..MaxJobs
    BY <1>1, RunningJobs, StimulusAssumption
  <2> QED BY <2>1, RowsOfNode
<1> HIDE DEF read
<1>8. WritesFit(j)'
  <2>1. \A k \in DOMAIN w.added :
          /\ k \in Visible(j)' /\ w.added[k] \in Seq(ElementRows(k))
          /\ \A m \in DOMAIN w.added[k] : w.added[k][m].by = j
    <3> TAKE k \in DOMAIN w.added
    <3>1. CASE k = i
      BY <1>3, <1>7, <3>1 DEF HasRow
    <3>2. CASE k # i
      <4>1. k \in DOMAIN txn[j].added /\ w.added[k] = txn[j].added[k]
        BY <1>4, <3>2
      <4>2. /\ k \in Visible(j) /\ txn[j].added[k] \in Seq(ElementRows(k))
            /\ \A m \in DOMAIN txn[j].added[k] : txn[j].added[k][m].by = j
        BY <1>1, <4>1 DEF WritesFit
      <4> QED BY <1>6, <4>1, <4>2
    <3> QED BY <3>1, <3>2
  <2>2. txn[j].covers \subseteq Visible(j)' /\ DOMAIN txn[j].flows = {}
    BY <1>1, <1>6 DEF WritesFit, ImportFits
  <2>3. /\ DOMAIN txn'[j].flows = {} /\ txn'[j].graph = {}
        /\ txn'[j].covers \subseteq Visible(j)'
    BY <1>5, <2>2
  <2>4. /\ DOMAIN txn'[j].analysis \subseteq Visible(j)'
        /\ \A k \in DOMAIN txn'[j].analysis : IsAnalysis(txn'[j].analysis[k])
    BY DEF RowsHaveAll
  <2>5. txn'[j].added = w.added
    BY <1>5
  <2> QED BY <2>1, <2>3, <2>4, <2>5, WritesOf
<1>9. i \notin Screenshots
  BY <1>1, StimulusAssumption DEF Screenshots, HasRow
<1>10. FileFits(j)'
  <2> DEFINE Has(m, r) == /\ r \in Visible(j)' /\ r \in DOMAIN w.added
                          /\ m = IF r \in Made THEN screens[r].key ELSE txn'[j].fresh[r]
                          /\ w.added[r] = NodeRows(txn[j].file, m, r, j)
  <2>1. ASSUME NEW m \in DOMAIN txn[j].id PROVE Has(m, w.id[m])
    <3> DEFINE r == txn[j].id[m]
    <3>1. /\ r \in Visible(j) /\ r \in DOMAIN txn[j].added
          /\ m = IF r \in Made THEN screens[r].key ELSE txn[j].fresh[r]
          /\ txn[j].added[r] = NodeRows(txn[j].file, m, r, j)
          /\ w.id[m] = r
      BY <1>1, <1>4 DEF FileFits
    <3> HIDE DEF r
    <3>2. m = IF r \in Made THEN screens[r].key ELSE txn'[j].fresh[r]
      BY <3>1 DEF Visible, HasRow
    <3>3. r # i
      BY <1>1, <3>2 DEF HasRow
    <3>4. w.added[r] = txn[j].added[r]
      BY <1>4, <3>1, <3>3
    <3>5. Has(m, r)
      BY <1>4, <1>6, <3>1, <3>2, <3>4
    <3> QED BY <3>1, <3>5
  <2>2. txn[j].file \in Parsed /\ DOMAIN w.id \subseteq DOMAIN txn[j].file.elements
    BY <1>1, <1>4 DEF FileFits
  <2>3. Has(n, i)
    BY <1>3, <1>4 DEF read, HasRow
  <2>4. \A m \in DOMAIN w.id : Has(m, w.id[m])
    <3> HIDE DEF Has
    <3> QED BY <1>4, <2>1, <2>3
  <2>5. ASSUME NEW m \in DOMAIN txn'[j].id
        PROVE  LET r == txn'[j].id[m]
               IN  /\ r \in Visible(j)'
                   /\ m = IF r \in Made' THEN screens'[r].key ELSE txn'[j].fresh[r]
                   /\ r \in DOMAIN txn'[j].added
                   /\ txn'[j].added[r] = NodeRows(txn'[j].file, m, r, j)
    <3> DEFINE r == w.id[m]
    <3>1. m \in DOMAIN w.id /\ txn'[j].id[m] = r
      BY <1>5
    <3>2. Has(m, r)
      <4> HIDE DEF Has
      <4> QED BY <2>4, <3>1
    <3> HIDE DEF r
    <3>3. /\ r \in Visible(j)'
          /\ m = IF r \in Made' THEN screens'[r].key ELSE txn'[j].fresh[r]
          /\ r \in DOMAIN txn'[j].added
          /\ txn'[j].added[r] = NodeRows(txn'[j].file, m, r, j)
      BY <1>5, <1>6, <3>2
    <3> QED BY <3>1, <3>3
  <2>6. txn'[j].file \in Parsed /\ DOMAIN txn'[j].id \subseteq DOMAIN txn'[j].file.elements
    BY <1>5, <2>2
  <2>7. txn'[j].at # "clearing" /\ txn'[j].now = None
    BY <1>5
  <2> QED BY <2>5, <2>6, <2>7, FileOf
<1> QED BY <1>1, <1>4, <1>5, <1>6, <1>8, <1>9, <1>10 DEF ImportFits, RowsHaveAll

\* An import that begins has written nothing.
LEMMA LoadPrototypeRows ==
    ASSUME RowsSafe, NEW j \in 1..MaxJobs, LoadPrototype(j) PROVE RowsSafe'
<1>1. TypeOK /\ TxnFits /\ AttemptLeft /\ IdsApart /\ ReadOnce /\ KeysTold /\ ElementsDoubleOnlyByOverlap
  BY DEF RowsSafe
<1>2. PICK file \in Parsed :
        Begin(j, [NoTxn EXCEPT !.at = "importing", !.file = file,
                               !.own = [i \in Made \ Screenshots |-> screens[i].analysis]])
  BY DEF LoadPrototype
<1> DEFINE new == [NoTxn EXCEPT !.at = "importing", !.file = file,
                                !.own = [i \in Made \ Screenshots |-> screens[i].analysis]]
<1>3. /\ Waiting(j) /\ jobs[j].screen = None /\ UNCHANGED <<rows, uploads, history>>
      /\ jobs' = [jobs EXCEPT ![j].status = "RUNNING"] /\ txn' = [txn EXCEPT ![j] = new]
  BY <1>2 DEF LoadPrototype, Begin, Goto
<1>4. /\ jobs' \in Seq(JobRows) /\ Len(jobs') = Len(jobs) /\ DOMAIN jobs' = DOMAIN jobs
      /\ Running' = Running \cup {j} /\ j \notin Running /\ j \in DOMAIN jobs
      /\ jobs[j].status = "PENDING" /\ jobs'[j].status = "RUNNING"
      /\ \A k \in DOMAIN jobs : /\ jobs'[k].screen = jobs[k].screen
                                /\ jobs'[k].tries = jobs[k].tries
                                /\ k # j => jobs'[k] = jobs[k]
  BY <1>1, <1>3, JobBegins
<1>5. /\ Made' = Made /\ Screenshots' = Screenshots /\ screens' = screens
      /\ uploads' = uploads /\ edges' = edges /\ doubled' = doubled
  BY <1>3 DEF Made, Screenshots, rows, history
<1>6. /\ DOMAIN new = DOMAIN NoTxn /\ new.at = "importing" /\ new.file = file
      /\ DOMAIN new.analysis = {} /\ DOMAIN new.added = {} /\ DOMAIN new.fresh = {}
      /\ new.cleared = {} /\ DOMAIN new.flows = {} /\ new.graph = {} /\ new.covers = {}
      /\ new.now = None /\ DOMAIN new.id = {}
  BY DEF NoTxn
<1> HIDE DEF new
<1>7. /\ DOMAIN txn' = 1..MaxJobs /\ txn'[j] = new
      /\ \A k \in 1..MaxJobs \ {j} : txn'[k] = txn[k]
  BY <1>1, <1>3 DEF TypeOK
<1>8. Running \subseteq 1..MaxJobs /\ Running \subseteq DOMAIN jobs /\ DOMAIN jobs \subseteq 1..MaxJobs
  BY <1>1, RunningJobs
<1>9. TypeOK'
  <2>1. \A k \in DOMAIN jobs' : jobs'[k].screen = None \/ jobs'[k].screen \in Screenshots
    BY <1>1, <1>4 DEF TypeOK
  <2>2. \A k \in 1..MaxJobs : /\ DOMAIN txn'[k] = DOMAIN NoTxn
                              /\ IF k \in Running' THEN txn'[k].at \in Stage \ {"idle"}
                                                   ELSE txn'[k] = NoTxn
    BY <1>1, <1>4, <1>6, <1>7 DEF TypeOK, Stage
  <2>3. \A t \in edges : t.from \in Made /\ t.to \in Made /\ t.by \in DOMAIN jobs'
    BY <1>1, <1>4 DEF TypeOK
  <2>4. /\ prototype' \in BOOLEAN /\ covered' \subseteq Made
        /\ missed' \in BOOLEAN /\ loose' \in BOOLEAN /\ overtaken' \in BOOLEAN
    BY <1>1, <1>3 DEF TypeOK, rows, history
  <2> QED BY <1>1, <1>4, <1>5, <1>7, <2>1, <2>2, <2>3, <2>4 DEF TypeOK, JobRows
<1>10. IdsApart'
  <2>1. \A c \in Clients : Uploading(c)' = Uploading(c)
    BY <1>5 DEF Uploading
  <2>2. \A k \in 1..MaxJobs : DOMAIN txn'[k].fresh \subseteq DOMAIN txn[k].fresh
    BY <1>6, <1>7
  <2> QED BY <1>1, <1>5, <2>1, <2>2 DEF IdsApart
<1>11. KeysTold' /\ ElementsDoubleOnlyByOverlap'
  BY <1>1, <1>5 DEF KeysTold, ElementsDoubleOnlyByOverlap
<1>12. TxnFits'
  <2>1. \A k \in Running :
          WritesFit(k)' /\ IF jobs'[k].screen = None THEN ImportFits(k)' ELSE ReadingFits(k)'
    <3>1. \A k \in Running : txn'[k] = txn[k] /\ jobs'[k].screen = jobs[k].screen
      BY <1>4, <1>7, <1>8
    <3> QED BY <1>1, <1>5, <3>1, FitsStay
  <2>2. WritesFit(j)'
    BY <1>6, <1>7 DEF WritesFit
  <2>3. FileFits(j)'
    BY <1>6, <1>7 DEF FileFits
  <2>4. ImportFits(j)'
    BY <1>6, <1>7, <2>3 DEF ImportFits
  <2> QED BY <1>3, <1>4, <1>8, <2>1, <2>2, <2>4 DEF TxnFits
<1>13. ReadOnce'
  <2>1. None \notin Screenshots
    BY <1>1, NoneIsNoScreen
  <2> QED BY <1>1, <1>3, <1>4, <1>5, <1>7, <1>8, <2>1 DEF ReadOnce, Others
<1>14. AttemptLeft'
  BY <1>1, <1>4 DEF AttemptLeft
<1> QED BY <1>9, <1>10, <1>11, <1>12, <1>13, <1>14 DEF RowsSafe

\* What the insertion of a row of screens does.
LEMMA ScreenInserted ==
    ASSUME TypeOK, TxnFits, IdsApart, NEW j \in 1..MaxJobs, InsertScreen(j)
    PROVE  /\ j \in Running /\ txn[j].at = "importing" /\ jobs[j].screen = None
           /\ UNCHANGED <<rows, jobs, uploads, history>>
           /\ txn' = [txn EXCEPT ![j] = txn'[j]] /\ DOMAIN txn'[j] = DOMAIN NoTxn
           /\ txn'[j].at = "importing" /\ txn'[j].now = None /\ txn'[j].graph = {}
           /\ txn'[j].flows = txn[j].flows
           /\ txn'[j].cleared = txn[j].cleared /\ txn'[j].snap = txn[j].snap
           /\ DOMAIN txn'[j].fresh \subseteq DOMAIN txn[j].fresh \cup FreeIds
           /\ \E i \in FreeIds : DOMAIN txn'[j].added = DOMAIN txn[j].added \cup {i}
           /\ WritesFit(j)' /\ ImportFits(j)'
<1>1. /\ j \in Running /\ txn[j].at = "importing" /\ FreeIds # {}
      /\ UNCHANGED <<rows, jobs, uploads, history>>
  BY DEF InsertScreen, At
<1> DEFINE i == Earliest(FreeIds)
<1>2. PICK n \in Unsaved(j) :
        Goto(j, [Saved(j, n, i) EXCEPT !.fresh = Over([k \in {i} |-> n], @),
                                       !.analysis = Over([k \in {i} |-> FromFigma], @)])
  BY DEF InsertScreen
<1>3. i \in FreeIds
  <2>1. FreeIds \in SUBSET Nat
    BY DEF FreeIds, Ids
  <2> QED BY <1>1, <2>1, LeastOfSet
<1> HIDE DEF i
<1>4. /\ jobs[j].screen = None /\ WritesFit(j) /\ ImportFits(j)
      /\ DOMAIN txn[j] = DOMAIN NoTxn /\ j \in DOMAIN txn /\ txn[j].graph = {}
      /\ n \in Nodes
  BY <1>1, Importing DEF Unsaved
<1> DEFINE w  == Saved(j, n, i)
           fr == Over([k \in {i} |-> n], txn[j].fresh)
           an == Over([k \in {i} |-> FromFigma], txn[j].analysis)
           new == [w EXCEPT !.fresh = fr, !.analysis = an]
<1>5. w = Saved(j, n, i)
  OBVIOUS
<1>6. HasSaved(w, j, n, i)
  BY <1>4, SavedFields
<1>7. txn' = [txn EXCEPT ![j] = new]
  <2>1. w.fresh = txn[j].fresh /\ w.analysis = txn[j].analysis
    BY <1>6 DEF HasSaved
  <2> QED BY <1>2, <2>1 DEF Goto
<1> HIDE DEF w
<1>8. /\ DOMAIN fr = DOMAIN txn[j].fresh \cup {i} /\ fr[i] = n
      /\ \A k \in DOMAIN txn[j].fresh \ {i} : fr[k] = txn[j].fresh[k]
  BY DEF Over
<1>9. /\ DOMAIN an = DOMAIN txn[j].analysis \cup {i} /\ an[i] = FromFigma
      /\ \A k \in DOMAIN txn[j].analysis \ {i} : an[k] = txn[j].analysis[k]
  BY DEF Over
<1> HIDE DEF fr, an
<1>10. /\ DOMAIN new = DOMAIN NoTxn /\ new.fresh = fr /\ new.analysis = an
       /\ \A f \in DOMAIN NoTxn \ {"fresh", "analysis"} : new[f] = w[f]
  BY <1>6 DEF NoTxn, HasSaved
<1> HIDE DEF new
<1>11. /\ txn'[j] = new /\ txn' = [txn EXCEPT ![j] = txn'[j]]
  BY <1>4, <1>7
<1>12. \A f \in {"at", "now", "file", "id", "added", "flows", "graph", "covers", "cleared", "snap"} :
         txn'[j][f] = w[f]
  BY <1>10, <1>11 DEF NoTxn
<1>13. i \notin Made /\ i \notin DOMAIN txn[j].fresh
  <2>1. DOMAIN txn[j].fresh \subseteq Inserting
    BY Zenon DEF Inserting
  <2> QED BY <1>3, <2>1 DEF FreeIds
<1>14. /\ screens' = screens /\ Made' = Made
       /\ Visible(j)' = Visible(j) \cup {i}
  BY <1>1, <1>8, <1>10, <1>11 DEF rows, Made, Visible
<1>15. WritesFit(j)' /\ ImportFits(j)'
  <2>1. DOMAIN txn[j].fresh \cap Made = {}
    BY DEF IdsApart
  <2>2. IsAnalysis(FromFigma)
    BY DEF FromFigma, IsAnalysis, Unanalyzed
  <2>3. /\ \A k \in DOMAIN txn[j].fresh : txn[j].fresh[k] \in Nodes
        /\ DOMAIN txn[j].fresh \subseteq DOMAIN txn[j].analysis \cap DOMAIN txn[j].added
        /\ \A e \in txn[j].cleared : e.screen \in DOMAIN txn[j].added
    BY <1>4 DEF ImportFits
  <2>4. /\ DOMAIN txn[j].analysis \subseteq Visible(j)
        /\ \A k \in DOMAIN txn[j].analysis : IsAnalysis(txn[j].analysis[k])
    BY <1>4 DEF WritesFit
  <2>5. /\ txn'[j].fresh = fr /\ txn'[j].analysis = an /\ txn'[j].cleared = w.cleared
    BY <1>10, <1>11, <1>12 DEF HasSaved
  <2>6. /\ i \in Visible(j)' /\ n = IF i \in Made THEN screens[i].key ELSE txn'[j].fresh[i]
        /\ DOMAIN txn[j].fresh \subseteq DOMAIN txn'[j].fresh
        /\ DOMAIN txn'[j].fresh \cap Made = {}
        /\ \A k \in DOMAIN txn[j].fresh : txn'[j].fresh[k] = txn[j].fresh[k]
        /\ \A k \in DOMAIN txn'[j].fresh : txn'[j].fresh[k] \in Nodes
    BY <1>4, <1>8, <1>13, <1>14, <2>1, <2>3, <2>5
  <2>7. /\ DOMAIN txn'[j].fresh \subseteq DOMAIN txn'[j].analysis \cap DOMAIN w.added
        /\ DOMAIN txn'[j].analysis \subseteq Visible(j)'
        /\ \A k \in DOMAIN txn'[j].analysis : IsAnalysis(txn'[j].analysis[k])
        /\ \A e \in txn'[j].cleared : e.screen \in DOMAIN w.added
    BY <1>6, <1>8, <1>9, <1>14, <2>2, <2>3, <2>4, <2>5 DEF HasSaved
  <2>8. \A f \in {"at", "now", "file", "id", "added", "flows", "graph", "covers"} :
          txn'[j][f] = w[f]
    BY <1>12
  <2>9. HasRow(j, n, i, w)
    BY <2>6, <2>8 DEF HasRow
  <2>10. RowsHaveAll(j, w)
    BY <2>6, <2>7 DEF RowsHaveAll
  <2> QED BY <1>1, <1>14, <1>5, <2>9, <2>10, RowSaved
<1>16. /\ txn'[j].at = "importing" /\ txn'[j].now = None /\ txn'[j].graph = {}
       /\ txn'[j].cleared = txn[j].cleared /\ txn'[j].snap = txn[j].snap
       /\ txn'[j].flows = txn[j].flows
       /\ DOMAIN txn'[j].added = DOMAIN txn[j].added \cup {i}
  BY <1>4, <1>6, <1>12 DEF HasSaved
<1>17. DOMAIN txn'[j].fresh \subseteq DOMAIN txn[j].fresh \cup FreeIds
  BY <1>3, <1>8, <1>10, <1>11
<1> QED BY <1>1, <1>3, <1>4, <1>10, <1>11, <1>15, <1>16, <1>17

\* The row an import inserts has a free id.
LEMMA InsertScreenRows ==
    ASSUME RowsSafe, NEW j \in 1..MaxJobs, InsertScreen(j) PROVE RowsSafe'
<1>1. TypeOK /\ TxnFits /\ IdsApart
  BY DEF RowsSafe
<1>2. /\ j \in Running /\ jobs[j].screen = None /\ UNCHANGED <<rows, jobs, uploads, history>>
      /\ txn' = [txn EXCEPT ![j] = txn'[j]] /\ DOMAIN txn'[j] = DOMAIN NoTxn
      /\ txn'[j].at = "importing"
      /\ DOMAIN txn'[j].fresh \subseteq DOMAIN txn[j].fresh \cup FreeIds
      /\ WritesFit(j)' /\ ImportFits(j)'
  BY <1>1, ScreenInserted
<1>3. /\ missed' \in BOOLEAN /\ loose' \in BOOLEAN /\ overtaken' \in BOOLEAN
      /\ covered' = covered /\ doubled \subseteq doubled' /\ doubled' \subseteq Made
  BY <1>1, <1>2 DEF TypeOK, history
<1> QED BY <1>2, <1>3, TxnGoesOn DEF Stage

\* What the start of a DELETE of elements does.
LEMMA ElementsCleared ==
    ASSUME TypeOK, TxnFits, NEW j \in 1..MaxJobs, ClearElements(j)
    PROVE  /\ j \in Running /\ txn[j].at = "importing" /\ jobs[j].screen = None
           /\ UNCHANGED <<rows, jobs, uploads, covered, missed, loose, overtaken>>
           /\ txn' = [txn EXCEPT ![j] = txn'[j]] /\ DOMAIN txn'[j] = DOMAIN NoTxn
           /\ txn'[j].at = "clearing" /\ txn'[j].now \in Made \ Screenshots
           /\ txn'[j].seen = Elements(txn'[j].now)
           /\ \A f \in DOMAIN NoTxn \ {"at", "now", "seen"} : txn'[j][f] = txn[j][f]
           /\ doubled' = IF \E k \in Others(j) : Replaces(k, txn'[j].now)
                         THEN doubled \cup {txn'[j].now} ELSE doubled
           /\ WritesFit(j)' /\ ImportFits(j)'
<1>1. /\ j \in Running /\ txn[j].at = "importing"
      /\ UNCHANGED <<rows, jobs, uploads, covered, missed, loose, overtaken>>
  BY DEF ClearElements, At
<1>2. PICK n \in Unsaved(j) : \E i \in RowsOf(n) :
         /\ Goto(j, [txn[j] EXCEPT !.at = "clearing", !.now = i, !.seen = Elements(i)])
         /\ doubled' = IF \E k \in Others(j) : Replaces(k, i) THEN doubled \cup {i} ELSE doubled
  BY DEF ClearElements
<1>3. PICK i \in RowsOf(n) :
         /\ Goto(j, [txn[j] EXCEPT !.at = "clearing", !.now = i, !.seen = Elements(i)])
         /\ doubled' = IF \E k \in Others(j) : Replaces(k, i) THEN doubled \cup {i} ELSE doubled
  BY <1>2
<1>4. /\ jobs[j].screen = None /\ WritesFit(j) /\ ImportFits(j) /\ FileFits(j)
      /\ txn[j].graph = {} /\ DOMAIN txn[j] = DOMAIN NoTxn /\ j \in DOMAIN txn /\ n \in Nodes
  BY <1>1, Importing DEF Unsaved
<1>5. i \in Made /\ screens[i].key = n /\ i \in Made \ Screenshots
  BY <1>4, StimulusAssumption DEF RowsOf, Screenshots
<1> DEFINE new == [txn[j] EXCEPT !.at = "clearing", !.now = i, !.seen = Elements(i)]
<1>6. /\ DOMAIN new = DOMAIN NoTxn /\ new.at = "clearing" /\ new.now = i /\ new.seen = Elements(i)
      /\ \A f \in DOMAIN NoTxn \ {"at", "now", "seen"} : new[f] = txn[j][f]
  BY <1>4 DEF NoTxn
<1>7. txn' = [txn EXCEPT ![j] = new]
  BY <1>3 DEF Goto
<1> HIDE DEF new
<1>8. txn'[j] = new /\ txn' = [txn EXCEPT ![j] = txn'[j]]
  BY <1>4, <1>7
<1>9. /\ txn'[j].at = "clearing" /\ txn'[j].now = i
      /\ txn'[j].file = txn[j].file /\ txn'[j].id = txn[j].id /\ txn'[j].added = txn[j].added
      /\ txn'[j].fresh = txn[j].fresh /\ txn'[j].analysis = txn[j].analysis
      /\ txn'[j].flows = txn[j].flows /\ txn'[j].graph = txn[j].graph
      /\ txn'[j].covers = txn[j].covers /\ txn'[j].cleared = txn[j].cleared
  BY <1>6, <1>8 DEF NoTxn
<1>10. /\ screens' = screens /\ Made' = Made /\ Screenshots' = Screenshots
       /\ Visible(j)' = Visible(j) /\ Unsaved(j)' = Unsaved(j)
  BY <1>1, <1>9 DEF rows, Made, Screenshots, Visible, Unsaved
<1>11. WritesFit(j)'
  BY <1>4, <1>9, <1>10 DEF WritesFit
<1>12. FileFits(j)'
  <2>1. \A m \in DOMAIN txn[j].id :
         LET r == txn[j].id[m]
         IN  /\ r \in Visible(j)
             /\ m = IF r \in Made THEN screens[r].key ELSE txn[j].fresh[r]
             /\ r \in DOMAIN txn[j].added
             /\ txn[j].added[r] = NodeRows(txn[j].file, m, r, j)
    BY <1>4 DEF FileFits
  <2>2. txn[j].file \in Parsed /\ DOMAIN txn[j].id \subseteq DOMAIN txn[j].file.elements
    BY <1>4 DEF FileFits
  <2>3. txn'[j].now \in Made' /\ screens'[txn'[j].now].key \in Unsaved(j)'
    BY <1>5, <1>9, <1>10
  <2> QED BY <1>9, <1>10, <2>1, <2>2, <2>3 DEF FileFits
<1>13. ImportFits(j)'
  BY <1>4, <1>9, <1>10, <1>12 DEF ImportFits
<1>14. \A f \in DOMAIN NoTxn \ {"at", "now", "seen"} : txn'[j][f] = txn[j][f]
  BY <1>6, <1>8
<1>15. txn'[j].seen = Elements(txn'[j].now) /\ DOMAIN txn'[j] = DOMAIN NoTxn
  BY <1>6, <1>8
<1>16. doubled' = IF \E k \in Others(j) : Replaces(k, txn'[j].now)
                  THEN doubled \cup {txn'[j].now} ELSE doubled
  BY <1>3, <1>9
<1> QED BY <1>1, <1>4, <1>5, <1>8, <1>9, <1>11, <1>13, <1>14, <1>15, <1>16

\* An import that replaces elements another is replacing makes the screen "doubled".
LEMMA ClearElementsRows ==
    ASSUME RowsSafe, NEW j \in 1..MaxJobs, ClearElements(j) PROVE RowsSafe'
<1>1. TypeOK /\ TxnFits
  BY DEF RowsSafe
<1>2. /\ j \in Running /\ jobs[j].screen = None
      /\ UNCHANGED <<rows, jobs, uploads, covered, missed, loose, overtaken>>
      /\ txn' = [txn EXCEPT ![j] = txn'[j]] /\ DOMAIN txn'[j] = DOMAIN NoTxn
      /\ txn'[j].at = "clearing" /\ txn'[j].now \in Made
      /\ txn'[j].fresh = txn[j].fresh
      /\ doubled \subseteq doubled' /\ doubled' \subseteq doubled \cup {txn'[j].now}
      /\ WritesFit(j)' /\ ImportFits(j)'
  BY <1>1, ElementsCleared DEF NoTxn
<1>3. /\ missed' \in BOOLEAN /\ loose' \in BOOLEAN /\ overtaken' \in BOOLEAN
      /\ doubled' \subseteq Made
  BY <1>1, <1>2 DEF TypeOK
<1> QED BY <1>2, <1>3, TxnGoesOn DEF Stage

\* What the end of a DELETE of elements, with the row and the elements of the node, does.
LEMMA ElementsReplaced ==
    ASSUME TypeOK, TxnFits, IdsApart, NEW j \in 1..MaxJobs, ReplaceElements(j)
    PROVE  /\ j \in Running /\ txn[j].at = "clearing" /\ jobs[j].screen = None
           /\ txn[j].now \in Made \ Screenshots
           /\ UNCHANGED <<rows, jobs, uploads, history>>
           /\ txn' = [txn EXCEPT ![j] = txn'[j]] /\ DOMAIN txn'[j] = DOMAIN NoTxn
           /\ txn'[j].at = "importing" /\ txn'[j].now = None /\ txn'[j].graph = {}
           /\ txn'[j].fresh = txn[j].fresh /\ txn'[j].snap = txn[j].snap
           /\ txn'[j].flows = txn[j].flows
           /\ DOMAIN txn'[j].added = DOMAIN txn[j].added \cup {txn[j].now}
           /\ txn'[j].cleared = txn[j].cleared \cup (txn[j].seen \cap Elements(txn[j].now))
           /\ \A k \in Others(j) : txn[k].cleared \cap txn[j].seen \cap Elements(txn[j].now) = {}
           /\ ~ Referenced(j, txn[j].seen \cap Elements(txn[j].now))
           /\ WritesFit(j)' /\ ImportFits(j)'
<1> DEFINE i    == txn[j].now
           gone == txn[j].seen \cap Elements(i)
           was  == IF i \in DOMAIN txn[j].own THEN txn[j].own[i] ELSE screens[i].analysis
           n    == screens[i].key
<1>1. /\ j \in Running /\ txn[j].at = "clearing"
      /\ \A k \in Others(j) : txn[k].cleared \cap gone = {}
      /\ ~ Referenced(j, gone)
      /\ UNCHANGED <<rows, jobs, uploads, history>>
  BY DEF ReplaceElements, At
<1> DEFINE an(same) == IF same THEN txn[j].analysis
                       ELSE Over([k \in {i} |-> FromFigma], txn[j].analysis)
           cl == txn[j].cleared \cup gone
           w  == Saved(j, n, i)
           new(same) == [w EXCEPT !.cleared = cl, !.analysis = an(same)]
<1>2. /\ jobs[j].screen = None /\ WritesFit(j) /\ ImportFits(j) /\ FileFits(j)
      /\ txn[j].graph = {} /\ DOMAIN txn[j] = DOMAIN NoTxn /\ j \in DOMAIN txn
      /\ \A m \in Unsaved(j) : m \in Nodes
  BY <1>1, Importing DEF Unsaved
<1>3. /\ i \in Made /\ n \in Unsaved(j) /\ n \in Nodes /\ i \notin Screenshots
  <2>1. i \in Made /\ n \in Unsaved(j)
    BY <1>1, <1>2 DEF FileFits
  <2> QED BY <1>2, <2>1, StimulusAssumption DEF Screenshots
<1>4. HasSaved(w, j, n, i)
  BY <1>2, SavedFields
<1>5. w = Saved(j, n, i)
  OBVIOUS
<1>6. PICK same \in BOOLEAN :
        Goto(j, [Saved(j, n, i) EXCEPT
                   !.cleared = @ \cup gone,
                   !.analysis = IF same THEN @ ELSE Over([k \in {i} |-> FromFigma], @)])
  BY DEF ReplaceElements
<1>7. txn' = [txn EXCEPT ![j] = new(same)]
  <2>1. w.cleared = txn[j].cleared /\ w.analysis = txn[j].analysis
    BY <1>4 DEF HasSaved
  <2> QED BY <1>6, <2>1 DEF Goto
<1> HIDE DEF w
<1>8. /\ DOMAIN txn[j].analysis \subseteq DOMAIN an(same)
      /\ DOMAIN an(same) \subseteq DOMAIN txn[j].analysis \cup {i}
      /\ \A k \in DOMAIN an(same) :
           \/ an(same)[k] = FromFigma
           \/ k \in DOMAIN txn[j].analysis /\ an(same)[k] = txn[j].analysis[k]
  <2>1. CASE same
    BY <2>1
  <2>2. CASE ~ same
    <3>1. an(same) = Over([k \in {i} |-> FromFigma], txn[j].analysis)
      BY <2>2
    <3> QED BY <3>1 DEF Over
  <2> QED BY <2>1, <2>2
<1> DEFINE a == an(same)
           r == new(same)
<1>9. txn' = [txn EXCEPT ![j] = r] /\ r = [w EXCEPT !.cleared = cl, !.analysis = a]
  BY <1>7
<1>10. /\ DOMAIN txn[j].analysis \subseteq DOMAIN a
       /\ DOMAIN a \subseteq DOMAIN txn[j].analysis \cup {i}
       /\ \A k \in DOMAIN a :
            a[k] = FromFigma \/ (k \in DOMAIN txn[j].analysis /\ a[k] = txn[j].analysis[k])
  BY <1>8
<1> HIDE DEF a, r, an, new
<1>11. /\ DOMAIN r = DOMAIN NoTxn /\ r.cleared = cl /\ r.analysis = a
       /\ \A f \in DOMAIN NoTxn \ {"cleared", "analysis"} : r[f] = w[f]
  BY <1>4, <1>9 DEF NoTxn, HasSaved
<1>12. txn'[j] = r /\ txn' = [txn EXCEPT ![j] = txn'[j]]
  BY <1>2, <1>9
<1>13. /\ \A f \in {"at", "now", "file", "id", "added", "flows", "graph", "covers", "fresh", "snap"} :
            txn'[j][f] = w[f]
       /\ txn'[j].cleared = cl /\ txn'[j].analysis = a
  BY <1>11, <1>12 DEF NoTxn
<1>14. /\ txn'[j].at = "importing" /\ txn'[j].now = None /\ txn'[j].graph = {}
       /\ txn'[j].fresh = txn[j].fresh /\ txn'[j].snap = txn[j].snap
       /\ txn'[j].flows = txn[j].flows
       /\ DOMAIN txn'[j].added = DOMAIN txn[j].added \cup {i}
       /\ DOMAIN w.added = DOMAIN txn[j].added \cup {i}
  BY <1>2, <1>4, <1>13 DEF HasSaved
<1>15. /\ screens' = screens /\ Made' = Made /\ Visible(j)' = Visible(j)
  BY <1>1, <1>14 DEF rows, Made, Visible
<1>16. \A e \in gone : e.screen = i
  <2>1. screens[i].elements \in Seq(ElementRows(i))
    BY <1>3 DEF TypeOK
  <2>2. \A e \in Elements(i) : e \in ElementRows(i)
    BY <2>1 DEF Elements
  <2>3. \A e \in ElementRows(i) : e.screen = i
    BY DEF ElementRows
  <2> QED BY <2>2, <2>3
<1> HIDE DEF gone
<1>17. WritesFit(j)' /\ ImportFits(j)'
  <2>1. IsAnalysis(FromFigma)
    BY DEF FromFigma, IsAnalysis, Unanalyzed
  <2>2. /\ \A k \in DOMAIN txn[j].fresh : txn[j].fresh[k] \in Nodes
        /\ DOMAIN txn[j].fresh \subseteq DOMAIN txn[j].analysis \cap DOMAIN txn[j].added
        /\ \A e \in txn[j].cleared : e.screen \in DOMAIN txn[j].added
    BY <1>2 DEF ImportFits
  <2>3. /\ DOMAIN txn[j].analysis \subseteq Visible(j)
        /\ \A k \in DOMAIN txn[j].analysis : IsAnalysis(txn[j].analysis[k])
    BY <1>2 DEF WritesFit
  <2>4. /\ i \in Visible(j)' /\ n = IF i \in Made THEN screens[i].key ELSE txn'[j].fresh[i]
        /\ DOMAIN txn[j].fresh \subseteq DOMAIN txn'[j].fresh
        /\ \A k \in DOMAIN txn[j].fresh : txn'[j].fresh[k] = txn[j].fresh[k]
        /\ \A k \in DOMAIN txn'[j].fresh : txn'[j].fresh[k] \in Nodes
        /\ DOMAIN txn'[j].fresh \cap Made = {}
    BY <1>3, <1>14, <1>15, <2>2 DEF Visible, IdsApart
  <2>5. /\ DOMAIN txn'[j].fresh \subseteq DOMAIN txn'[j].analysis \cap DOMAIN w.added
        /\ DOMAIN txn'[j].analysis \subseteq Visible(j)'
    BY <1>3, <1>10, <1>13, <1>14, <1>15, <2>2, <2>3 DEF Visible
  <2>6. \A k \in DOMAIN txn'[j].analysis : IsAnalysis(txn'[j].analysis[k])
    <3>1. ASSUME NEW k \in DOMAIN a PROVE IsAnalysis(a[k])
      <4>1. CASE a[k] = FromFigma
        BY <2>1, <4>1
      <4>2. CASE a[k] # FromFigma
        BY <1>10, <2>3, <4>2
      <4> QED BY <4>1, <4>2
    <3> QED BY <1>13, <3>1
  <2>7. \A e \in txn'[j].cleared : e.screen \in DOMAIN w.added
    BY <1>13, <1>14, <1>16, <2>2
  <2>8. \A f \in {"at", "now", "file", "id", "added", "flows", "graph", "covers"} :
          txn'[j][f] = w[f]
    BY <1>13
  <2> HIDE DEF n, i
  <2>9. n \in Unsaved(j) /\ txn[j].at \in {"importing", "clearing"}
    BY <1>1, <1>3
  <2>10. HasRow(j, n, i, w)
    BY <2>4, <2>8 DEF HasRow
  <2>11. RowsHaveAll(j, w)
    BY <2>4, <2>5, <2>6, <2>7 DEF RowsHaveAll
  <2> QED BY <1>1, <1>15, <1>5, <2>9, <2>4, <2>10, <2>11, RowSaved
<1>18. /\ txn'[j].cleared = txn[j].cleared \cup (txn[j].seen \cap Elements(txn[j].now))
       /\ \A k \in Others(j) : txn[k].cleared \cap txn[j].seen \cap Elements(txn[j].now) = {}
       /\ ~ Referenced(j, txn[j].seen \cap Elements(txn[j].now))
  BY <1>1, <1>13 DEF gone
<1>19. txn'[j].now = None /\ DOMAIN txn'[j] = DOMAIN NoTxn
  BY <1>11, <1>12, <1>14
<1> QED BY <1>1, <1>2, <1>3, <1>12, <1>14, <1>17, <1>18, <1>19

\* The row that is written over is one of the prototype.
LEMMA ReplaceElementsRows ==
    ASSUME RowsSafe, NEW j \in 1..MaxJobs, ReplaceElements(j) PROVE RowsSafe'
<1>1. TypeOK /\ TxnFits /\ IdsApart
  BY DEF RowsSafe
<1>2. /\ j \in Running /\ jobs[j].screen = None /\ UNCHANGED <<rows, jobs, uploads, history>>
      /\ txn' = [txn EXCEPT ![j] = txn'[j]] /\ DOMAIN txn'[j] = DOMAIN NoTxn
      /\ txn'[j].at = "importing" /\ txn'[j].fresh = txn[j].fresh
      /\ WritesFit(j)' /\ ImportFits(j)'
  BY <1>1, ElementsReplaced
<1>3. /\ missed' \in BOOLEAN /\ loose' \in BOOLEAN /\ overtaken' \in BOOLEAN
      /\ covered' = covered /\ doubled \subseteq doubled' /\ doubled' \subseteq Made
  BY <1>1, <1>2 DEF TypeOK, history
<1> QED BY <1>2, <1>3, TxnGoesOn DEF Stage

\* What the resolution of the hotspots does.
LEMMA HotspotsResolved ==
    ASSUME TypeOK, TxnFits, IdsApart, NEW j \in 1..MaxJobs, ResolveHotspots(j)
    PROVE  /\ j \in Running /\ txn[j].at = "importing" /\ jobs[j].screen = None
           /\ UNCHANGED <<rows, jobs, uploads, history>>
           /\ txn' = [txn EXCEPT ![j] = txn'[j]] /\ DOMAIN txn'[j] = DOMAIN NoTxn
           /\ txn'[j].at = "saved"
           /\ \A f \in {"now", "fresh", "analysis", "added", "cleared", "flows", "snap"} :
                txn'[j][f] = txn[j][f]
           /\ txn[j].now = None /\ DOMAIN txn[j].flows = {}
           /\ \A e \in txn'[j].graph :
                e.trigger.screen = e.from /\ e.trigger.by = j /\ e.trigger \in Own(j)
           /\ \A d, e \in txn'[j].graph : d.trigger = e.trigger => d.to = e.to
           /\ WritesFit(j)' /\ ImportFits(j)'
<1>1. /\ j \in Running /\ txn[j].at = "importing" /\ Unsaved(j) = {}
      /\ UNCHANGED <<rows, jobs, uploads, history>>
  BY DEF ResolveHotspots, At
<1>2. /\ jobs[j].screen = None /\ WritesFit(j) /\ ImportFits(j) /\ FileFits(j)
      /\ DOMAIN txn[j] = DOMAIN NoTxn /\ j \in DOMAIN txn
  BY <1>1, Importing
<1> DEFINE id    == txn[j].id
           edge(h) == [from |-> id[h.from], trigger |-> ElementRow(id[h.from], h.trigger, j),
                       to |-> id[h.to]]
           graph == {edge(h) : h \in txn[j].file.hotspots}
           covers == {id[n] : n \in DOMAIN id}
           new == [txn[j] EXCEPT !.at = "saved", !.own = None, !.file = None, !.id = <<>>,
                                 !.graph = graph, !.covers = covers]
<1>3. txn' = [txn EXCEPT ![j] = new]
  BY DEF ResolveHotspots, Goto
<1>4. /\ txn[j].file \in Parsed /\ DOMAIN id = DOMAIN txn[j].file.elements
      /\ txn[j].now = None /\ DOMAIN txn[j].flows = {}
  BY <1>1, <1>2 DEF FileFits, Unsaved, ImportFits
<1>5. ASSUME NEW n \in DOMAIN id
      PROVE  /\ id[n] \in Visible(j) /\ id[n] \in DOMAIN txn[j].added
             /\ txn[j].added[id[n]] = NodeRows(txn[j].file, n, id[n], j)
             /\ n = IF id[n] \in Made THEN screens[id[n]].key ELSE txn[j].fresh[id[n]]
  BY <1>2 DEF FileFits
<1>6. /\ \A h \in txn[j].file.hotspots :
           /\ h.from \in DOMAIN id /\ h.to \in DOMAIN id
           /\ \E n \in DOMAIN txn[j].file.elements[h.from] :
                h.trigger = txn[j].file.elements[h.from][n]
      /\ \A g, h \in txn[j].file.hotspots : g.trigger = h.trigger => g.to = h.to
  BY <1>4, HotspotsOfFile
<1> HIDE DEF id
<1>7. ASSUME NEW h \in txn[j].file.hotspots
      PROVE  /\ edge(h).from \in Visible(j) /\ edge(h).to \in Visible(j)
             /\ edge(h).trigger.screen = edge(h).from /\ edge(h).trigger.by = j
             /\ edge(h).trigger \in Own(j)
  <2> DEFINE i == id[h.from]
  <2>1. /\ i \in Visible(j) /\ id[h.to] \in Visible(j) /\ i \in DOMAIN txn[j].added
        /\ txn[j].added[i] = NodeRows(txn[j].file, h.from, i, j)
    BY <1>5, <1>6
  <2> HIDE DEF i
  <2>2. PICK n \in DOMAIN txn[j].file.elements[h.from] :
          h.trigger = txn[j].file.elements[h.from][n]
    BY <1>6
  <2>3. n \in DOMAIN txn[j].added[i] /\ txn[j].added[i][n] = ElementRow(i, h.trigger, j)
    BY <2>1, <2>2 DEF NodeRows
  <2>4. ElementRow(i, h.trigger, j) \in Own(j)
    <3> DEFINE row(k) == {txn[j].added[k][m] : m \in DOMAIN txn[j].added[k]}
    <3>1. ElementRow(i, h.trigger, j) \in row(i)
      BY <2>3
    <3>2. Own(j) = UNION {row(k) : k \in DOMAIN txn[j].added}
      BY DEF Own
    <3> HIDE DEF row
    <3> QED BY <2>1, <3>1, <3>2
  <2>5. ElementRow(i, h.trigger, j).screen = i /\ ElementRow(i, h.trigger, j).by = j
    BY DEF ElementRow
  <2> QED BY <2>1, <2>4, <2>5 DEF i
<1>8. ASSUME NEW g \in txn[j].file.hotspots, NEW h \in txn[j].file.hotspots,
             edge(g).trigger = edge(h).trigger
      PROVE  edge(g).to = edge(h).to
  <2>1. g.trigger = h.trigger
    BY <1>8 DEF ElementRow
  <2> QED BY <1>6, <2>1
<1>9. covers \subseteq Visible(j)
  BY <1>5
<1>10. /\ \A e \in graph : /\ e.from \in Visible(j) /\ e.to \in Visible(j)
                           /\ e.trigger.screen = e.from /\ e.trigger.by = j
                           /\ e.trigger \in Own(j)
       /\ \A d, e \in graph : d.trigger = e.trigger => d.to = e.to
  <2> HIDE DEF edge
  <2> QED BY <1>7, <1>8
<1> HIDE DEF graph, covers
<1>11. /\ DOMAIN new = DOMAIN NoTxn /\ new.at = "saved" /\ new.graph = graph
       /\ new.covers = covers
       /\ \A f \in {"now", "fresh", "analysis", "added", "cleared", "flows", "snap"} :
            new[f] = txn[j][f]
  BY <1>2 DEF NoTxn
<1> HIDE DEF new
<1>12. txn'[j] = new /\ txn' = [txn EXCEPT ![j] = txn'[j]]
  BY <1>2, <1>3
<1>13. /\ txn'[j].at = "saved" /\ txn'[j].graph = graph /\ txn'[j].covers = covers
       /\ txn'[j].now = None /\ txn'[j].fresh = txn[j].fresh
       /\ txn'[j].analysis = txn[j].analysis /\ txn'[j].added = txn[j].added
       /\ txn'[j].cleared = txn[j].cleared /\ txn'[j].flows = txn[j].flows
       /\ txn'[j].snap = txn[j].snap
  BY <1>4, <1>11, <1>12
<1>14. /\ Made' = Made /\ Screenshots' = Screenshots /\ Visible(j)' = Visible(j)
  BY <1>1, <1>13 DEF rows, Made, Screenshots, Visible
<1>15. WritesFit(j)'
  BY <1>2, <1>9, <1>10, <1>13, <1>14 DEF WritesFit
<1>16. ImportFits(j)'
  BY <1>2, <1>13, <1>14 DEF ImportFits
<1> QED BY <1>1, <1>2, <1>4, <1>10, <1>11, <1>12, <1>13, <1>15, <1>16

\* Every screen of the file has its row.
LEMMA ResolveHotspotsRows ==
    ASSUME RowsSafe, NEW j \in 1..MaxJobs, ResolveHotspots(j) PROVE RowsSafe'
<1>1. TypeOK /\ TxnFits /\ IdsApart
  BY DEF RowsSafe
<1>2. /\ j \in Running /\ jobs[j].screen = None /\ UNCHANGED <<rows, jobs, uploads, history>>
      /\ txn' = [txn EXCEPT ![j] = txn'[j]] /\ DOMAIN txn'[j] = DOMAIN NoTxn
      /\ txn'[j].at = "saved" /\ txn'[j].fresh = txn[j].fresh
      /\ WritesFit(j)' /\ ImportFits(j)'
  BY <1>1, HotspotsResolved
<1>3. /\ missed' \in BOOLEAN /\ loose' \in BOOLEAN /\ overtaken' \in BOOLEAN
      /\ covered' = covered /\ doubled \subseteq doubled' /\ doubled' \subseteq Made
  BY <1>1, <1>2 DEF TypeOK, history
<1> QED BY <1>2, <1>3, TxnGoesOn DEF Stage

\* Induction up to k, for a set.
LEMMA Induction ==
    ASSUME NEW k \in Nat, NEW T, 0 \in T, \A n \in 0..k : n \in T /\ n < k => n + 1 \in T
    PROVE  0..k \subseteq T
<1> SUFFICES ASSUME (0..k) \ T # {} PROVE FALSE
  OBVIOUS
<1> DEFINE rest == (0..k) \ T
           n == Earliest(rest)
<1>1. n \in rest /\ \A m \in rest : n <= m
  <2>1. rest \in SUBSET Nat /\ rest # {}
    OBVIOUS
  <2> HIDE DEF rest
  <2> QED BY <2>1, LeastOfSet
<1> HIDE DEF n
<1>2. n # 0 /\ n - 1 \in 0..k
  BY <1>1
<1>3. n - 1 \in T
  BY <1>1, <1>2
<1> QED BY <1>1, <1>2, <1>3

\* The rows of g with s[n] unless it is in E.
Kept(g, s, E, n) == IF s[n] \in E THEN g ELSE Append(g, s[n])

\* The recursion that defines Without has a solution.
LEMMA WithoutDef ==
    ASSUME NEW X, NEW s \in Seq(X), NEW E
    PROVE  \E g : /\ Without(s, E) = g[Len(s)] /\ g[0] = <<>>
                  /\ \A n \in 1..Len(s) : g[n] = Kept(g[n - 1], s, E, n)
<1> DEFINE Follows(g, k) == \A n \in 0..k : g[n] = IF n = 0 THEN <<>> ELSE Kept(g[n - 1], s, E, n)
           Defined(k) == \E g : g = [n \in 0..k |-> g[n]] /\ Follows(g, k)
           Good == {k \in Nat : Defined(k)}
<1>1. Len(s) \in Nat
  OBVIOUS
<1>2. 0 \in Good
  <2>1. [n \in 0..0 |-> <<>>] = [n \in 0..0 |-> [m \in 0..0 |-> <<>>][n]]
    OBVIOUS
  <2>2. Follows([n \in 0..0 |-> <<>>], 0)
    OBVIOUS
  <2> QED BY <2>1, <2>2
<1>3. ASSUME NEW k \in 0..Len(s), k \in Good PROVE k + 1 \in Good
  <2>1. PICK g : g = [n \in 0..k |-> g[n]] /\ Follows(g, k)
    BY <1>3
  <2> DEFINE h == [n \in 0..(k + 1) |-> IF n \in 0..k THEN g[n] ELSE Kept(g[k], s, E, k + 1)]
  <2>2. h = [n \in 0..(k + 1) |-> h[n]]
    OBVIOUS
  <2>3. \A n \in 0..k : h[n] = g[n]
    OBVIOUS
  <2>4. h[k + 1] = Kept(h[k], s, E, k + 1)
    BY <2>3
  <2> HIDE DEF h
  <2>5. ASSUME NEW n \in 0..(k + 1) PROVE h[n] = IF n = 0 THEN <<>> ELSE Kept(h[n - 1], s, E, n)
    <3>1. CASE n = k + 1
      <4>1. k + 1 # 0 /\ (k + 1) - 1 = k
        OBVIOUS
      <4> QED BY <2>4, <3>1, <4>1
    <3>2. CASE n \in 0..k
      <4>1. h[n] = g[n] /\ (n # 0 => h[n - 1] = g[n - 1])
        BY <2>3, <3>2
      <4> QED BY <2>1, <4>1, <3>2
    <3> QED BY <3>1, <3>2
  <2>6. Defined(k + 1)
    BY <2>2, <2>5
  <2> HIDE DEF Defined
  <2> QED BY <2>6
<1> HIDE DEF Good
<1>4. 0..Len(s) \subseteq Good
  BY <1>1, <1>2, <1>3, Induction
<1>5. Len(s) \in Good
  BY <1>1, <1>4
<1>6. PICK g : g = [n \in 0..Len(s) |-> g[n]] /\ Follows(g, Len(s))
  BY <1>5 DEF Good
<1>7. g = [n \in 0..Len(s) |-> IF n = 0 THEN <<>> ELSE Kept(g[n - 1], s, E, n)]
  BY <1>6
<1> DEFINE L == CHOOSE left : left = [n \in 0..Len(s) |-> IF n = 0 THEN <<>>
                ELSE IF s[n] \in E THEN left[n - 1] ELSE Append(left[n - 1], s[n])]
<1>8. L = [n \in 0..Len(s) |-> IF n = 0 THEN <<>> ELSE Kept(L[n - 1], s, E, n)]
  BY <1>7 DEF Kept
<1>9. Without(s, E) = L[Len(s)]
  BY DEF Without
<1> HIDE DEF L
<1>10. \A n \in 0..Len(s) : L[n] = IF n = 0 THEN <<>> ELSE Kept(L[n - 1], s, E, n)
  BY <1>8
<1>11. 0 \in 0..Len(s) /\ \A n \in 1..Len(s) : n \in 0..Len(s) /\ n # 0
  BY <1>1
<1>12. L[0] = <<>> /\ \A n \in 1..Len(s) : L[n] = Kept(L[n - 1], s, E, n)
  BY <1>10, <1>11
<1> QED BY <1>9, <1>12

\* What is left of s are its rows that are not in E.
LEMMA WithoutRows ==
    ASSUME NEW X, NEW s \in Seq(X), NEW E
    PROVE  /\ Without(s, E) \in Seq(X)
           /\ \A n \in DOMAIN Without(s, E) : \E m \in DOMAIN s : Without(s, E)[n] = s[m] /\ s[m] \notin E
           /\ \A m \in DOMAIN s : s[m] \notin E => \E n \in DOMAIN Without(s, E) : Without(s, E)[n] = s[m]
           /\ (\A m \in DOMAIN s : s[m] \notin E) => Without(s, E) = s
<1>1. PICK g : /\ Without(s, E) = g[Len(s)] /\ g[0] = <<>>
               /\ \A n \in 1..Len(s) : g[n] = Kept(g[n - 1], s, E, n)
  BY WithoutDef
<1> DEFINE Sound(k) == \A n \in DOMAIN g[k] : \E m \in 1..k : g[k][n] = s[m] /\ s[m] \notin E
           Whole(k) == \A m \in 1..k : s[m] \notin E => \E n \in DOMAIN g[k] : g[k][n] = s[m]
           Same(k)  == (\A m \in 1..k : s[m] \notin E) => Len(g[k]) = k /\ \A n \in 1..k : g[k][n] = s[n]
           Good == {k \in 0..Len(s) : g[k] \in Seq(X) /\ Sound(k) /\ Whole(k) /\ Same(k)}
<1>2. Len(s) \in Nat /\ DOMAIN s = 1..Len(s)
  OBVIOUS
<1>3. 0 \in Good
  <2>1. g[0] \in Seq(X) /\ DOMAIN g[0] = {} /\ Len(g[0]) = 0 /\ \A m \in 1..0 : FALSE
    BY <1>1
  <2>2. Sound(0) /\ Whole(0) /\ Same(0)
    BY <2>1
  <2> HIDE DEF Sound, Whole, Same
  <2> QED BY <1>2, <2>1, <2>2
<1>4. ASSUME NEW k \in 0..Len(s), k \in Good, k < Len(s) PROVE k + 1 \in Good
  <2> DEFINE h == g[k]
             e == s[k + 1]
  <2>1. h \in Seq(X) /\ Sound(k) /\ Whole(k) /\ Same(k)
    BY <1>4
  <2>2. k + 1 \in 1..Len(s) /\ (k + 1) - 1 = k /\ e \in X
    BY <1>2, <1>4
  <2>3. g[k + 1] = Kept(h, s, E, k + 1)
    BY <1>1, <2>2
  <2>4. \A m \in 1..(k + 1) : m \in 1..k \/ m = k + 1
    BY <2>2
  <2>5. \A m \in 1..k : m \in 1..(k + 1)
    BY <2>2
  <2>6. k + 1 \in 1..(k + 1)
    BY <2>2
  <2>7. CASE e \in E
    <3>1. g[k + 1] = h
      BY <2>3, <2>7 DEF Kept
    <3>2. Sound(k + 1)
      BY <2>1, <2>5, <3>1
    <3>3. Whole(k + 1)
      BY <2>1, <2>7, <2>4, <3>1
    <3>4. Same(k + 1)
      BY <2>7, <2>6
    <3> HIDE DEF Sound, Whole, Same
    <3> QED BY <2>1, <2>2, <3>1, <3>2, <3>3, <3>4
  <2>8. CASE e \notin E
    <3>1. g[k + 1] = Append(h, e)
      BY <2>3, <2>8 DEF Kept
    <3>2. /\ Append(h, e) \in Seq(X) /\ Len(h) \in Nat /\ DOMAIN h = 1..Len(h)
          /\ Len(Append(h, e)) = Len(h) + 1 /\ DOMAIN Append(h, e) = 1..(Len(h) + 1)
          /\ Append(h, e)[Len(h) + 1] = e /\ \A n \in 1..Len(h) : Append(h, e)[n] = h[n]
      BY <2>1, <2>2
    <3> DEFINE a == Append(h, e)
    <3> HIDE DEF a
    <3>3. /\ a \in Seq(X) /\ DOMAIN a = 1..(Len(h) + 1) /\ Len(a) = Len(h) + 1
          /\ a[Len(h) + 1] = e /\ \A n \in 1..Len(h) : a[n] = h[n]
          /\ g[k + 1] = a
      BY <3>1, <3>2 DEF a
    <3>4. \A n \in 1..(Len(h) + 1) : n \in 1..Len(h) \/ n = Len(h) + 1
      BY <3>2
    <3>5. Len(h) + 1 \in 1..(Len(h) + 1) /\ \A n \in 1..Len(h) : n \in 1..(Len(h) + 1)
      BY <3>2
    <3>6. Sound(k + 1)
      <4> SUFFICES ASSUME NEW n \in DOMAIN a PROVE \E m \in 1..(k + 1) : a[n] = s[m] /\ s[m] \notin E
        BY <3>3
      <4>1. CASE n = Len(h) + 1
        BY <2>8, <2>6, <3>3, <4>1
      <4>2. CASE n \in 1..Len(h)
        <5>1. PICK m \in 1..k : h[n] = s[m] /\ s[m] \notin E
          BY <2>1, <3>2, <4>2
        <5> QED BY <2>5, <3>3, <4>2, <5>1
      <4> QED BY <3>3, <3>4, <4>1, <4>2
    <3>7. Whole(k + 1)
      <4> SUFFICES ASSUME NEW m \in 1..(k + 1), s[m] \notin E PROVE \E n \in DOMAIN a : a[n] = s[m]
        BY <3>3
      <4>1. CASE m = k + 1
        BY <3>3, <3>5, <4>1
      <4>2. CASE m \in 1..k
        <5>1. PICK n \in DOMAIN h : h[n] = s[m]
          BY <2>1, <4>2
        <5> QED BY <3>2, <3>3, <3>5, <5>1
      <4> QED BY <2>4, <4>1, <4>2
    <3>8. Same(k + 1)
      <4> SUFFICES ASSUME \A m \in 1..(k + 1) : s[m] \notin E
                   PROVE  Len(a) = k + 1 /\ \A n \in 1..(k + 1) : a[n] = s[n]
        BY <3>3
      <4>1. Len(h) = k /\ \A n \in 1..k : h[n] = s[n]
        BY <2>1, <2>5
      <4> QED BY <2>4, <3>3, <4>1
    <3> HIDE DEF Sound, Whole, Same
    <3> QED BY <2>2, <3>3, <3>6, <3>7, <3>8
  <2> QED BY <2>7, <2>8
<1> HIDE DEF Good
<1>5. 0..Len(s) \subseteq Good
  BY <1>2, <1>3, <1>4, Induction
<1>6. Len(s) \in Good
  BY <1>2, <1>5
<1> DEFINE w == g[Len(s)]
<1>7. w \in Seq(X) /\ Sound(Len(s)) /\ Whole(Len(s)) /\ Same(Len(s))
  BY <1>6 DEF Good
<1>8. ASSUME \A m \in DOMAIN s : s[m] \notin E PROVE w = s
  <2>1. Len(w) = Len(s) /\ \A n \in 1..Len(s) : w[n] = s[n]
    BY <1>2, <1>7, <1>8
  <2> HIDE DEF w
  <2> QED BY <1>2, <1>7, <2>1
<1>9. Without(s, E) = w
  BY <1>1
<1>10. /\ w \in Seq(X)
       /\ \A n \in DOMAIN w : \E m \in DOMAIN s : w[n] = s[m] /\ s[m] \notin E
       /\ \A m \in DOMAIN s : s[m] \notin E => \E n \in DOMAIN w : w[n] = s[m]
  BY <1>2, <1>7
<1> HIDE DEF w
<1> QED BY <1>8, <1>9, <1>10

\* A sequence continued.
LEMMA Continued ==
    ASSUME NEW X, NEW s \in Seq(X), NEW t \in Seq(X)
    PROVE  /\ s \o t \in Seq(X) /\ (s = <<>> => s \o t = t) /\ (t = <<>> => s \o t = s)
           /\ \A n \in DOMAIN s : n \in DOMAIN (s \o t) /\ (s \o t)[n] = s[n]
           /\ \A n \in DOMAIN t : \E m \in DOMAIN (s \o t) : (s \o t)[m] = t[n]
           /\ \A n \in DOMAIN (s \o t) : \/ \E m \in DOMAIN s : (s \o t)[n] = s[m]
                                         \/ \E m \in DOMAIN t : (s \o t)[n] = t[m]
<1>1. /\ Len(s) \in Nat /\ DOMAIN s = 1..Len(s) /\ Len(t) \in Nat /\ DOMAIN t = 1..Len(t)
      /\ s \o t \in Seq(X) /\ Len(s \o t) = Len(s) + Len(t)
      /\ DOMAIN (s \o t) = 1..(Len(s) + Len(t))
  OBVIOUS
<1>2. /\ \A n \in 1..Len(s) : (s \o t)[n] = s[n]
      /\ \A n \in 1..Len(t) : (s \o t)[n + Len(s)] = t[n]
  OBVIOUS
<1>3. \A n \in DOMAIN s : n \in DOMAIN (s \o t) /\ (s \o t)[n] = s[n]
  BY <1>1, <1>2
<1>4. ASSUME NEW n \in DOMAIN t PROVE \E m \in DOMAIN (s \o t) : (s \o t)[m] = t[n]
  <2>1. n + Len(s) \in DOMAIN (s \o t) /\ (s \o t)[n + Len(s)] = t[n]
    BY <1>1, <1>2
  <2> QED BY <2>1
<1>5. ASSUME NEW n \in DOMAIN (s \o t)
      PROVE  \/ \E m \in DOMAIN s : (s \o t)[n] = s[m]
             \/ \E m \in DOMAIN t : (s \o t)[n] = t[m]
  <2>1. CASE n <= Len(s)
    BY <1>1, <1>2, <2>1
  <2>2. CASE n > Len(s)
    <3>1. n - Len(s) \in DOMAIN t /\ (n - Len(s)) + Len(s) = n
      BY <1>1, <2>2
    <3> QED BY <1>1, <1>2, <3>1
  <2> QED BY <1>1, <2>1, <2>2
<1>6. (s = <<>> => s \o t = t) /\ (t = <<>> => s \o t = s)
  OBVIOUS
<1> QED BY <1>1, <1>3, <1>4, <1>5, <1>6

AddedTo(j, i) == IF i \in DOMAIN txn[j].added THEN txn[j].added[i] ELSE <<>>
LeftOf(j, i)  == Without(screens[i].elements, txn[j].cleared)

\* What a commit does to the rows.
LEMMA Committed ==
    ASSUME TypeOK, TxnFits, NEW j \in 1..MaxJobs, Commit(j)
    PROVE  /\ j \in Running /\ txn[j].at \in {"ending", "replaced"}
           /\ Made' = Made \cup DOMAIN txn[j].fresh
           /\ \A i \in DOMAIN txn[j].fresh :
                /\ DOMAIN screens'[i] = {"key", "seen", "analysis", "elements"}
                /\ screens'[i].key = txn[j].fresh[i] /\ screens'[i].seen = Made
                /\ screens'[i].analysis = txn[j].analysis[i]
                /\ screens'[i].elements = txn[j].added[i]
           /\ \A i \in Made \ DOMAIN txn[j].fresh :
                /\ DOMAIN screens'[i] = {"key", "seen", "analysis", "elements"}
                /\ screens'[i].key = screens[i].key /\ screens'[i].seen = screens[i].seen
                /\ screens'[i].analysis =
                     IF i \in DOMAIN txn[j].flows THEN txn[j].flows[i]
                     ELSE IF i \in DOMAIN txn[j].analysis THEN txn[j].analysis[i]
                     ELSE screens[i].analysis
                /\ screens'[i].elements = LeftOf(j, i) \o AddedTo(j, i)
                /\ LeftOf(j, i) \in Seq(ElementRows(i)) /\ AddedTo(j, i) \in Seq(ElementRows(i))
           /\ jobs' \in Seq(JobRows) /\ Len(jobs') = Len(jobs) /\ DOMAIN jobs' = DOMAIN jobs
           /\ Running' = Running \ {j} /\ jobs'[j].status = "DONE"
           /\ \A k \in DOMAIN jobs : /\ jobs'[k].screen = jobs[k].screen
                                     /\ k # j => jobs'[k] = jobs[k]
           /\ DOMAIN txn' = 1..MaxJobs /\ txn'[j] = NoTxn
           /\ \A k \in 1..MaxJobs \ {j} : txn'[k] = txn[k]
           /\ UNCHANGED <<prototype, uploads, missed, doubled, loose>>
<1> DEFINE t == txn[j]
           values == Over(t.flows, t.analysis)
           added(i) == IF i \in DOMAIN t.added THEN t.added[i] ELSE <<>>
           analysis(i) == IF i \in DOMAIN values THEN values[i] ELSE screens[i].analysis
           old(i) == [screens[i] EXCEPT
                        !.analysis = analysis(i),
                        !.elements = Without(@, t.cleared) \o added(i)]
           new(i) == [key |-> t.fresh[i], seen |-> Made, analysis |-> t.analysis[i],
                      elements |-> t.added[i]]
<1>1. /\ j \in Running /\ t.at \in {"ending", "replaced"}
      /\ screens' = [i \in Made \cup DOMAIN t.fresh |-> IF i \in DOMAIN t.fresh THEN new(i) ELSE old(i)]
      /\ jobs' = [jobs EXCEPT ![j].status = "DONE"]
      /\ txn' = [txn EXCEPT ![j] = NoTxn]
      /\ UNCHANGED <<prototype, uploads, missed, doubled, loose>>
  BY DEF Commit, Goto
<1>2. WritesFit(j)
  BY <1>1 DEF TxnFits
<1>3. ASSUME NEW i \in Made
      PROVE  /\ DOMAIN screens[i] = {"key", "seen", "analysis", "elements"}
             /\ LeftOf(j, i) \in Seq(ElementRows(i)) /\ AddedTo(j, i) \in Seq(ElementRows(i))
  <2>1. screens[i].elements \in Seq(ElementRows(i)) /\ <<>> \in Seq(ElementRows(i))
    BY DEF TypeOK
  <2>2. i \in DOMAIN t.added => t.added[i] \in Seq(ElementRows(i))
    BY <1>2 DEF WritesFit
  <2>3. LeftOf(j, i) \in Seq(ElementRows(i))
    BY <2>1, WithoutRows DEF LeftOf
  <2> QED BY <2>1, <2>2, <2>3 DEF AddedTo, TypeOK
<1>4. ASSUME NEW i \in Made
      PROVE  /\ DOMAIN old(i) = {"key", "seen", "analysis", "elements"}
             /\ old(i).key = screens[i].key /\ old(i).seen = screens[i].seen
             /\ old(i).analysis = analysis(i)
             /\ old(i).elements = LeftOf(j, i) \o AddedTo(j, i)
  <2> HIDE DEF analysis
  <2> QED BY <1>3 DEF LeftOf, AddedTo
<1>5. \A i : analysis(i) = IF i \in DOMAIN t.flows THEN t.flows[i]
                           ELSE IF i \in DOMAIN t.analysis THEN t.analysis[i]
                           ELSE screens[i].analysis
  BY DEF Over
<1> HIDE DEF analysis, old
<1>6. ASSUME NEW i \in DOMAIN t.fresh
      PROVE  /\ DOMAIN screens'[i] = {"key", "seen", "analysis", "elements"}
             /\ screens'[i].key = t.fresh[i] /\ screens'[i].seen = Made
             /\ screens'[i].analysis = t.analysis[i] /\ screens'[i].elements = t.added[i]
  <2>1. screens'[i] = new(i)
    BY <1>1
  <2> QED BY <2>1
<1> HIDE DEF new
<1>7. Made' = Made \cup DOMAIN t.fresh
  BY <1>1 DEF Made
<1>8. ASSUME NEW i \in Made \ DOMAIN t.fresh PROVE screens'[i] = old(i)
  BY <1>1
<1>9. /\ jobs \in Seq(JobRows) /\ Len(jobs) \in Nat /\ DOMAIN jobs = 1..Len(jobs)
      /\ jobs \in [1..Len(jobs) -> JobRows]
  <2>1. jobs \in Seq(JobRows)
    BY DEF TypeOK, JobRows
  <2> QED BY <2>1
<1>10. j \in DOMAIN jobs /\ jobs[j] \in JobRows
  BY <1>1, <1>9 DEF Running
<1> DEFINE row == [jobs[j] EXCEPT !.status = "DONE"]
<1>11. row \in JobRows /\ row.screen = jobs[j].screen /\ row.status = "DONE"
  BY <1>10 DEF JobRows
<1>12. jobs' = [jobs EXCEPT ![j] = row]
  BY <1>1, <1>10
<1> HIDE DEF row
<1>13. jobs' \in [1..Len(jobs) -> JobRows]
  BY <1>9, <1>11, <1>12
<1>14. /\ jobs' \in Seq(JobRows) /\ Len(jobs') = Len(jobs) /\ DOMAIN jobs' = DOMAIN jobs
       /\ jobs'[j] = row /\ \A k \in DOMAIN jobs : k # j => jobs'[k] = jobs[k]
  BY <1>9, <1>10, <1>12, <1>13
<1>15. Running' = Running \ {j}
  BY <1>11, <1>14 DEF Running
<1>16. /\ DOMAIN txn' = 1..MaxJobs /\ txn'[j] = NoTxn
       /\ \A k \in 1..MaxJobs \ {j} : txn'[k] = txn[k]
  BY <1>1 DEF TypeOK
<1> QED BY <1>1, <1>3, <1>4, <1>5, <1>6, <1>7, <1>8, <1>11, <1>14, <1>15, <1>16

\* What is left of the elements of a row, and what is added.
LEMMA CommittedElements ==
    ASSUME TypeOK, TxnFits, IdsApart, NEW j \in 1..MaxJobs, Commit(j), NEW i \in Made
    PROVE  /\ Elements(i)' = (Elements(i) \ txn[j].cleared)
                               \cup {AddedTo(j, i)[n] : n \in DOMAIN AddedTo(j, i)}
           /\ i \notin DOMAIN txn[j].added => screens'[i].elements = screens[i].elements
<1>1. j \in Running /\ i \notin DOMAIN txn[j].fresh
  BY Committed DEF IdsApart
<1> DEFINE s == screens[i].elements
           l == LeftOf(j, i)
           a == AddedTo(j, i)
<1>2. /\ screens'[i].elements = l \o a /\ l \in Seq(ElementRows(i)) /\ a \in Seq(ElementRows(i))
  BY <1>1, Committed
<1>3. s \in Seq(ElementRows(i))
  BY DEF TypeOK
<1>4. /\ \A n \in DOMAIN l : \E m \in DOMAIN s : l[n] = s[m] /\ s[m] \notin txn[j].cleared
      /\ \A m \in DOMAIN s : s[m] \notin txn[j].cleared => \E n \in DOMAIN l : l[n] = s[m]
      /\ (\A m \in DOMAIN s : s[m] \notin txn[j].cleared) => l = s
  <2> DEFINE E == txn[j].cleared
             w == Without(s, E)
  <2>1. l = w
    BY DEF LeftOf
  <2> HIDE DEF s, l, E
  <2>2. /\ \A n \in DOMAIN w : \E m \in DOMAIN s : w[n] = s[m] /\ s[m] \notin E
        /\ \A m \in DOMAIN s : s[m] \notin E => \E n \in DOMAIN w : w[n] = s[m]
        /\ (\A m \in DOMAIN s : s[m] \notin E) => w = s
    BY <1>3, WithoutRows
  <2> HIDE DEF w
  <2> QED BY <2>1, <2>2 DEF E
<1>5. /\ \A n \in DOMAIN l : n \in DOMAIN (l \o a) /\ (l \o a)[n] = l[n]
      /\ \A n \in DOMAIN a : \E m \in DOMAIN (l \o a) : (l \o a)[m] = a[n]
      /\ \A n \in DOMAIN (l \o a) : \/ \E m \in DOMAIN l : (l \o a)[n] = l[m]
                                    \/ \E m \in DOMAIN a : (l \o a)[n] = a[m]
      /\ (a = <<>> => l \o a = l)
  <2>1. l \in Seq(ElementRows(i)) /\ a \in Seq(ElementRows(i))
    BY <1>2
  <2> DEFINE R == ElementRows(i)
  <2> HIDE DEF l, a, R
  <2>2. l \in Seq(R) /\ a \in Seq(R)
    BY <2>1 DEF R
  <2>3. \A n \in DOMAIN l : n \in DOMAIN (l \o a) /\ (l \o a)[n] = l[n]
    BY <2>2, Continued
  <2>4. \A n \in DOMAIN a : \E m \in DOMAIN (l \o a) : (l \o a)[m] = a[n]
    BY <2>2, Continued
  <2>5. \A n \in DOMAIN (l \o a) : \/ \E m \in DOMAIN l : (l \o a)[n] = l[m]
                                   \/ \E m \in DOMAIN a : (l \o a)[n] = a[m]
    BY <2>2, Continued
  <2>6. a = <<>> => l \o a = l
    BY <2>2, Continued
  <2> QED BY <2>3, <2>4, <2>5, <2>6
<1>6. Elements(i) = {s[m] : m \in DOMAIN s}
  BY DEF Elements
<1>7. ASSUME i \notin DOMAIN txn[j].added PROVE l \o a = s
  <2>1. a = <<>>
    BY <1>7 DEF AddedTo
  <2>2. IF jobs[j].screen = None THEN ImportFits(j) ELSE ReadingFits(j)
    BY <1>1 DEF TxnFits
  <2>3. \A e \in txn[j].cleared : e.screen # i
    BY <1>7, <2>2 DEF ImportFits, ReadingFits
  <2>4. \A m \in DOMAIN s : s[m].screen = i
    <3>1. \A m \in DOMAIN s : s[m] \in ElementRows(i)
      BY <1>3
    <3> QED BY <3>1 DEF ElementRows
  <2>5. \A m \in DOMAIN s : s[m] \notin txn[j].cleared
    BY <2>3, <2>4
  <2> HIDE DEF l, a, s
  <2> QED BY <1>4, <1>5, <2>1, <2>5
<1> DEFINE w == screens'[i].elements
<1>8. Elements(i)' = {w[n] : n \in DOMAIN w}
  BY DEF Elements
<1>9. w = l \o a
  BY <1>2
<1> HIDE DEF l, a, s, w
<1>10. \A e \in Elements(i)' : e \in Elements(i) \ txn[j].cleared \/ e \in {a[n] : n \in DOMAIN a}
  <2> SUFFICES ASSUME NEW n \in DOMAIN w
               PROVE  w[n] \in Elements(i) \ txn[j].cleared \/ w[n] \in {a[m] : m \in DOMAIN a}
    BY <1>8
  <2>1. CASE \E m \in DOMAIN l : w[n] = l[m]
    BY <1>4, <1>6, <2>1
  <2>2. CASE \E m \in DOMAIN a : w[n] = a[m]
    BY <2>2
  <2> QED BY <1>5, <1>9, <2>1, <2>2
<1>11. \A e \in Elements(i) \ txn[j].cleared : e \in Elements(i)'
  <2> SUFFICES ASSUME NEW m \in DOMAIN s, s[m] \notin txn[j].cleared PROVE s[m] \in Elements(i)'
    BY <1>6
  <2>1. PICK n \in DOMAIN l : l[n] = s[m]
    BY <1>4
  <2> QED BY <1>5, <1>8, <1>9, <2>1
<1>12. \A n \in DOMAIN a : a[n] \in Elements(i)'
  BY <1>5, <1>8, <1>9
<1>13. Elements(i)' = (Elements(i) \ txn[j].cleared) \cup {a[n] : n \in DOMAIN a}
  BY <1>10, <1>11, <1>12
<1> QED BY <1>7, <1>9, <1>13 DEF a, s, w

\* With the commit all that the job has written is there at once.
LEMMA CommitRows ==
    ASSUME RowsSafe, ReplacedOnce, NEW j \in 1..MaxJobs, Commit(j) PROVE RowsSafe'
<1>1. TypeOK /\ TxnFits /\ AttemptLeft /\ IdsApart /\ ReadOnce /\ KeysTold /\ ElementsDoubleOnlyByOverlap
  BY DEF RowsSafe
<1> DEFINE fresh == DOMAIN txn[j].fresh
<1>2. /\ j \in Running /\ txn[j].at \in {"ending", "replaced"}
      /\ Made' = Made \cup fresh
      /\ \A i \in fresh :
           /\ DOMAIN screens'[i] = {"key", "seen", "analysis", "elements"}
           /\ screens'[i].key = txn[j].fresh[i] /\ screens'[i].seen = Made
           /\ screens'[i].analysis = txn[j].analysis[i]
           /\ screens'[i].elements = txn[j].added[i]
      /\ \A i \in Made \ fresh :
           /\ DOMAIN screens'[i] = {"key", "seen", "analysis", "elements"}
           /\ screens'[i].key = screens[i].key /\ screens'[i].seen = screens[i].seen
           /\ screens'[i].analysis = IF i \in DOMAIN txn[j].flows THEN txn[j].flows[i]
                                     ELSE IF i \in DOMAIN txn[j].analysis THEN txn[j].analysis[i]
                                     ELSE screens[i].analysis
           /\ screens'[i].elements = LeftOf(j, i) \o AddedTo(j, i)
           /\ LeftOf(j, i) \in Seq(ElementRows(i)) /\ AddedTo(j, i) \in Seq(ElementRows(i))
  BY <1>1, Committed
<1>3. /\ jobs' \in Seq(JobRows) /\ Len(jobs') = Len(jobs) /\ DOMAIN jobs' = DOMAIN jobs
      /\ Running' = Running \ {j} /\ jobs'[j].status = "DONE"
      /\ \A k \in DOMAIN jobs : /\ jobs'[k].screen = jobs[k].screen
                                /\ k # j => jobs'[k] = jobs[k]
      /\ DOMAIN txn' = 1..MaxJobs /\ txn'[j] = NoTxn
      /\ \A k \in 1..MaxJobs \ {j} : txn'[k] = txn[k]
      /\ UNCHANGED <<prototype, uploads, missed, doubled, loose>>
  BY <1>1, Committed
<1>4. /\ WritesFit(j) /\ j \in 1..MaxJobs
      /\ IF jobs[j].screen = None THEN ImportFits(j) ELSE ReadingFits(j)
  BY <1>1, <1>2 DEF TxnFits
<1>5. fresh \cap Made = {} /\ fresh \subseteq Ids
  BY <1>1 DEF IdsApart
<1>6. \A i \in fresh : /\ txn[j].fresh[i] \in Nodes /\ txn[j].added[i] \in Seq(ElementRows(i))
                       /\ IsAnalysis(txn[j].analysis[i])
  <2>1. \A i \in fresh : /\ i \in DOMAIN txn[j].added /\ i \in DOMAIN txn[j].analysis
                         /\ txn[j].fresh[i] \in Nodes
    BY <1>4 DEF ImportFits, ReadingFits
  <2> QED BY <1>4, <2>1 DEF WritesFit
<1> HIDE DEF fresh
<1>7. /\ \A i \in Made : /\ i \notin fresh
                         /\ screens'[i].key = screens[i].key /\ screens'[i].seen = screens[i].seen
      /\ Screenshots' = Screenshots /\ Screenshots \subseteq Made
  <2>1. \A i \in Made : /\ i \notin fresh
                        /\ screens'[i].key = screens[i].key /\ screens'[i].seen = screens[i].seen
    BY <1>2, <1>5
  <2>2. \A i \in fresh : screens'[i].key \notin Nat
    BY <1>2, <1>6, StimulusAssumption
  <2> QED BY <1>2, <2>1, <2>2 DEF Screenshots
<1>8. Running \subseteq 1..MaxJobs /\ Running \subseteq DOMAIN jobs /\ DOMAIN jobs \subseteq 1..MaxJobs
  BY <1>1, RunningJobs
\* A screen whose elements change has those of the job, unless it is doubled.
<1>9. ASSUME NEW i \in Made
      PROVE  \/ screens'[i].elements = screens[i].elements /\ i \notin DOMAIN txn[j].added
             \/ /\ i \in DOMAIN txn[j].added /\ (jobs[j].screen = i \/ i \notin Screenshots)
                /\ i \notin doubled => \A e \in Elements(i)' : e.by = j
  <2>1. CASE i \notin DOMAIN txn[j].added
    BY <1>1, <2>1, CommittedElements
  <2>2. CASE i \in DOMAIN txn[j].added
    <3>1. Elements(i)' = (Elements(i) \ txn[j].cleared)
                           \cup {txn[j].added[i][n] : n \in DOMAIN txn[j].added[i]}
      BY <1>1, <2>2, CommittedElements DEF AddedTo
    <3>2. \A n \in DOMAIN txn[j].added[i] : txn[j].added[i][n].by = j
      BY <1>4, <2>2 DEF WritesFit
    <3>3. ASSUME i \notin doubled PROVE Elements(i) \subseteq txn[j].cleared
      <4>1. CASE jobs[j].screen = None
        BY <1>2, <2>2, <3>3, <4>1 DEF ReplacedOnce, Replaces
      <4>2. CASE jobs[j].screen # None
        <5>1. jobs[j].screen = i /\ txn[j].own.elements = <<>> /\ i \in Screenshots
          BY <1>1, <1>2, <1>4, <1>8, <2>2, <4>2 DEF ReadingFits, TypeOK
        <5>2. screens[i].elements = <<>>
          BY <1>1, <1>2, <3>3, <5>1 DEF ReadOnce
        <5> QED BY <5>2 DEF Elements
      <4> QED BY <4>1, <4>2
    <3>4. jobs[j].screen = i \/ i \notin Screenshots
      BY <1>4, <2>2 DEF ImportFits, ReadingFits
    <3> QED BY <2>2, <3>1, <3>2, <3>3, <3>4
  <2> QED BY <2>1, <2>2
<1>10. TypeOK'
  <2>1. ASSUME NEW i \in Made'
        PROVE  /\ DOMAIN screens'[i] = {"key", "seen", "analysis", "elements"}
               /\ screens'[i].key \in Nat \cup Nodes /\ screens'[i].seen \subseteq Made'
               /\ IsAnalysis(screens'[i].analysis) /\ screens'[i].elements \in Seq(ElementRows(i))
    <3>1. CASE i \in fresh
      BY <1>2, <1>6, <3>1
    <3>2. CASE i \in Made
      <4>1. i \in Made \ fresh
        BY <1>7, <3>2
      <4>2. screens'[i].elements \in Seq(ElementRows(i))
        <5>1. /\ screens'[i].elements = LeftOf(j, i) \o AddedTo(j, i)
              /\ LeftOf(j, i) \in Seq(ElementRows(i)) /\ AddedTo(j, i) \in Seq(ElementRows(i))
          BY <1>2, <4>1
        <5>2. LeftOf(j, i) \o AddedTo(j, i) \in Seq(ElementRows(i))
          BY <5>1, Continued
        <5> QED BY <5>1, <5>2
      <4>3. IsAnalysis(screens'[i].analysis)
        BY <1>1, <1>2, <1>4, <4>1 DEF TypeOK, WritesFit
      <4> QED BY <1>1, <1>2, <4>1, <4>2, <4>3 DEF TypeOK
    <3> QED BY <1>2, <3>1, <3>2
  <2>2. uploads' \in [Clients -> Seq([id : Ids, key : Nat, seen : SUBSET Made'])]
    <3> DEFINE R == [id : Ids, key : Nat, seen : SUBSET Made]
               Q == [id : Ids, key : Nat, seen : SUBSET Made']
    <3>1. uploads \in [Clients -> Seq(R)]
      BY <1>1 DEF TypeOK
    <3>2. R \subseteq Q
      BY <1>2
    <3> HIDE DEF R, Q
    <3>3. Seq(R) \subseteq Seq(Q)
      BY <3>2
    <3>4. uploads' \in [Clients -> Seq(Q)]
      BY <1>3, <3>1, <3>3
    <3> QED BY <3>4 DEF Q
  <2>3. \A k \in DOMAIN jobs' : jobs'[k].screen = None \/ jobs'[k].screen \in Screenshots'
    BY <1>1, <1>3, <1>7 DEF TypeOK
  <2>4. /\ \A t \in edges' : t.from \in Made' /\ t.to \in Made' /\ t.by \in DOMAIN jobs'
        /\ covered' \subseteq Made' /\ overtaken' \in BOOLEAN
    <3>1. \A t \in edges : t.from \in Made' /\ t.to \in Made' /\ t.by \in DOMAIN jobs'
      BY <1>1, <1>2, <1>3 DEF TypeOK
    <3>2. CASE txn[j].at = "ending"
      <4>1. UNCHANGED <<edges, covered, overtaken>>
        BY <3>2 DEF Commit
      <4> QED BY <1>1, <1>2, <3>1, <4>1 DEF TypeOK
    <3>3. CASE txn[j].at # "ending"
      <4>1. /\ edges' = (edges \ txn[j].snap)
                          \cup {[from |-> e.from, trigger |-> e.trigger, to |-> e.to, by |-> j] :
                                  e \in txn[j].graph}
            /\ covered' = txn[j].covers
            /\ overtaken' = (overtaken \/ ~ covered \subseteq txn[j].covers)
        BY <3>3 DEF Commit
      <4>2. Visible(j) = Made'
        BY <1>2 DEF Visible, fresh
      <4>3. \A e \in txn[j].graph : e.from \in Made' /\ e.to \in Made'
        BY <1>4, <4>2 DEF WritesFit
      <4>4. txn[j].covers \subseteq Made'
        BY <1>4, <4>2 DEF WritesFit
      <4>5. j \in DOMAIN jobs'
        BY <1>2, <1>3, <1>8
      <4>6. overtaken' \in BOOLEAN
        BY <1>1, <4>1 DEF TypeOK
      <4> QED BY <3>1, <4>1, <4>3, <4>4, <4>5, <4>6
    <3> QED BY <3>2, <3>3
  <2>5. \A k \in 1..MaxJobs : /\ DOMAIN txn'[k] = DOMAIN NoTxn
                              /\ IF k \in Running' THEN txn'[k].at \in Stage \ {"idle"}
                                                   ELSE txn'[k] = NoTxn
    BY <1>1, <1>3 DEF TypeOK
  <2>6. Made' \subseteq Ids /\ doubled' \subseteq Made' /\ Len(jobs') <= MaxJobs
    BY <1>1, <1>2, <1>3, <1>5 DEF TypeOK
  <2> QED BY <1>1, <1>3, <2>1, <2>2, <2>3, <2>4, <2>5, <2>6 DEF TypeOK, JobRows
<1>11. IdsApart'
  <2>1. \A c \in Clients : Uploading(c)' = Uploading(c) /\ Uploading(c) \cap fresh = {}
    BY <1>1, <1>3, <1>4 DEF Uploading, IdsApart, fresh
  <2>2. DOMAIN txn'[j].fresh = {}
    BY <1>3 DEF NoTxn
  <2>3. \A k \in 1..MaxJobs \ {j} : txn'[k] = txn[k] /\ DOMAIN txn[k].fresh \cap fresh = {}
    BY <1>1, <1>3, <1>4 DEF IdsApart, fresh
  <2> QED BY <1>1, <1>2, <1>3, <2>1, <2>2, <2>3 DEF IdsApart
<1>12. KeysTold'
  <2>1. \A c \in Clients : \A n \in DOMAIN uploads[c] : uploads[c][n].seen \in SUBSET Made
    BY <1>1, UploadRows
  <2>2. \A k \in Screenshots : screens[k].seen \subseteq Made
    BY <1>1, <1>7 DEF TypeOK
  <2> QED BY <1>1, <1>3, <1>7, <2>1, <2>2 DEF KeysTold
<1>13. ElementsDoubleOnlyByOverlap'
  <2>1. ASSUME NEW i \in Made' \ doubled,
               NEW n \in DOMAIN screens'[i].elements, NEW m \in DOMAIN screens'[i].elements
        PROVE  screens'[i].elements[n].by = screens'[i].elements[m].by
    <3>1. CASE i \in fresh
      <4>1. i \in DOMAIN txn[j].added
        BY <1>4, <3>1 DEF ImportFits, ReadingFits, fresh
      <4> QED BY <1>2, <1>4, <2>1, <3>1, <4>1 DEF WritesFit
    <3>2. CASE i \in Made /\ screens'[i].elements = screens[i].elements
      BY <1>1, <2>1, <3>2 DEF ElementsDoubleOnlyByOverlap
    <3>3. CASE i \in Made /\ \A e \in Elements(i)' : e.by = j
      BY <2>1, <3>3 DEF Elements
    <3> QED BY <1>2, <1>9, <2>1, <3>1, <3>2, <3>3
  <2> QED BY <1>3, <2>1 DEF ElementsDoubleOnlyByOverlap
<1>14. TxnFits'
  <2> SUFFICES ASSUME NEW k \in Running, k # j
               PROVE  WritesFit(k)' /\ IF jobs[k].screen = None THEN ImportFits(k)' ELSE ReadingFits(k)'
    BY <1>3, <1>8 DEF TxnFits
  <2>1. txn'[k] = txn[k]
    BY <1>3, <1>8
  <2>2. WritesFit(k)'
    BY <1>1, <1>2, <2>1 DEF TxnFits, WritesFit, Visible
  <2>3. CASE jobs[k].screen = None
    <3>1. k \in 1..MaxJobs /\ WritesFit(k) /\ ImportFits(k)
      BY <1>1, <1>8, <2>3 DEF TxnFits
    <3>2. DOMAIN txn[k].fresh \cap Made' = {}
      BY <1>1, <1>2, <3>1 DEF IdsApart, fresh
    <3>3. ImportFits(k)'
      BY <1>2, <1>7, <2>1, <3>1, <3>2, ImportStays
    <3> QED BY <2>2, <2>3, <3>3
  <2>4. CASE jobs[k].screen # None
    BY <1>1, <1>3, <1>8, <2>1, <2>2, <2>4 DEF TxnFits, ReadingFits
  <2> QED BY <2>3, <2>4
<1>15. ReadOnce'
  <2> SUFFICES ASSUME NEW k \in Running, k # j, jobs[k].screen \in Screenshots \ doubled,
                      txn[k].own.elements = <<>>
               PROVE  /\ screens'[jobs[k].screen].elements = <<>>
                      /\ \A l \in Running \ {j, k} : jobs[l].screen # jobs[k].screen
    <3>1. doubled' = doubled /\ Running' = Running \ {j} /\ Screenshots' = Screenshots
      BY <1>3, <1>7
    <3>2. \A k \in Running \ {j} : txn'[k] = txn[k] /\ jobs'[k].screen = jobs[k].screen
      BY <1>3, <1>8
    <3>3. \A k \in Running' : Others(k)' = Running \ {j, k}
      BY <3>1 DEF Others
    <3> QED BY <3>1, <3>2, <3>3 DEF ReadOnce
  <2>1. /\ screens[jobs[k].screen].elements = <<>>
        /\ \A l \in Running \ {k} : jobs[l].screen # jobs[k].screen
    BY <1>1 DEF ReadOnce, Others
  <2>2. jobs[j].screen # jobs[k].screen /\ jobs[k].screen \in Made
    BY <1>2, <1>7, <2>1
  <2> QED BY <1>9, <2>1, <2>2
<1>16. AttemptLeft'
  BY <1>1, <1>3, <1>8 DEF AttemptLeft
<1> QED BY <1>10, <1>11, <1>12, <1>13, <1>14, <1>15, <1>16 DEF RowsSafe

\* What an import replaces are screens that are committed or its own.
LEMMA ReplacedRows ==
    ASSUME RowsSafe, NEW k \in Running, jobs[k].screen = None, NEW i, Replaces(k, i)
    PROVE  i \notin Screenshots /\ (i \in Made \/ i \in DOMAIN txn[k].fresh \/ i = None)
<1>1. TypeOK /\ TxnFits /\ WritesFit(k) /\ ImportFits(k) /\ k \in 1..MaxJobs
  BY RunningJobs DEF RowsSafe, TxnFits
<1>2. CASE i \in DOMAIN txn[k].added
  BY <1>1, <1>2 DEF WritesFit, ImportFits, Visible
<1>3. CASE i = txn[k].now /\ txn[k].at = "clearing"
  <2>1. i \in Made /\ screens[i].key \in Nodes
    BY <1>1, <1>3, Importing DEF FileFits, Unsaved
  <2> QED BY <2>1, StimulusAssumption DEF Screenshots
<1>4. CASE i = txn[k].now /\ txn[k].at # "clearing"
  <2>1. i = None
    BY <1>1, <1>4 DEF ImportFits, FileFits
  <2> QED BY <1>1, <2>1, NoneIsNoScreen
<1> QED BY <1>2, <1>3, <1>4 DEF Replaces

\* What a reading adds is to its own screenshot.
LEMMA ReadersReplace ==
    ASSUME RowsSafe', NEW k \in Running', jobs'[k].screen # None, NEW i \in Made', Replaces(k, i)'
    PROVE  i \in Screenshots'
<1>1. TypeOK' /\ TxnFits'
  BY DEF RowsSafe
<1>2. ReadingFits(k)' /\ k \in DOMAIN jobs'
  BY <1>1 DEF TxnFits, Running
<1>3. jobs'[k].screen \in Screenshots'
  BY <1>1, <1>2 DEF TypeOK
<1>4. i # None
  BY <1>1, StimulusAssumption DEF TypeOK, Ids
<1>5. i \in DOMAIN txn'[k].added
  BY <1>2, <1>4 DEF Replaces, ReadingFits
<1> QED BY <1>2, <1>3, <1>5 DEF ReadingFits

\* A step that replaces no elements.
LEMMA OnceStays ==
    ASSUME RowsSafe, RowsSafe', ReplacedOnce, doubled \subseteq doubled', Made \subseteq Made',
           \A i \in Made : screens'[i] = screens[i],
           \A k \in Running' :
             \/ jobs'[k].screen # None
             \/ DOMAIN txn'[k].added = {} /\ txn'[k].now = None
             \/ /\ k \in Running /\ jobs[k].screen = None
                /\ \/ txn'[k] = txn[k]
                   \/ /\ (DOMAIN txn'[k].added) \cap Made' \subseteq (DOMAIN txn[k].added) \cap Made
                      /\ txn'[k].now = None /\ txn'[k].cleared = txn[k].cleared
    PROVE  ReplacedOnce'
<1>1. TypeOK' /\ IdsApart'
  BY DEF RowsSafe
<1>2. None \notin Made'
  <2>1. Made' \subseteq Ids /\ Ids \subseteq Nat
    BY <1>1 DEF TypeOK, Ids
  <2> QED BY <2>1, StimulusAssumption
<1>3. ASSUME NEW k \in Running', NEW i \in Made', jobs'[k].screen = None, Replaces(k, i)'
      PROVE  /\ k \in Running /\ jobs[k].screen = None /\ Replaces(k, i)
             /\ i \in Made /\ i \notin Screenshots
             /\ i = txn'[k].now => txn'[k] = txn[k]
             /\ i \in DOMAIN txn'[k].added => i \in DOMAIN txn[k].added /\ txn'[k].cleared = txn[k].cleared
  <2>1. /\ k \in Running /\ jobs[k].screen = None /\ Replaces(k, i)
        /\ i = txn'[k].now => txn'[k] = txn[k]
        /\ i \in DOMAIN txn'[k].added => i \in DOMAIN txn[k].added /\ txn'[k].cleared = txn[k].cleared
        /\ txn'[k] = txn[k] \/ i \in Made
    BY <1>2, <1>3 DEF Replaces
  <2>2. i \notin Screenshots /\ (i \in Made \/ i \in DOMAIN txn[k].fresh)
    BY <1>2, <1>3, <2>1, ReplacedRows
  <2>3. i \in Made
    <3>1. k \in 1..MaxJobs
      BY <2>1, RunningJobs DEF RowsSafe
    <3>2. DOMAIN txn'[k].fresh \cap Made' = {}
      BY <1>1, <3>1 DEF IdsApart
    <3>3. CASE txn'[k] = txn[k]
      BY <1>3, <2>2, <3>2, <3>3
    <3> QED BY <2>1, <3>3
  <2> QED BY <2>1, <2>2, <2>3
<1> SUFFICES ASSUME NEW j \in Running', NEW i \in Made' \ doubled', jobs'[j].screen = None, Replaces(j, i)'
             PROVE  /\ \A k \in Others(j)' : ~ Replaces(k, i)'
                    /\ i = txn'[j].now => txn'[j].seen = Elements(i)'
                    /\ i \in DOMAIN txn'[j].added => Elements(i)' \subseteq txn'[j].cleared
  BY DEF ReplacedOnce
<1>4. /\ j \in Running /\ jobs[j].screen = None /\ Replaces(j, i)
      /\ i \in Made \ doubled /\ i \notin Screenshots
      /\ i = txn'[j].now => txn'[j] = txn[j]
      /\ i \in DOMAIN txn'[j].added => i \in DOMAIN txn[j].added /\ txn'[j].cleared = txn[j].cleared
  BY <1>3
<1>5. /\ \A k \in Others(j) : ~ Replaces(k, i)
      /\ i = txn[j].now => txn[j].seen = Elements(i)
      /\ i \in DOMAIN txn[j].added => Elements(i) \subseteq txn[j].cleared
  BY <1>4 DEF ReplacedOnce
<1>6. Elements(i)' = Elements(i) /\ i \notin Screenshots'
  BY <1>4 DEF Elements, Screenshots
<1>7. ASSUME NEW k \in Others(j)', Replaces(k, i)' PROVE FALSE
  <2>1. CASE jobs'[k].screen = None
    BY <1>3, <1>5, <1>7, <2>1 DEF Others
  <2>2. CASE jobs'[k].screen # None
    BY <1>6, <1>7, <2>2, ReadersReplace DEF Others
  <2> QED BY <2>1, <2>2
<1> QED BY <1>4, <1>5, <1>6, <1>7

\* A transaction that goes on and replaces no elements.
LEMMA TxnOnce ==
    ASSUME RowsSafe, RowsSafe', ReplacedOnce, NEW j \in 1..MaxJobs, j \in Running,
           txn' = [txn EXCEPT ![j] = txn'[j]], screens' = screens, jobs' = jobs, doubled \subseteq doubled',
           \/ jobs[j].screen # None
           \/ /\ (DOMAIN txn'[j].added) \cap Made \subseteq DOMAIN txn[j].added
              /\ txn'[j].now = None /\ txn'[j].cleared = txn[j].cleared
    PROVE  ReplacedOnce'
<1>1. DOMAIN txn = 1..MaxJobs /\ Running \subseteq 1..MaxJobs
  BY RunningJobs DEF RowsSafe, TypeOK
<1>2. \A k \in 1..MaxJobs \ {j} : txn'[k] = txn[k]
  BY <1>1
<1>3. Made' = Made /\ Running' = Running
  BY DEF Made, Running
<1> QED BY <1>1, <1>2, <1>3, OnceStays

\* The DELETE of an import sees all elements of a screen that is its own.
LEMMA ClearElementsOnce ==
    ASSUME RowsSafe, RowsSafe', ReplacedOnce, NEW j \in 1..MaxJobs, ClearElements(j)
    PROVE  ReplacedOnce'
<1> DEFINE r == txn'[j].now
<1>1. /\ j \in Running /\ jobs[j].screen = None
      /\ UNCHANGED <<rows, jobs, uploads, covered, missed, loose, overtaken>>
      /\ txn' = [txn EXCEPT ![j] = txn'[j]] /\ r \in Made
      /\ txn'[j].seen = Elements(r)
      /\ txn'[j].added = txn[j].added /\ txn'[j].cleared = txn[j].cleared
      /\ doubled' = IF \E k \in Others(j) : Replaces(k, r) THEN doubled \cup {r} ELSE doubled
  <2>1. /\ j \in Running /\ jobs[j].screen = None
        /\ UNCHANGED <<rows, jobs, uploads, covered, missed, loose, overtaken>>
        /\ txn' = [txn EXCEPT ![j] = txn'[j]] /\ r \in Made
        /\ txn'[j].seen = Elements(r)
        /\ \A f \in DOMAIN NoTxn \ {"at", "now", "seen"} : txn'[j][f] = txn[j][f]
        /\ doubled' = IF \E k \in Others(j) : Replaces(k, r) THEN doubled \cup {r} ELSE doubled
    BY ElementsCleared DEF RowsSafe
  <2>2. {"added", "cleared"} \subseteq DOMAIN NoTxn \ {"at", "now", "seen"}
    BY DEF NoTxn
  <2> QED BY <2>1, <2>2
<1>2. DOMAIN txn = 1..MaxJobs /\ Running \subseteq 1..MaxJobs
  BY RunningJobs DEF RowsSafe, TypeOK
<1>3. \A k \in 1..MaxJobs \ {j} : txn'[k] = txn[k]
  BY <1>1, <1>2
<1>4. /\ Made' = Made /\ Running' = Running /\ jobs' = jobs /\ \A i : Elements(i)' = Elements(i)
      /\ \A k : Others(k)' = Others(k)
  BY <1>1 DEF rows, Made, Running, Elements, Others
<1>5. \A k \in Running \ {j} : \A i : Replaces(k, i)' <=> Replaces(k, i)
  BY <1>2, <1>3 DEF Replaces
<1> HIDE DEF r
<1>6. \A i : Replaces(j, i)' <=> i \in DOMAIN txn[j].added \/ i = r
  BY <1>1 DEF Replaces, r
<1> SUFFICES ASSUME NEW m \in Running, NEW i \in Made \ doubled', jobs[m].screen = None, Replaces(m, i)'
             PROVE  /\ \A k \in Others(m) : ~ Replaces(k, i)'
                    /\ i = txn'[m].now => txn'[m].seen = Elements(i)
                    /\ i \in DOMAIN txn'[m].added => Elements(i) \subseteq txn'[m].cleared
  BY <1>4 DEF ReplacedOnce
<1>7. i \in Made \ doubled
  BY <1>1
<1>8. i = r => \A k \in Others(j) : ~ Replaces(k, i)
  BY <1>1
<1>9. CASE m # j
  <2>1. /\ \A k \in Others(m) : ~ Replaces(k, i)
        /\ i = txn[m].now => txn[m].seen = Elements(i)
        /\ i \in DOMAIN txn[m].added => Elements(i) \subseteq txn[m].cleared
        /\ Replaces(m, i)
    BY <1>5, <1>7, <1>9 DEF ReplacedOnce
  <2>2. i # r
    BY <1>8, <1>9, <2>1 DEF Others
  <2>3. j \in Others(m)
    BY <1>1, <1>9 DEF Others
  <2>4. ~ Replaces(j, i)'
    BY <1>6, <2>1, <2>2, <2>3 DEF Replaces
  <2> QED BY <1>2, <1>3, <1>5, <1>9, <2>1, <2>4 DEF Others
<1>10. CASE m = j
  <2>1. \A k \in Others(j) : ~ Replaces(k, i)
    BY <1>6, <1>7, <1>8, <1>10 DEF ReplacedOnce, Replaces
  <2>2. i \in DOMAIN txn[j].added => Elements(i) \subseteq txn[j].cleared
    BY <1>7, <1>10 DEF ReplacedOnce, Replaces
  <2> QED BY <1>1, <1>5, <1>10, <2>1, <2>2 DEF Others, r
<1> QED BY <1>9, <1>10

\* What it saw is still there, and it deletes all of that.
LEMMA ReplaceElementsOnce ==
    ASSUME RowsSafe, RowsSafe', ReplacedOnce, NEW j \in 1..MaxJobs, ReplaceElements(j)
    PROVE  ReplacedOnce'
<1> DEFINE r == txn[j].now
<1>1. /\ j \in Running /\ jobs[j].screen = None /\ r \in Made
      /\ UNCHANGED <<rows, jobs, uploads, history>>
      /\ txn' = [txn EXCEPT ![j] = txn'[j]] /\ txn'[j].now = None
      /\ DOMAIN txn'[j].added = DOMAIN txn[j].added \cup {r}
      /\ txn'[j].cleared = txn[j].cleared \cup (txn[j].seen \cap Elements(r))
  BY ElementsReplaced DEF RowsSafe
<1>2. DOMAIN txn = 1..MaxJobs /\ Running \subseteq 1..MaxJobs /\ None \notin Made
  BY RunningJobs, NoneIsNoScreen DEF RowsSafe, TypeOK
<1>3. \A k \in 1..MaxJobs \ {j} : txn'[k] = txn[k]
  BY <1>1, <1>2
<1>4. /\ Made' = Made /\ Running' = Running /\ jobs' = jobs /\ \A i : Elements(i)' = Elements(i)
      /\ \A k : Others(k)' = Others(k) /\ doubled' = doubled
  BY <1>1 DEF rows, history, Made, Running, Elements, Others
<1>5. \A k \in Running : \A i \in Made : Replaces(k, i)' <=> Replaces(k, i)
  <2>1. \A i \in Made : Replaces(j, i)' <=> Replaces(j, i)
    BY <1>1, <1>2 DEF Replaces
  <2>2. \A k \in Running \ {j} : \A i : Replaces(k, i)' <=> Replaces(k, i)
    BY <1>2, <1>3 DEF Replaces
  <2> QED BY <2>1, <2>2
<1> SUFFICES ASSUME NEW m \in Running, NEW i \in Made \ doubled, jobs[m].screen = None, Replaces(m, i)
             PROVE  /\ \A k \in Others(m) : ~ Replaces(k, i)
                    /\ i = txn'[m].now => txn'[m].seen = Elements(i)
                    /\ i \in DOMAIN txn'[m].added => Elements(i) \subseteq txn'[m].cleared
  BY <1>4, <1>5 DEF ReplacedOnce, Others
<1>6. /\ \A k \in Others(m) : ~ Replaces(k, i)
      /\ i = txn[m].now => txn[m].seen = Elements(i)
      /\ i \in DOMAIN txn[m].added => Elements(i) \subseteq txn[m].cleared
  BY DEF ReplacedOnce
<1>7. CASE m # j
  BY <1>2, <1>3, <1>6, <1>7
<1>8. CASE m = j
  BY <1>1, <1>2, <1>6, <1>8
<1> QED BY <1>7, <1>8

\* What a job commits is on rows that no other import is replacing, or they are marked.
LEMMA CommitOnce ==
    ASSUME RowsSafe, RowsSafe', ReplacedOnce, NEW j \in 1..MaxJobs, Commit(j) PROVE ReplacedOnce'
<1>1. /\ j \in Running /\ Running' = Running \ {j} /\ doubled' = doubled
      /\ \A k \in DOMAIN jobs : jobs'[k].screen = jobs[k].screen
      /\ \A k \in 1..MaxJobs \ {j} : txn'[k] = txn[k]
  BY Committed DEF RowsSafe
<1>2. Running \subseteq 1..MaxJobs /\ Running \subseteq DOMAIN jobs
  BY RunningJobs DEF RowsSafe
<1>3. \A k \in Running' : txn'[k] = txn[k] /\ jobs'[k].screen = jobs[k].screen
  BY <1>1, <1>2
<1>4. TypeOK' /\ IdsApart' /\ None \notin Made'
  <2>1. TypeOK' /\ IdsApart'
    BY DEF RowsSafe
  <2>2. Made' \subseteq Ids /\ Ids \subseteq Nat
    BY <2>1 DEF TypeOK, Ids
  <2> QED BY <2>1, <2>2, StimulusAssumption
<1> SUFFICES ASSUME NEW k \in Running', NEW i \in Made' \ doubled', jobs'[k].screen = None, Replaces(k, i)'
             PROVE  /\ \A m \in Others(k)' : ~ Replaces(m, i)'
                    /\ i = txn'[k].now => txn'[k].seen = Elements(i)'
                    /\ i \in DOMAIN txn'[k].added => Elements(i)' \subseteq txn'[k].cleared
  BY DEF ReplacedOnce
<1>5. k \in Running /\ i \notin doubled /\ jobs[k].screen = None /\ txn'[k] = txn[k] /\ Replaces(k, i)
  BY <1>1, <1>3 DEF Replaces
<1>6. ASSUME NEW m \in Others(k)', Replaces(m, i)' PROVE m \in Running \ {k} /\ Replaces(m, i)
  <2>1. m \in Running' /\ m # k
    BY DEF Others
  <2> QED BY <1>1, <1>3, <1>6, <2>1 DEF Replaces
<1>7. i \in Made
  <2>1. DOMAIN txn[k].fresh \cap Made' = {}
    BY <1>1, <1>2, <1>3, <1>4 DEF IdsApart
  <2> QED BY <1>4, <1>5, <2>1, ReplacedRows
<1>8. /\ \A m \in Running \ {k} : ~ Replaces(m, i)
      /\ i = txn[k].now => txn[k].seen = Elements(i)
      /\ i \in DOMAIN txn[k].added => Elements(i) \subseteq txn[k].cleared
  BY <1>7, <1>5 DEF ReplacedOnce, Others
<1>9. i \notin DOMAIN txn[j].added
  BY <1>1, <1>8, <1>5 DEF Replaces
<1>10. Elements(i)' = Elements(i)
  <2>1. screens'[i].elements = screens[i].elements
    BY <1>7, <1>9, CommittedElements DEF RowsSafe
  <2> QED BY <2>1 DEF Elements
<1> QED BY <1>8, <1>10, <1>5, <1>6

\* Every step keeps imports of one screen apart, but for the screens it marks.
LEMMA OnceStep == ASSUME RowsSafe, RowsSafe', ReplacedOnce, [Next]_vars PROVE ReplacedOnce'
<1>1. TypeOK /\ TxnFits /\ IdsApart /\ DOMAIN txn = 1..MaxJobs /\ Running \subseteq 1..MaxJobs
  BY RunningJobs DEF RowsSafe, TypeOK
<1>2. CASE UNCHANGED <<screens, jobs, txn, doubled>>
  BY <1>2, OnceStays DEF Made, Running
<1>3. ASSUME NEW c \in Clients, UploadStep(c) PROVE ReplacedOnce'
  <2>1. CASE UploadCommit(c)
    <3>1. /\ UNCHANGED <<jobs, txn, doubled>> /\ Made \subseteq Made'
          /\ \A i \in Made : screens'[i] = screens[i]
      BY <2>1 DEF UploadCommit, history, Made
    <3> QED BY <3>1, OnceStays DEF Running
  <2> QED BY <1>2, <1>3, <2>1 DEF UploadStep, UploadFile, UploadFails, rows, history
<1>4. CASE RequestAnalysis
  <2>1. UNCHANGED <<screens, txn, doubled>>
    BY <1>4 DEF RequestAnalysis, rows, history
  <2>2. \A k \in Running' : k \in Running /\ jobs'[k].screen = jobs[k].screen
    BY <1>1, <1>4, RequestedJobs DEF Running
  <2> QED BY <2>1, <2>2, OnceStays DEF Made
<1>5. ASSUME NEW j \in 1..MaxJobs, HandlerRaises(j) PROVE ReplacedOnce'
  <2>1. /\ UNCHANGED <<screens, doubled>>
        /\ \A k \in Running' : k \in Running /\ k # j /\ jobs'[k] = jobs[k] /\ txn'[k] = txn[k]
    BY <1>1, <1>5 DEF HandlerRaises, Goto, Running, TypeOK, rows, history
  <2> QED BY <2>1, OnceStays DEF Made
<1>6. ASSUME NEW j \in 1..MaxJobs, Load(j) PROVE ReplacedOnce'
  <2>1. /\ UNCHANGED screens /\ doubled \subseteq doubled' /\ jobs[j].screen # None /\ Waiting(j)
        /\ jobs' = [jobs EXCEPT ![j].status = "RUNNING"] /\ \A k \in 1..MaxJobs \ {j} : txn'[k] = txn[k]
    BY <1>1, <1>6 DEF Load, Begin, Goto, rows
  <2>2. /\ Running' = Running \cup {j} /\ j \in DOMAIN jobs /\ Running \subseteq DOMAIN jobs
        /\ \A k \in DOMAIN jobs : jobs'[k].screen = jobs[k].screen
    BY <1>1, <2>1, JobBegins DEF Running
  <2> QED BY <1>1, <2>1, <2>2, OnceStays DEF Made
<1>7. ASSUME NEW j \in 1..MaxJobs, LoadPrototype(j) PROVE ReplacedOnce'
  <2>1. PICK file \in Parsed :
          Begin(j, [NoTxn EXCEPT !.at = "importing", !.file = file,
                                 !.own = [i \in Made \ Screenshots |-> screens[i].analysis]])
    BY <1>7 DEF LoadPrototype
  <2>2. /\ UNCHANGED <<screens, doubled>> /\ Waiting(j)
        /\ jobs' = [jobs EXCEPT ![j].status = "RUNNING"] /\ \A k \in 1..MaxJobs \ {j} : txn'[k] = txn[k]
        /\ DOMAIN txn'[j].added = {} /\ txn'[j].now = None
    <3>1. UNCHANGED <<screens, doubled>>
      BY <1>7 DEF LoadPrototype, rows, history
    <3> QED BY <1>1, <2>1, <3>1 DEF Begin, Goto, NoTxn
  <2>3. /\ Running' = Running \cup {j} /\ j \in DOMAIN jobs /\ Running \subseteq DOMAIN jobs
        /\ \A k \in DOMAIN jobs : jobs'[k].screen = jobs[k].screen
    BY <1>1, <2>2, JobBegins DEF Running
  <2> QED BY <1>1, <2>2, <2>3, OnceStays DEF Made
<1>8. ASSUME NEW j \in 1..MaxJobs, Analyze(j) \/ StopEarly(j) \/ Infer(j) \/ SaveScreenRoles(j)
      PROVE  ReplacedOnce'
  <2>1. /\ j \in Running /\ UNCHANGED <<screens, jobs, doubled>> /\ txn' = [txn EXCEPT ![j] = txn'[j]]
    BY <1>1, <1>8 DEF Analyze, SaveScreenAnalysis, StopEarly, Infer, SaveScreenRoles, Goto,
      At, rows, history
  <2>2. txn[j].at \in {"loaded", "analyzed", "inferred"}
    BY <1>8 DEF Analyze, StopEarly, Infer, SaveScreenRoles, At
  <2>3. jobs[j].screen # None
    BY <1>1, <2>1, <2>2 DEF TxnFits, ImportFits
  <2> QED BY <2>1, <2>3, TxnOnce
<1>9. ASSUME NEW j \in 1..MaxJobs, InsertScreen(j) PROVE ReplacedOnce'
  <2>1. /\ j \in Running /\ UNCHANGED <<screens, jobs, doubled>> /\ txn' = [txn EXCEPT ![j] = txn'[j]]
        /\ txn'[j].now = None /\ txn'[j].cleared = txn[j].cleared
        /\ \E i \in FreeIds : DOMAIN txn'[j].added = DOMAIN txn[j].added \cup {i}
    BY <1>1, <1>9, ScreenInserted DEF rows, history
  <2>2. (DOMAIN txn'[j].added) \cap Made \subseteq DOMAIN txn[j].added
    BY <2>1 DEF FreeIds
  <2> QED BY <2>1, <2>2, TxnOnce
<1>10. ASSUME NEW j \in 1..MaxJobs, ResolveHotspots(j) PROVE ReplacedOnce'
  <2>1. /\ j \in Running /\ UNCHANGED <<screens, jobs, doubled>> /\ txn' = [txn EXCEPT ![j] = txn'[j]]
        /\ txn'[j].now = None /\ txn'[j].cleared = txn[j].cleared /\ txn'[j].added = txn[j].added
    BY <1>1, <1>10, HotspotsResolved DEF rows, history
  <2> QED BY <2>1, TxnOnce
<1>11. ASSUME NEW j \in 1..MaxJobs, DeleteTransitions(j) \/ InsertTransitions(j) PROVE ReplacedOnce'
  <2>1. /\ j \in Running /\ UNCHANGED <<screens, jobs, doubled>> /\ txn' = [txn EXCEPT ![j] = txn'[j]]
        /\ txn[j].at \in {"saved", "deleting"}
        /\ DOMAIN txn[j] = DOMAIN NoTxn
    BY <1>1, <1>11 DEF DeleteTransitions, InsertTransitions, Goto, At, rows, history, TypeOK
  <2>2. txn'[j].now = txn[j].now /\ txn'[j].cleared = txn[j].cleared /\ txn'[j].added = txn[j].added
    <3>1. {"now", "cleared", "added"} \subseteq DOMAIN txn[j]
      BY <2>1 DEF NoTxn
    <3>2. CASE DeleteTransitions(j)
      <4>1. txn'[j] = [txn[j] EXCEPT !.at = "deleting", !.snap = edges]
        BY <1>1, <3>2 DEF DeleteTransitions, Goto
      <4> QED BY <3>1, <4>1
    <3>3. CASE InsertTransitions(j)
      <4>1. txn'[j] = [txn[j] EXCEPT !.at = "replaced"]
        BY <1>1, <3>3 DEF InsertTransitions, Goto
      <4> QED BY <3>1, <4>1
    <3> QED BY <1>11, <3>2, <3>3
  <2>3. jobs[j].screen = None => txn[j].now = None
    BY <1>1, <2>1 DEF TxnFits, ImportFits
  <2> QED BY <2>1, <2>2, <2>3, TxnOnce
<1> QED BY <1>2, <1>3, <1>4, <1>5, <1>6, <1>7, <1>8, <1>9, <1>10, <1>11,
        ClearElementsOnce, ReplaceElementsOnce, CommitOnce DEF Next, JobStep, vars

\* No import runs.
LEMMA InitOnce == ASSUME Init PROVE ReplacedOnce
<1>1. jobs = <<>>
  BY DEF Init
<1> QED BY <1>1 DEF ReplacedOnce, Running

\* Every step keeps the rows in order.
LEMMA RowsStep == ASSUME RowsSafe, ReplacedOnce, [Next]_vars PROVE RowsSafe'
<1>1. CASE UNCHANGED vars
  <2>1. /\ Made' = Made /\ Running' = Running /\ Screenshots' = Screenshots
        /\ screens' = screens /\ txn' = txn /\ jobs' = jobs /\ doubled' = doubled
        /\ uploads' = uploads
    BY <1>1 DEF vars, Made, Running, Screenshots
  <2>2. TypeOK'
    BY <1>1, <2>1 DEF vars, RowsSafe, TypeOK
  <2>3. \A c \in Clients : Uploading(c)' = Uploading(c)
    BY <2>1 DEF Uploading
  <2>4. IdsApart'
    BY <2>1, <2>3 DEF RowsSafe, IdsApart
  <2>5. TxnFits'
    BY <2>1, AllFitStay DEF RowsSafe
  <2> QED BY <2>1, <2>2, <2>4, <2>5 DEF RowsSafe, KeysTold, ElementsDoubleOnlyByOverlap, ReadOnce,
             AttemptLeft, Others
<1>2. CASE \E c \in Clients : UploadStep(c)
  BY <1>2, UploadFileRows, UploadCommitRows, UploadFailsRows DEF UploadStep
<1>3. CASE RequestAnalysis
  BY <1>3, RequestAnalysisRows
<1>4. CASE \E j \in 1..MaxJobs : JobStep(j)
  BY <1>4, HandlerRaisesRows, LoadRows, AnalyzeRows, StopEarlyRows, InferRows,
     SaveScreenRolesRows, LoadPrototypeRows, InsertScreenRows, ClearElementsRows,
     ReplaceElementsRows, ResolveHotspotsRows, DeleteTransitionsRows, InsertTransitionsRows,
     CommitRows DEF JobStep
<1> QED BY <1>1, <1>2, <1>3, <1>4 DEF Next

\* Whatever is uploaded, analyzed or imported at once, and whatever fails: the rows are
\* well formed, a row that is being inserted is one transaction's own, and a screen that
\* no two jobs had loaded empty, or were replacing the elements of, at once has the
\* elements of a single reading or import.
\* (usecases/stimulus.py, analyze_stimulus.py:267-269, stimulus_service.py:310-344)
THEOREM ReadingSafe == Spec => []StimulusInv
<1>1. Init => RowsSafe /\ ReplacedOnce
  BY InitRows, InitOnce
<1>2. RowsSafe /\ ReplacedOnce /\ [Next]_vars => (RowsSafe /\ ReplacedOnce)'
  BY RowsStep, OnceStep
<1>3. RowsSafe => StimulusInv
  BY DEF RowsSafe, StimulusInv
<1> QED BY <1>1, <1>2, <1>3, PTL DEF Spec

\* Two screenshots share a screen_key only if neither upload saw the other's row.
\* (stimulus_service.py:128-148)
THEOREM KeysSafe == Spec => []KeysClashOnlyByOverlap
<1>1. Init => RowsSafe /\ ReplacedOnce
  BY InitRows, InitOnce
<1>2. RowsSafe /\ ReplacedOnce /\ [Next]_vars => (RowsSafe /\ ReplacedOnce)'
  BY RowsStep, OnceStep
<1>3. RowsSafe => KeysClashOnlyByOverlap
  BY DEF RowsSafe, KeysTold, KeysClashOnlyByOverlap
<1> QED BY <1>1, <1>2, <1>3, PTL DEF Spec

-----------------------------------------------------------------------------
(* Transitions that can fire. *)

Finished == {0} \cup {k \in DOMAIN jobs : jobs[k].status = "DONE"}

\* A trigger another job may name: it is committed and nobody deletes it.
Lasting(e) == e \notin Clearing /\ \E i \in Made : e \in Elements(i)

\* The graph of transaction j, as TriggersKept has it.
GraphKept(j) ==
    \A e \in txn[j].graph :
      /\ e.trigger.screen = e.from
      /\ jobs[j].screen # None => e.from # e.to
      /\ txn[j].at = "replaced" => e.trigger \in Own(j) \/ Lasting(e.trigger)

EdgeKept(t) == /\ t.trigger \in Elements(t.from) /\ t.trigger \notin Clearing
               /\ jobs[t.by].screen # None => t.from # t.to

\* The parts of FireInv, transition by transition and job by job.
LEMMA KeptTriggers ==
    /\ TriggersKept <=> (\A t \in edges : EdgeKept(t)) /\ \A j \in Running : GraphKept(j)
    /\ RowsFinished <=> /\ \A i \in Made : \A e \in Elements(i) : e.by \in Finished
                        /\ \A e \in Clearing : e.by \in Finished
    /\ TriggersKept' <=> (\A t \in edges' : EdgeKept(t)') /\ \A j \in Running' : GraphKept(j)'
    /\ RowsFinished' <=> /\ \A i \in Made' : \A e \in Elements(i)' : e.by \in Finished'
                         /\ \A e \in Clearing' : e.by \in Finished'
  BY DEF TriggersKept, EdgeKept, GraphKept, Lasting, RowsFinished, Finished

\* There is no transition yet.
LEMMA InitFire == ASSUME Init PROVE FireInv
<1>1. edges = {} /\ Running = {} /\ jobs = <<>>
  BY DEF Init, Running
<1>2. Clearing = {}
  BY <1>1 DEF Clearing
<1>3. PICK n \in {0, MaxScreens}, found \in Findings \ {<<>>} :
         screens = [i \in 1..n |->
           [key |-> i, seen |-> 1..(i - 1), analysis |-> [source |-> "vision", flow |-> None],
            elements |-> [k \in DOMAIN found |-> ElementRow(i, found[k], 0)]]]
  BY DEF Init
<1>4. ASSUME NEW i \in Made, NEW e \in Elements(i) PROVE e.by = 0
  <2>1. i \in 1..n
    BY <1>3 DEF Made
  <2>2. screens[i].elements = [k \in DOMAIN found |-> ElementRow(i, found[k], 0)]
    BY <1>3, <2>1
  <2>3. \A k \in DOMAIN screens[i].elements : screens[i].elements[k] = ElementRow(i, found[k], 0)
    BY <2>2
  <2>4. PICK k \in DOMAIN screens[i].elements : e = screens[i].elements[k]
    BY <1>4 DEF Elements
  <2>5. e = ElementRow(i, found[k], 0)
    BY <2>3, <2>4
  <2> QED BY <2>5 DEF ElementRow
<1> QED BY <1>1, <1>2, <1>4, KeptTriggers DEF FireInv, Finished

\* A step of one transaction, the rows of screens and transitions being as they were.
LEMMA TxnFires ==
    ASSUME TypeOK, FireInv, NEW j \in 1..MaxJobs, screens' = screens, edges' = edges,
           \A k \in DOMAIN jobs : jobs'[k].screen = jobs[k].screen,
           Finished \subseteq Finished', Running' \subseteq Running \cup {j},
           \A k \in Running' \ {j} : txn'[k] = txn[k],
           j \in Running' => \A e \in txn'[j].cleared :
             \/ e \in Clearing
             \/ /\ \E i \in Made : e \in Elements(i)
                /\ \A t \in edges : t.trigger # e
                /\ \A k \in Running' \ {j} : txn[k].at = "replaced" => \A t \in txn[k].graph : t.trigger # e,
           j \in Running' /\ ~ Clash => GraphKept(j)'
    PROVE  FireInv'
<1>1. /\ Made' = Made /\ \A i : Elements(i)' = Elements(i)
      /\ Clash' <=> Clash
  BY DEF Made, Elements, Clash
<1>2. ASSUME NEW e \in Clearing'
      PROVE  e \in Clearing \/ (j \in Running' /\ e \in txn'[j].cleared)
  <2>1. PICK k \in Running' : e \in txn'[k].cleared
    BY DEF Clearing
  <2> QED BY <2>1 DEF Clearing
<1>3. RowsFinished'
  <2>1. RowsFinished
    BY DEF FireInv
  <2> QED BY <1>1, <1>2, <2>1, KeptTriggers
<1>4. ASSUME ~ Clash PROVE TriggersKept'
  <2>1. TriggersKept
    BY <1>4 DEF FireInv
  <2>2. ASSUME NEW t \in edges' PROVE EdgeKept(t)'
    <3>1. t \in edges /\ EdgeKept(t)
      BY <2>1, KeptTriggers
    <3>2. jobs'[t.by].screen = jobs[t.by].screen
      BY <3>1 DEF TypeOK
    <3>3. t.trigger \notin Clearing'
      BY <1>2, <3>1 DEF EdgeKept
    <3> QED BY <1>1, <3>1, <3>2, <3>3 DEF EdgeKept
  <2>3. ASSUME NEW k \in Running', k # j PROVE GraphKept(k)'
    <3>1. /\ k \in Running /\ txn'[k] = txn[k] /\ k \in DOMAIN jobs /\ GraphKept(k)
      BY <2>1, <2>3, RunningJobs, KeptTriggers
    <3>2. Own(k)' = Own(k)
      BY <3>1 DEF Own
    <3>3. ASSUME NEW e \in txn[k].graph, txn[k].at = "replaced", Lasting(e.trigger)
          PROVE  Lasting(e.trigger)'
      BY <1>1, <1>2, <2>3, <3>3 DEF Lasting
    <3> QED BY <3>1, <3>2, <3>3 DEF GraphKept
  <2> QED BY <1>4, <2>2, <2>3, KeptTriggers
<1> QED BY <1>1, <1>3, <1>4 DEF FireInv

\* What is finished stays so while the transaction goes on.
LEMMA JobsStay ==
    ASSUME TypeOK, NEW j \in 1..MaxJobs, j \in Running, jobs' = jobs, txn' = [txn EXCEPT ![j] = txn'[j]]
    PROVE  /\ Running' = Running /\ Finished' = Finished
           /\ \A k \in Running' \ {j} : txn'[k] = txn[k]
  BY RunningJobs DEF Running, Finished, TypeOK

\* The transaction goes on with the same graph and deletes the same rows.
LEMMA StageFires ==
    ASSUME TypeOK, FireInv, NEW j \in 1..MaxJobs, j \in Running,
           screens' = screens, edges' = edges, jobs' = jobs,
           txn' = [txn EXCEPT ![j] = txn'[j]],
           txn'[j].cleared = txn[j].cleared, txn'[j].graph = txn[j].graph,
           txn'[j].added = txn[j].added \/ txn'[j].at # "replaced",
           txn'[j].at = "replaced" => \A e \in txn[j].graph :
             e.trigger \in Own(j) \/ Lasting(e.trigger)
    PROVE  FireInv'
<1>1. /\ Running' = Running /\ Finished' = Finished /\ \A k \in Running' \ {j} : txn'[k] = txn[k]
  BY JobsStay
<1>2. \A k \in Running : txn'[k].cleared = txn[k].cleared
  BY <1>1
<1>3. Clearing' = Clearing /\ \A e \in txn'[j].cleared : e \in Clearing
  BY <1>1, <1>2 DEF Clearing
<1>4. txn'[j].at = "replaced" => Own(j)' = Own(j)
  BY DEF Own
<1>5. \A e : Lasting(e)' <=> Lasting(e)
  BY <1>3 DEF Lasting, Made, Elements
<1>6. ASSUME ~ Clash PROVE GraphKept(j)'
  <2>1. GraphKept(j)
    BY <1>6, KeptTriggers DEF FireInv
  <2> QED BY <1>4, <1>5, <2>1 DEF GraphKept
<1> QED BY <1>1, <1>3, <1>6, TxnFires

\* What leaves the rows and the jobs alone leaves the transitions alone.
LEMMA UploadFileFires ==
    ASSUME TypeOK, FireInv, UNCHANGED <<rows, jobs, txn>> PROVE FireInv'
<1>1. /\ Made' = Made /\ Running' = Running /\ \A i : Elements(i)' = Elements(i)
      /\ edges' = edges /\ jobs' = jobs /\ txn' = txn
  BY DEF Made, Running, Elements, rows
<1>2. Clearing' = Clearing /\ (Clash' <=> Clash) /\ \A j : Own(j)' = Own(j)
  BY <1>1 DEF Clearing, Clash, Own, rows
<1> QED BY <1>1, <1>2 DEF FireInv, RowsFinished, TriggersKept

\* New jobs have written nothing.
LEMMA RequestAnalysisFires == ASSUME TypeOK, FireInv, RequestAnalysis PROVE FireInv'
<1>1. /\ DOMAIN jobs \subseteq DOMAIN jobs' /\ \A j \in DOMAIN jobs : jobs'[j] = jobs[j]
      /\ \A j \in DOMAIN jobs' \ DOMAIN jobs : jobs'[j].status = "PENDING"
      /\ UNCHANGED <<rows, txn, uploads, history>>
  BY RequestedJobs DEF RequestAnalysis
<1>2. /\ Made' = Made /\ Running' = Running /\ \A i : Elements(i)' = Elements(i)
      /\ edges' = edges /\ txn' = txn /\ Running \subseteq DOMAIN jobs /\ Finished' = Finished
  BY <1>1 DEF Made, Running, Elements, rows, Finished
<1>3. Clearing' = Clearing /\ (Clash' <=> Clash) /\ \A j : Own(j)' = Own(j)
  BY <1>1, <1>2 DEF Clearing, Clash, Own, rows
<1>4. \A t \in edges : t.by \in DOMAIN jobs
  BY DEF TypeOK
<1>5. RowsFinished'
  BY <1>2, <1>3, KeptTriggers DEF FireInv
<1>6. TriggersKept => TriggersKept'
  BY <1>1, <1>2, <1>3, <1>4 DEF TriggersKept
<1> QED BY <1>3, <1>5, <1>6 DEF FireInv

\* New screens have no elements and no transitions.
LEMMA UploadCommitFires ==
    ASSUME RowsSafe, FireInv, NEW c \in Clients, UploadCommit(c) PROVE FireInv'
<1>1. /\ Made' = Made \cup Uploading(c)
      /\ \A i \in Made : screens'[i] = screens[i]
      /\ \A i \in Uploading(c) \ Made : screens'[i].elements = <<>>
      /\ UNCHANGED <<prototype, edges, jobs, txn, history>>
  BY DEF UploadCommit, Made
<1>2. /\ Running' = Running /\ \A i \in Made : Elements(i)' = Elements(i)
      /\ \A i \in Uploading(c) \ Made : Elements(i)' = {}
      /\ Clearing' = Clearing /\ (Clash => Clash') /\ Finished' = Finished /\ \A j : Own(j)' = Own(j)
  BY <1>1 DEF Running, Elements, Clearing, Clash, Own, Finished
<1>3. \A t \in edges : t.from \in Made
  BY DEF RowsSafe, TypeOK
<1>4. RowsFinished'
  BY <1>1, <1>2, KeptTriggers DEF FireInv
<1>5. TriggersKept => TriggersKept'
  BY <1>1, <1>2, <1>3 DEF TriggersKept
<1> QED BY <1>2, <1>4, <1>5 DEF FireInv

\* What is rolled back deletes nothing any more.
LEMMA HandlerRaisesFires ==
    ASSUME TypeOK, FireInv, NEW j \in 1..MaxJobs, HandlerRaises(j) PROVE FireInv'
<1>1. /\ j \in Running /\ screens' = screens /\ edges' = edges
      /\ txn' = [txn EXCEPT ![j] = NoTxn]
      /\ jobs' = [jobs EXCEPT ![j].tries = @ + 1,
                              ![j].status = IF jobs[j].tries + 1 < MaxAttempts THEN "PENDING"
                                                                               ELSE "FAILED"]
  BY DEF HandlerRaises, Goto, rows
<1>2. DOMAIN jobs' = DOMAIN jobs /\ \A k \in DOMAIN jobs : k # j => jobs'[k] = jobs[k]
  BY <1>1
<1>3. j \in DOMAIN jobs /\ jobs[j] \in JobRows
  <2>1. jobs \in Seq(JobRows)
    BY DEF TypeOK, JobRows
  <2>2. j \in DOMAIN jobs
    BY <1>1 DEF Running
  <2> QED BY <2>1, <2>2
<1>4. jobs'[j].screen = jobs[j].screen /\ jobs'[j].status # "RUNNING"
  BY <1>1, <1>3 DEF JobRows
<1>5. Running' = Running \ {j} /\ \A k \in DOMAIN jobs : jobs'[k].screen = jobs[k].screen
  BY <1>2, <1>3, <1>4 DEF Running
<1>6. \A k \in Running' \ {j} : txn'[k] = txn[k]
  BY <1>1, <1>5, RunningJobs DEF TypeOK
<1>7. Finished \subseteq Finished'
  BY <1>1, <1>2 DEF Running, Finished
<1> QED BY <1>1, <1>5, <1>6, <1>7, TxnFires

\* A job that begins has written nothing.
LEMMA BeginFires ==
    ASSUME TypeOK, FireInv, NEW j \in 1..MaxJobs, screens' = screens, edges' = edges,
           NEW new, Begin(j, new), new.cleared = {}, new.graph = {}
    PROVE  FireInv'
<1>1. Waiting(j) /\ jobs' = [jobs EXCEPT ![j].status = "RUNNING"] /\ txn' = [txn EXCEPT ![j] = new]
  BY DEF Begin, Goto
<1>2. /\ Running' = Running \cup {j} /\ DOMAIN jobs' = DOMAIN jobs /\ jobs[j].status = "PENDING"
      /\ \A k \in DOMAIN jobs : jobs'[k].screen = jobs[k].screen /\ (k # j => jobs'[k] = jobs[k])
  BY <1>1, JobBegins
<1>3. txn'[j] = new /\ \A k \in Running' \ {j} : txn'[k] = txn[k]
  BY <1>1, <1>2, RunningJobs DEF TypeOK
<1>4. Finished \subseteq Finished'
  BY <1>2 DEF Finished
<1>5. GraphKept(j)'
  BY <1>3 DEF GraphKept
<1> QED BY <1>2, <1>3, <1>4, <1>5, TxnFires

\* A job that begins has written nothing.
LEMMA LoadFires == ASSUME TypeOK, FireInv, NEW j \in 1..MaxJobs, Load(j) PROVE FireInv'
<1> DEFINE new == [NoTxn EXCEPT !.at = "loaded", !.own = screens[jobs[j].screen]]
<1>1. screens' = screens /\ edges' = edges /\ Begin(j, new)
  BY DEF Load, rows
<1>2. new.cleared = {} /\ new.graph = {}
  BY DEF NoTxn
<1> HIDE DEF new
<1> QED BY <1>1, <1>2, BeginFires

\* A reading deletes no elements and has no transitions yet.
LEMMA AnalyzeFires ==
    ASSUME RowsSafe, FireInv, NEW j \in 1..MaxJobs, Analyze(j) PROVE FireInv'
<1>1. TypeOK
  BY DEF RowsSafe
<1>2. j \in Running /\ screens' = screens /\ edges' = edges /\ jobs' = jobs
  BY DEF Analyze, At, rows
<1>3. DOMAIN txn[j] = DOMAIN NoTxn /\ j \in DOMAIN txn
  BY <1>1 DEF TypeOK
<1>4. /\ txn' = [txn EXCEPT ![j] = txn'[j]] /\ txn'[j].at = "analyzed"
      /\ txn'[j].cleared = txn[j].cleared /\ txn'[j].graph = txn[j].graph
  <2>1. CASE txn[j].own.elements # <<>>
    <3> DEFINE new == [txn[j] EXCEPT !.at = "analyzed"]
    <3>1. txn' = [txn EXCEPT ![j] = new]
      BY <2>1 DEF Analyze, Goto
    <3>2. new.at = "analyzed" /\ new.cleared = txn[j].cleared /\ new.graph = txn[j].graph
      BY <1>3 DEF NoTxn
    <3> HIDE DEF new
    <3> QED BY <1>3, <3>1, <3>2
  <2>2. CASE txn[j].own.elements = <<>>
    <3>1. PICK found \in Findings : SaveScreenAnalysis(j, found)
      BY <2>2 DEF Analyze
    <3> DEFINE i == jobs[j].screen
               an == [k \in {i} |-> [source |-> "vision", flow |-> None]]
               ad == [k \in {i} |-> [n \in DOMAIN found |-> ElementRow(k, found[n], j)]]
               new == [txn[j] EXCEPT !.at = "analyzed", !.analysis = an, !.added = ad]
    <3>2. txn' = [txn EXCEPT ![j] = new]
      BY <3>1 DEF SaveScreenAnalysis, Goto
    <3> HIDE DEF an, ad
    <3>3. new.at = "analyzed" /\ new.cleared = txn[j].cleared /\ new.graph = txn[j].graph
      BY <1>3 DEF NoTxn
    <3> HIDE DEF new
    <3> QED BY <1>3, <3>2, <3>3
  <2> QED BY <2>1, <2>2
<1> QED BY <1>1, <1>2, <1>4, StageFires

\* The job writes no transition.
LEMMA StopEarlyFires ==
    ASSUME RowsSafe, FireInv, NEW j \in 1..MaxJobs, StopEarly(j) PROVE FireInv'
<1>1. /\ j \in Running /\ screens' = screens /\ edges' = edges /\ jobs' = jobs
      /\ txn' = [txn EXCEPT ![j] = [txn[j] EXCEPT !.at = "ending"]]
  BY DEF StopEarly, At, Goto, rows
<1>2. DOMAIN txn[j] = DOMAIN NoTxn /\ j \in DOMAIN txn
  BY DEF RowsSafe, TypeOK
<1>3. /\ txn' = [txn EXCEPT ![j] = txn'[j]] /\ txn'[j].at = "ending"
      /\ txn'[j].cleared = txn[j].cleared /\ txn'[j].graph = txn[j].graph
      /\ txn'[j].added = txn[j].added
  BY <1>1, <1>2 DEF NoTxn
<1> QED BY <1>1, <1>3, StageFires DEF RowsSafe

\* Fewer transitions are to stay.
LEMMA DeleteTransitionsFires ==
    ASSUME RowsSafe, FireInv, NEW j \in 1..MaxJobs, DeleteTransitions(j) PROVE FireInv'
<1>1. /\ j \in Running /\ screens' = screens /\ edges' = edges /\ jobs' = jobs
      /\ txn' = [txn EXCEPT ![j] = [txn[j] EXCEPT !.at = "deleting", !.snap = edges]]
  BY DEF DeleteTransitions, At, Goto, rows
<1>2. DOMAIN txn[j] = DOMAIN NoTxn /\ j \in DOMAIN txn
  BY DEF RowsSafe, TypeOK
<1>3. /\ txn' = [txn EXCEPT ![j] = txn'[j]] /\ txn'[j].at = "deleting"
      /\ txn'[j].cleared = txn[j].cleared /\ txn'[j].graph = txn[j].graph
      /\ txn'[j].added = txn[j].added
  BY <1>1, <1>2 DEF NoTxn
<1> QED BY <1>1, <1>3, StageFires DEF RowsSafe

\* The triggers are there when the rows are inserted.
LEMMA InsertTransitionsFires ==
    ASSUME RowsSafe, FireInv, NEW j \in 1..MaxJobs, InsertTransitions(j) PROVE FireInv'
<1>1. /\ j \in Running /\ screens' = screens /\ edges' = edges /\ jobs' = jobs
      /\ txn' = [txn EXCEPT ![j] = [txn[j] EXCEPT !.at = "replaced"]]
      /\ \A e \in txn[j].graph :
           e.trigger \in Own(j) \cup ((UNION {Elements(i) : i \in Made}) \ Clearing)
  BY DEF InsertTransitions, At, Goto, rows
<1>2. DOMAIN txn[j] = DOMAIN NoTxn /\ j \in DOMAIN txn
  BY DEF RowsSafe, TypeOK
<1>3. /\ txn' = [txn EXCEPT ![j] = txn'[j]] /\ txn'[j].at = "replaced"
      /\ txn'[j].cleared = txn[j].cleared /\ txn'[j].graph = txn[j].graph
      /\ txn'[j].added = txn[j].added
  BY <1>1, <1>2 DEF NoTxn
<1>4. \A e \in txn[j].graph : e.trigger \in Own(j) \/ Lasting(e.trigger)
  BY <1>1 DEF Lasting
<1> QED BY <1>1, <1>3, <1>4, StageFires DEF RowsSafe

\* The roles change neither elements nor transitions.
LEMMA SaveScreenRolesFires ==
    ASSUME RowsSafe, FireInv, NEW j \in 1..MaxJobs, SaveScreenRoles(j) PROVE FireInv'
<1> DEFINE an  == Over(txn[j].flows, txn[j].analysis)
           new == [txn[j] EXCEPT !.at = "saved", !.analysis = an]
<1>1. /\ j \in Running /\ screens' = screens /\ edges' = edges /\ jobs' = jobs
      /\ txn' = [txn EXCEPT ![j] = new]
  BY DEF SaveScreenRoles, At, Goto, rows
<1> HIDE DEF an
<1>2. DOMAIN txn[j] = DOMAIN NoTxn /\ j \in DOMAIN txn
  BY DEF RowsSafe, TypeOK
<1>3. new.at = "saved" /\ new.cleared = txn[j].cleared /\ new.graph = txn[j].graph
  BY <1>2 DEF NoTxn
<1> HIDE DEF new
<1>4. txn'[j] = new /\ txn' = [txn EXCEPT ![j] = txn'[j]]
  BY <1>1, <1>2
<1> QED BY <1>1, <1>3, <1>4, StageFires DEF RowsSafe

\* The triggers that infer_transitions resolves are elements of the screens they leave.
LEMMA InferFires == ASSUME RowsSafe, FireInv, NEW j \in 1..MaxJobs, Infer(j) PROVE FireInv'
<1>1. TypeOK /\ TxnFits
  BY DEF RowsSafe
<1>2. /\ j \in Running /\ jobs[j].screen # None
      /\ screens' = screens /\ edges' = edges /\ jobs' = jobs
      /\ txn' = [txn EXCEPT ![j] = txn'[j]]
      /\ txn'[j].at = "inferred" /\ txn'[j].cleared = txn[j].cleared
      /\ \A e \in txn'[j].graph :
           /\ e.from \in Made /\ e.from # e.to
           /\ \E k \in Made : /\ screens[e.from].key = screens[k].key
                              /\ \E n \in DOMAIN ElementsSeen(j, k) :
                                   e.trigger = ElementsSeen(j, k)[n]
  BY <1>1, Inferred DEF rows
<1>3. Running' = Running /\ Finished' = Finished /\ \A k \in Running' \ {j} : txn'[k] = txn[k]
  BY <1>1, <1>2, JobsStay
<1>4. ReadingFits(j)
  BY <1>1, <1>2 DEF TxnFits
<1>5. ASSUME ~ Clash, NEW e \in txn'[j].graph PROVE e.trigger.screen = e.from
  <2>1. PICK k \in Made : /\ screens[e.from].key = screens[k].key
                          /\ \E n \in DOMAIN ElementsSeen(j, k) : e.trigger = ElementsSeen(j, k)[n]
    BY <1>2
  <2>2. k = e.from
    BY <1>2, <1>5, <2>1 DEF Clash
  <2>3. ElementsSeen(j, k) \in Seq(ElementRows(k))
    BY <1>1, <1>4 DEF ElementsSeen, ReadingFits, TypeOK
  <2>4. e.trigger \in ElementRows(k)
    BY <2>1, <2>3
  <2> QED BY <2>2, <2>4 DEF ElementRows
<1>6. ~ Clash => GraphKept(j)'
  BY <1>2, <1>5 DEF GraphKept
<1>7. \A e \in txn'[j].cleared : e \in Clearing
  BY <1>2 DEF Clearing
<1> QED BY <1>1, <1>2, <1>3, <1>6, <1>7, TxnFires

\* An import that begins has deleted nothing.
LEMMA LoadPrototypeFires ==
    ASSUME TypeOK, FireInv, NEW j \in 1..MaxJobs, LoadPrototype(j) PROVE FireInv'
<1>1. screens' = screens /\ edges' = edges
  BY DEF LoadPrototype, rows
<1>2. PICK file \in Parsed :
        Begin(j, [NoTxn EXCEPT !.at = "importing", !.file = file,
                               !.own = [i \in Made \ Screenshots |-> screens[i].analysis]])
  BY DEF LoadPrototype
<1> DEFINE own == [i \in Made \ Screenshots |-> screens[i].analysis]
           new == [NoTxn EXCEPT !.at = "importing", !.file = file, !.own = own]
<1>3. Begin(j, new)
  BY <1>2
<1> HIDE DEF own
<1>4. new.cleared = {} /\ new.graph = {}
  BY DEF NoTxn
<1> HIDE DEF new
<1> QED BY <1>1, <1>3, <1>4, BeginFires

\* A new row has elements of its own, and none are deleted.
LEMMA InsertScreenFires ==
    ASSUME RowsSafe, FireInv, NEW j \in 1..MaxJobs, InsertScreen(j) PROVE FireInv'
<1>1. TypeOK /\ TxnFits /\ IdsApart
  BY DEF RowsSafe
<1>2. /\ j \in Running /\ txn[j].at = "importing"
      /\ screens' = screens /\ edges' = edges /\ jobs' = jobs
      /\ txn' = [txn EXCEPT ![j] = txn'[j]] /\ txn'[j].at = "importing"
      /\ txn'[j].cleared = txn[j].cleared /\ txn'[j].graph = {}
  BY <1>1, ScreenInserted DEF rows
<1>3. txn[j].graph = {}
  BY <1>1, <1>2, Importing
<1> QED BY <1>1, <1>2, <1>3, StageFires

\* A DELETE that only starts has deleted nothing.
LEMMA ClearElementsFires ==
    ASSUME RowsSafe, FireInv, NEW j \in 1..MaxJobs, ClearElements(j) PROVE FireInv'
<1>1. TypeOK /\ TxnFits
  BY DEF RowsSafe
<1>2. /\ j \in Running /\ screens' = screens /\ edges' = edges /\ jobs' = jobs
      /\ txn' = [txn EXCEPT ![j] = txn'[j]] /\ txn'[j].at = "clearing"
      /\ \A f \in DOMAIN NoTxn \ {"at", "now", "seen"} : txn'[j][f] = txn[j][f]
  BY <1>1, ElementsCleared DEF rows
<1>3. {"cleared", "graph"} \subseteq DOMAIN NoTxn \ {"at", "now", "seen"}
  BY DEF NoTxn
<1>4. txn'[j].cleared = txn[j].cleared /\ txn'[j].graph = txn[j].graph
  BY <1>2, <1>3
<1> QED BY <1>1, <1>2, <1>4, StageFires

\* The rows that are deleted now are committed, and nothing refers to them.
LEMMA ReplaceElementsFires ==
    ASSUME RowsSafe, FireInv, NEW j \in 1..MaxJobs, ReplaceElements(j) PROVE FireInv'
<1>1. TypeOK /\ TxnFits /\ IdsApart
  BY DEF RowsSafe
<1> DEFINE gone == txn[j].seen \cap Elements(txn[j].now)
<1>2. /\ j \in Running /\ txn[j].now \in Made
      /\ screens' = screens /\ edges' = edges /\ jobs' = jobs
      /\ txn' = [txn EXCEPT ![j] = txn'[j]] /\ txn'[j].graph = {}
      /\ txn'[j].cleared = txn[j].cleared \cup gone /\ ~ Referenced(j, gone)
  BY <1>1, ElementsReplaced DEF rows
<1>3. Running' = Running /\ Finished' = Finished /\ \A k \in Running' \ {j} : txn'[k] = txn[k]
  BY <1>1, <1>2, JobsStay
<1>4. ASSUME NEW e \in gone
      PROVE  /\ e \in Elements(txn[j].now)
             /\ \A t \in edges : t.trigger # e
             /\ \A k \in Others(j) : txn[k].at = "replaced" => \A t \in txn[k].graph : t.trigger # e
  BY <1>2 DEF Referenced
<1> HIDE DEF gone
<1>5. \A e \in txn'[j].cleared : e \in Clearing \/ e \in gone
  BY <1>2 DEF Clearing
<1>6. GraphKept(j)'
  BY <1>2 DEF GraphKept
<1>7. Running' \ {j} = Others(j)
  BY <1>3 DEF Others
<1>8. ASSUME NEW e \in txn'[j].cleared
      PROVE  \/ e \in Clearing
             \/ /\ \E i \in Made : e \in Elements(i)
                /\ \A t \in edges : t.trigger # e
                /\ \A k \in Running' \ {j} : txn[k].at = "replaced" => \A t \in txn[k].graph : t.trigger # e
  BY <1>2, <1>4, <1>5, <1>7
<1> QED BY <1>1, <1>2, <1>3, <1>6, <1>8, TxnFires

\* The triggers of the hotspots are elements the import has inserted.
LEMMA ResolveHotspotsFires ==
    ASSUME RowsSafe, FireInv, NEW j \in 1..MaxJobs, ResolveHotspots(j) PROVE FireInv'
<1>1. TypeOK /\ TxnFits /\ IdsApart
  BY DEF RowsSafe
<1>2. /\ j \in Running /\ jobs[j].screen = None
      /\ screens' = screens /\ edges' = edges /\ jobs' = jobs
      /\ txn' = [txn EXCEPT ![j] = txn'[j]] /\ txn'[j].at = "saved"
      /\ txn'[j].cleared = txn[j].cleared
      /\ \A e \in txn'[j].graph : e.trigger.screen = e.from
  BY <1>1, HotspotsResolved DEF rows
<1>3. Running' = Running /\ Finished' = Finished /\ \A k \in Running' \ {j} : txn'[k] = txn[k]
  BY <1>1, <1>2, JobsStay
<1>4. GraphKept(j)'
  BY <1>2 DEF GraphKept
<1>5. \A e \in txn'[j].cleared : e \in Clearing
  BY <1>2 DEF Clearing
<1> QED BY <1>1, <1>2, <1>3, <1>4, <1>5, TxnFires

\* The elements of a screen after a commit: those nobody deletes, and those of the job.
LEMMA ElementsStay ==
    ASSUME RowsSafe, NEW j \in 1..MaxJobs, Commit(j), NEW i
    PROVE  /\ i \in Made => Elements(i) \ Clearing \subseteq Elements(i)'
           /\ i \in DOMAIN txn[j].added =>
                \A n \in DOMAIN txn[j].added[i] : txn[j].added[i][n] \in Elements(i)'
           /\ i \in Made' => \A e \in Elements(i)' : e.by = j \/ (i \in Made /\ e \in Elements(i))
<1>1. TypeOK /\ TxnFits /\ IdsApart
  BY DEF RowsSafe
<1>2. j \in Running /\ WritesFit(j) /\ Made' = Made \cup DOMAIN txn[j].fresh
  BY <1>1, Committed DEF TxnFits
<1>3. i \in DOMAIN txn[j].added => \A n \in DOMAIN txn[j].added[i] : txn[j].added[i][n].by = j
  BY <1>2 DEF WritesFit
<1>4. txn[j].cleared \subseteq Clearing
  BY <1>2 DEF Clearing
<1>5. CASE i \in DOMAIN txn[j].fresh
  <2>1. i \notin Made
    BY <1>1, <1>5 DEF IdsApart
  <2>2. screens'[i].elements = txn[j].added[i]
    BY <1>1, <1>5, Committed
  <2>3. i \in DOMAIN txn[j].added
    BY <1>1, <1>2, <1>5 DEF TxnFits, ImportFits, ReadingFits
  <2> QED BY <1>3, <2>1, <2>2, <2>3 DEF Elements
<1>6. CASE i \in Made
  <2>1. Elements(i)' = (Elements(i) \ txn[j].cleared)
                         \cup {AddedTo(j, i)[n] : n \in DOMAIN AddedTo(j, i)}
    BY <1>1, <1>6, CommittedElements
  <2>2. CASE i \in DOMAIN txn[j].added
    BY <1>3, <1>4, <1>6, <2>1, <2>2 DEF AddedTo
  <2>3. CASE i \notin DOMAIN txn[j].added
    BY <1>4, <1>6, <2>1, <2>3 DEF AddedTo
  <2> QED BY <2>2, <2>3
<1>7. CASE i \notin Made \cup DOMAIN txn[j].fresh
  BY <1>2, <1>7 DEF WritesFit, Visible
<1> QED BY <1>5, <1>6, <1>7

\* What a commit does to the transitions.
LEMMA CommittedEdges ==
    ASSUME NEW j \in 1..MaxJobs, Commit(j)
    PROVE  /\ txn[j].at = "ending" => edges' = edges
           /\ txn[j].at # "ending" =>
                /\ txn[j].at = "replaced"
                /\ edges' = (edges \ txn[j].snap)
                     \cup {[from |-> e.from, trigger |-> e.trigger, to |-> e.to, by |-> j] :
                              e \in txn[j].graph}
  BY DEF Commit

\* The commit keeps the elements that transitions hang on, and puts its own in place.
LEMMA CommitFires ==
    ASSUME RowsSafe, FireInv, NEW j \in 1..MaxJobs, Commit(j) PROVE FireInv'
<1>1. TypeOK /\ TxnFits /\ IdsApart
  BY DEF RowsSafe
<1>2. /\ j \in Running /\ txn[j].at \in {"ending", "replaced"}
      /\ Made' = Made \cup DOMAIN txn[j].fresh
      /\ Running' = Running \ {j} /\ DOMAIN jobs' = DOMAIN jobs /\ jobs'[j].status = "DONE"
      /\ \A k \in DOMAIN jobs : jobs'[k].screen = jobs[k].screen /\ (k # j => jobs'[k] = jobs[k])
      /\ \A k \in 1..MaxJobs \ {j} : txn'[k] = txn[k]
      /\ \A i \in Made \ DOMAIN txn[j].fresh : screens'[i].key = screens[i].key
  BY <1>1, Committed
<1>3. Running \subseteq 1..MaxJobs /\ Running \subseteq DOMAIN jobs
  BY <1>1, RunningJobs
<1>4. Clash => Clash'
  <2>1. DOMAIN txn[j].fresh \cap Made = {}
    BY <1>1 DEF IdsApart
  <2> QED BY <1>2, <2>1 DEF Clash
<1>5. Finished' = Finished \cup {j} /\ j \notin Finished
  BY <1>2, <1>3 DEF Finished, Running
<1>6. Clearing' \subseteq Clearing
  BY <1>2, <1>3 DEF Clearing
<1>7. RowsFinished'
  <2>1. RowsFinished
    BY DEF FireInv
  <2>2. ASSUME NEW i \in Made', NEW e \in Elements(i)' PROVE e.by \in Finished'
    <3>1. e.by = j \/ (i \in Made /\ e \in Elements(i))
      BY <2>2, ElementsStay
    <3> QED BY <1>5, <2>1, <3>1, KeptTriggers
  <2> QED BY <1>5, <1>6, <2>1, <2>2, KeptTriggers
<1>8. ASSUME ~ Clash PROVE TriggersKept'
  <2>1. TriggersKept /\ RowsFinished
    BY <1>8 DEF FireInv
  <2>2. WritesFit(j)
    BY <1>1, <1>2 DEF TxnFits
  <2>3. ASSUME NEW t \in edges PROVE EdgeKept(t)'
    <3>1. EdgeKept(t) /\ t.from \in Made /\ t.by \in DOMAIN jobs
      BY <1>1, <2>1, KeptTriggers DEF TypeOK
    <3>2. t.trigger \in Elements(t.from)'
      BY <3>1, ElementsStay DEF EdgeKept
    <3> QED BY <1>2, <1>6, <3>1, <3>2 DEF EdgeKept
  <2>4. ASSUME txn[j].at = "replaced", NEW e \in txn[j].graph
        PROVE  /\ e.trigger \in Elements(e.from)' /\ e.trigger \notin Clearing'
               /\ jobs[j].screen # None => e.from # e.to
    <3>1. /\ e.trigger.screen = e.from /\ (jobs[j].screen # None => e.from # e.to)
          /\ e.trigger \in Own(j) \/ Lasting(e.trigger)
      BY <1>2, <2>1, <2>4, KeptTriggers DEF GraphKept
    <3>2. CASE e.trigger \in Own(j)
      <4>1. PICK i \in DOMAIN txn[j].added :
              e.trigger \in {txn[j].added[i][n] : n \in DOMAIN txn[j].added[i]}
        BY <3>2 DEF Own
      <4>2. PICK n \in DOMAIN txn[j].added[i] : e.trigger = txn[j].added[i][n]
        BY <4>1
      <4>3. txn[j].added[i] \in Seq(ElementRows(i)) /\ e.trigger.by = j
        BY <2>2, <4>2 DEF WritesFit
      <4>4. e.trigger \in ElementRows(i)
        BY <4>2, <4>3
      <4>5. i = e.from
        BY <3>1, <4>4 DEF ElementRows
      <4>6. e.trigger \in Elements(i)'
        BY <4>2, ElementsStay
      <4>7. e.trigger \notin Clearing
        BY <1>5, <2>1, <4>3, KeptTriggers
      <4> QED BY <1>6, <3>1, <4>5, <4>6, <4>7
    <3>3. CASE Lasting(e.trigger)
      <4>1. PICK i \in Made : e.trigger \in Elements(i)
        BY <3>3 DEF Lasting
      <4>2. screens[i].elements \in Seq(ElementRows(i))
        BY <1>1 DEF TypeOK
      <4>3. e.trigger \in ElementRows(i)
        BY <4>1, <4>2 DEF Elements
      <4>4. i = e.from
        BY <3>1, <4>3 DEF ElementRows
      <4>5. e.trigger \in Elements(i)' /\ e.trigger \notin Clearing'
        BY <1>6, <3>3, <4>1, ElementsStay DEF Lasting
      <4> QED BY <3>1, <4>4, <4>5
    <3> QED BY <3>1, <3>2, <3>3
  <2>5. ASSUME NEW t \in edges' PROVE EdgeKept(t)'
    <3>1. CASE t \in edges
      BY <2>3, <3>1
    <3>2. CASE t \notin edges
      <4>1. txn[j].at = "replaced" /\ \E e \in txn[j].graph :
              t = [from |-> e.from, trigger |-> e.trigger, to |-> e.to, by |-> j]
        BY <3>2, CommittedEdges
      <4>2. PICK e \in txn[j].graph :
              t.from = e.from /\ t.trigger = e.trigger /\ t.to = e.to /\ t.by = j
        BY <4>1
      <4>3. jobs'[j].screen = jobs[j].screen
        BY <1>2, <1>3
      <4> QED BY <2>4, <4>1, <4>2, <4>3 DEF EdgeKept
    <3> QED BY <3>1, <3>2
  <2>6. ASSUME NEW k \in Running' PROVE GraphKept(k)'
    <3>1. k \in Running /\ txn'[k] = txn[k] /\ jobs'[k].screen = jobs[k].screen /\ GraphKept(k)
      BY <1>2, <1>3, <2>1, KeptTriggers
    <3>2. Own(k)' = Own(k)
      BY <3>1 DEF Own
    <3>3. \A e : Lasting(e) => Lasting(e)'
      BY <1>2, <1>6, ElementsStay DEF Lasting
    <3> QED BY <3>1, <3>2, <3>3 DEF GraphKept
  <2> QED BY <2>5, <2>6, KeptTriggers
<1> QED BY <1>4, <1>7, <1>8 DEF FireInv

\* Every step keeps the transitions alive.
LEMMA FireStep == ASSUME RowsSafe, FireInv, [Next]_vars PROVE FireInv'
<1>1. CASE UNCHANGED vars
  BY <1>1, UploadFileFires DEF vars, rows, RowsSafe
<1>2. CASE \E c \in Clients : UploadStep(c)
  BY <1>2, UploadFileFires, UploadCommitFires DEF UploadStep, UploadFile, UploadFails,
    RowsSafe
<1>3. CASE RequestAnalysis
  BY <1>3, RequestAnalysisFires DEF RowsSafe
<1>4. CASE \E j \in 1..MaxJobs : JobStep(j)
  BY <1>4, HandlerRaisesFires, LoadFires, AnalyzeFires, StopEarlyFires, InferFires,
     SaveScreenRolesFires, LoadPrototypeFires, InsertScreenFires, ClearElementsFires,
     ReplaceElementsFires, ResolveHotspotsFires, DeleteTransitionsFires, InsertTransitionsFires,
     CommitFires DEF JobStep, RowsSafe
<1> QED BY <1>1, <1>2, <1>3, <1>4 DEF Next

\* No stored transition is one execute_action would never fire: while no two screens
\* share a key, its trigger is an element of the screen it leaves, however imports that
\* replace elements and analyses that read old ones interleave, and an inferred one
\* leads to another screen. (analyze_stimulus.py:136-164, simulation_graph.py:465-473)
THEOREM EdgesFire == Spec => []EveryEdgeCanFire
<1>1. Init => RowsSafe /\ ReplacedOnce /\ FireInv
  BY InitRows, InitOnce, InitFire
<1>2. RowsSafe /\ ReplacedOnce /\ FireInv /\ [Next]_vars => (RowsSafe /\ ReplacedOnce /\ FireInv)'
  BY RowsStep, OnceStep, FireStep
<1>3. FireInv => EveryEdgeCanFire
  BY DEF FireInv, TriggersKept, EveryEdgeCanFire, Clash
<1> QED BY <1>1, <1>2, <1>3, PTL DEF Spec

-----------------------------------------------------------------------------
(* One destination for an element. *)

Written == {"saved", "deleting", "replaced"}

\* There is no transition yet, and nobody runs.
LEMMA InitMap == ASSUME Init PROVE MapInv
<1>1. edges = {} /\ Running = {}
  BY DEF Init, Running
<1> QED BY <1>1 DEF MapInv, FlowsLocked, OneReplaces, Replacing, GraphsAreMaps, OneDestination

\* A step of one transaction that does not start to replace the graph, the stored
\* transitions being as they were.
LEMMA TxnMaps ==
    ASSUME TypeOK, MapInv, NEW j \in 1..MaxJobs, edges' = edges, loose' = loose,
           Running' \subseteq Running \cup {j},
           \A k \in Running' \ {j} : txn'[k] = txn[k],
           j \in Running' => \A d, e \in txn'[j].graph : d.trigger = e.trigger => d.to = e.to,
           j \in Running' /\ txn'[j].at \in Written =>
             /\ DOMAIN txn'[j].flows \subseteq DOMAIN txn'[j].analysis
             /\ \A k \in Running' \ {j} :
                  txn[k].at \in Written => DOMAIN txn'[j].flows \cap DOMAIN txn[k].flows = {},
           j \in Running' /\ txn'[j].at \in {"deleting", "replaced"} =>
             /\ j \in Running /\ txn[j].at \in {"deleting", "replaced"}
             /\ txn'[j].snap = txn[j].snap
    PROVE  MapInv'
<1>1. GraphsAreMaps'
  BY DEF MapInv, GraphsAreMaps
<1>2. OneDestination'
  BY DEF MapInv, OneDestination
<1>3. Replacing' \subseteq Replacing /\ \A k \in Replacing' : txn'[k].snap = txn[k].snap
  BY DEF Replacing
<1>4. OneReplaces'
  BY <1>3 DEF MapInv, OneReplaces
<1>5. FlowsLocked'
  <2> SUFFICES ASSUME NEW k \in Running', txn'[k].at \in Written
               PROVE  /\ DOMAIN txn'[k].flows \subseteq DOMAIN txn'[k].analysis
                      /\ \A m \in Running' \ {k} : txn'[m].at \in Written =>
                           DOMAIN txn'[k].flows \cap DOMAIN txn'[m].flows = {}
    BY DEF FlowsLocked, Others, Written
  <2>1. CASE k = j
    BY <2>1
  <2>2. CASE k # j
    <3>1. k \in Running /\ txn'[k] = txn[k]
      BY <2>2
    <3>2. /\ DOMAIN txn[k].flows \subseteq DOMAIN txn[k].analysis
          /\ \A m \in Running \ {k} : txn[m].at \in Written =>
               DOMAIN txn[k].flows \cap DOMAIN txn[m].flows = {}
      BY <3>1 DEF MapInv, FlowsLocked, Others, Written
    <3>3. ASSUME NEW m \in Running' \ {k}, txn'[m].at \in Written
          PROVE  DOMAIN txn'[k].flows \cap DOMAIN txn'[m].flows = {}
      <4>1. CASE m = j
        BY <2>2, <3>1, <3>3, <4>1
      <4>2. CASE m # j
        BY <3>1, <3>2, <3>3, <4>2
      <4> QED BY <4>1, <4>2
    <3> QED BY <3>1, <3>2, <3>3
  <2> QED BY <2>1, <2>2
<1> QED BY <1>1, <1>2, <1>4, <1>5 DEF MapInv

\* The transaction goes on with the same graph and the same roles.
LEMMA StageMaps ==
    ASSUME TypeOK, MapInv, NEW j \in 1..MaxJobs, j \in Running,
           edges' = edges, loose' = loose, jobs' = jobs,
           txn' = [txn EXCEPT ![j] = txn'[j]],
           txn'[j].graph = txn[j].graph,
           \/ txn'[j].at \notin Written
           \/ /\ txn'[j].at = "replaced" /\ txn[j].at = "deleting"
              /\ txn'[j].snap = txn[j].snap /\ txn'[j].flows = txn[j].flows
              /\ txn'[j].analysis = txn[j].analysis
    PROVE  MapInv'
<1>1. Running' = Running /\ DOMAIN txn = 1..MaxJobs /\ Running \subseteq 1..MaxJobs
  BY RunningJobs DEF Running, TypeOK
<1>2. \A k \in Running \ {j} : txn'[k] = txn[k]
  BY <1>1
<1>3. \A d, e \in txn'[j].graph : d.trigger = e.trigger => d.to = e.to
  BY DEF MapInv, GraphsAreMaps
<1>4. CASE txn'[j].at \notin Written
  BY <1>1, <1>2, <1>3, <1>4, TxnMaps DEF Written
<1>5. CASE /\ txn'[j].at = "replaced" /\ txn[j].at = "deleting"
           /\ txn'[j].snap = txn[j].snap /\ txn'[j].flows = txn[j].flows
           /\ txn'[j].analysis = txn[j].analysis
  <2>1. /\ DOMAIN txn'[j].flows \subseteq DOMAIN txn'[j].analysis
        /\ \A k \in Running \ {j} :
             txn[k].at \in Written => DOMAIN txn'[j].flows \cap DOMAIN txn[k].flows = {}
    BY <1>5 DEF MapInv, FlowsLocked, Others, Written
  <2> QED BY <1>1, <1>2, <1>3, <1>5, <2>1, TxnMaps
<1> QED BY <1>4, <1>5

\* Nothing that matters changes.
LEMMA SameMaps ==
    ASSUME MapInv, UNCHANGED <<edges, txn, loose>>, Running' = Running PROVE MapInv'
<1>1. Replacing' = Replacing
  BY DEF Replacing
<1> QED BY <1>1 DEF MapInv, FlowsLocked, OneReplaces, GraphsAreMaps, OneDestination, Others

\* An upload has no part in the graph.
LEMMA UploadMaps == ASSUME TypeOK, MapInv, NEW c \in Clients, UploadStep(c) PROVE MapInv'
<1>1. UNCHANGED <<edges, jobs, txn, loose>>
  BY DEF UploadStep, UploadFile, UploadCommit, UploadFails, rows, history
<1>2. Running' = Running
  BY <1>1 DEF Running
<1> QED BY <1>1, <1>2, SameMaps

\* New jobs have inferred nothing.
LEMMA RequestAnalysisMaps == ASSUME TypeOK, MapInv, RequestAnalysis PROVE MapInv'
<1>1. /\ DOMAIN jobs \subseteq DOMAIN jobs' /\ \A j \in DOMAIN jobs : jobs'[j] = jobs[j]
      /\ \A j \in DOMAIN jobs' \ DOMAIN jobs : jobs'[j].status = "PENDING"
      /\ UNCHANGED <<edges, txn, loose>>
  BY RequestedJobs DEF RequestAnalysis, rows, history
<1>2. Running' = Running
  BY <1>1 DEF Running
<1> QED BY <1>1, <1>2, SameMaps

\* Of those who replace the graph there is one less.
LEMMA HandlerRaisesMaps ==
    ASSUME TypeOK, MapInv, NEW j \in 1..MaxJobs, HandlerRaises(j) PROVE MapInv'
<1>1. /\ j \in Running /\ edges' = edges /\ loose' = loose
      /\ txn' = [txn EXCEPT ![j] = NoTxn]
      /\ jobs' = [jobs EXCEPT ![j].tries = @ + 1,
                              ![j].status = IF jobs[j].tries + 1 < MaxAttempts THEN "PENDING"
                                                                               ELSE "FAILED"]
  BY DEF HandlerRaises, Goto, rows, history
<1>2. DOMAIN jobs' = DOMAIN jobs /\ \A k \in DOMAIN jobs : k # j => jobs'[k] = jobs[k]
  BY <1>1
<1>3. j \in DOMAIN jobs /\ jobs[j] \in JobRows
  <2>1. jobs \in Seq(JobRows)
    BY DEF TypeOK, JobRows
  <2>2. j \in DOMAIN jobs
    BY <1>1 DEF Running
  <2> QED BY <2>1, <2>2
<1>4. jobs'[j].status # "RUNNING"
  BY <1>1, <1>3 DEF JobRows
<1>5. Running' = Running \ {j}
  BY <1>2, <1>3, <1>4 DEF Running
<1>6. \A k \in Running' \ {j} : txn'[k] = txn[k]
  BY <1>1, <1>5, RunningJobs DEF TypeOK
<1> QED BY <1>1, <1>5, <1>6, TxnMaps

\* A job that begins has inferred nothing.
LEMMA LoadMaps == ASSUME TypeOK, MapInv, NEW j \in 1..MaxJobs, Load(j) PROVE MapInv'
<1> DEFINE new == [NoTxn EXCEPT !.at = "loaded", !.own = screens[jobs[j].screen]]
<1>1. /\ Waiting(j) /\ edges' = edges /\ loose' = loose
      /\ jobs' = [jobs EXCEPT ![j].status = "RUNNING"] /\ txn' = [txn EXCEPT ![j] = new]
  BY DEF Load, Begin, Goto, rows
<1>2. new.graph = {} /\ new.at = "loaded"
  BY DEF NoTxn
<1> HIDE DEF new
<1>3. Running' = Running \cup {j}
  BY <1>1, JobBegins
<1>4. txn'[j] = new /\ \A k \in Running' \ {j} : txn'[k] = txn[k]
  BY <1>1, <1>3, RunningJobs DEF TypeOK
<1>5. txn'[j].graph = {} /\ txn'[j].at = "loaded"
  BY <1>2, <1>4
<1> QED BY <1>1, <1>3, <1>4, <1>5, TxnMaps DEF Written

\* A reading changes no graph.
LEMMA AnalyzeMaps == ASSUME TypeOK, MapInv, NEW j \in 1..MaxJobs, Analyze(j) PROVE MapInv'
<1>1. /\ j \in Running /\ edges' = edges /\ loose' = loose /\ jobs' = jobs
  BY DEF Analyze, At, rows, history
<1>2. DOMAIN txn[j] = DOMAIN NoTxn /\ j \in DOMAIN txn
  BY DEF TypeOK
<1>3. /\ txn' = [txn EXCEPT ![j] = txn'[j]] /\ txn'[j].at = "analyzed"
      /\ txn'[j].graph = txn[j].graph
  <2>1. CASE txn[j].own.elements # <<>>
    <3> DEFINE new == [txn[j] EXCEPT !.at = "analyzed"]
    <3>1. txn' = [txn EXCEPT ![j] = new]
      BY <2>1 DEF Analyze, Goto
    <3>2. new.at = "analyzed" /\ new.graph = txn[j].graph
      BY <1>2 DEF NoTxn
    <3> HIDE DEF new
    <3> QED BY <1>2, <3>1, <3>2
  <2>2. CASE txn[j].own.elements = <<>>
    <3>1. PICK found \in Findings : SaveScreenAnalysis(j, found)
      BY <2>2 DEF Analyze
    <3> DEFINE i == jobs[j].screen
               an == [k \in {i} |-> [source |-> "vision", flow |-> None]]
               ad == [k \in {i} |-> [n \in DOMAIN found |-> ElementRow(k, found[n], j)]]
               new == [txn[j] EXCEPT !.at = "analyzed", !.analysis = an, !.added = ad]
    <3>2. txn' = [txn EXCEPT ![j] = new]
      BY <3>1 DEF SaveScreenAnalysis, Goto
    <3> HIDE DEF an, ad
    <3>3. new.at = "analyzed" /\ new.graph = txn[j].graph
      BY <1>2 DEF NoTxn
    <3> HIDE DEF new
    <3> QED BY <1>2, <3>2, <3>3
  <2> QED BY <2>1, <2>2
<1> QED BY <1>1, <1>3, StageMaps DEF Written

\* The job replaces no graph.
LEMMA StopEarlyMaps ==
    ASSUME TypeOK, MapInv, NEW j \in 1..MaxJobs, StopEarly(j) PROVE MapInv'
<1>1. /\ j \in Running /\ edges' = edges /\ loose' = loose /\ jobs' = jobs
      /\ txn' = [txn EXCEPT ![j] = [txn[j] EXCEPT !.at = "ending"]]
  BY DEF StopEarly, At, Goto, rows
<1>2. DOMAIN txn[j] = DOMAIN NoTxn /\ j \in DOMAIN txn
  BY DEF TypeOK
<1>3. /\ txn' = [txn EXCEPT ![j] = txn'[j]] /\ txn'[j].at = "ending"
      /\ txn'[j].graph = txn[j].graph
  BY <1>1, <1>2 DEF NoTxn
<1> QED BY <1>1, <1>3, StageMaps DEF Written

\* Whoever was alone with the graph still is.
LEMMA InsertTransitionsMaps ==
    ASSUME TypeOK, MapInv, NEW j \in 1..MaxJobs, InsertTransitions(j) PROVE MapInv'
<1>1. /\ j \in Running /\ edges' = edges /\ loose' = loose /\ jobs' = jobs
      /\ txn[j].at = "deleting"
      /\ txn' = [txn EXCEPT ![j] = [txn[j] EXCEPT !.at = "replaced"]]
  BY DEF InsertTransitions, At, Goto, rows, history
<1>2. DOMAIN txn[j] = DOMAIN NoTxn /\ j \in DOMAIN txn
  BY DEF TypeOK
<1>3. /\ txn' = [txn EXCEPT ![j] = txn'[j]] /\ txn'[j].at = "replaced"
      /\ txn'[j].graph = txn[j].graph /\ txn'[j].flows = txn[j].flows
      /\ txn'[j].snap = txn[j].snap /\ txn'[j].analysis = txn[j].analysis
  BY <1>1, <1>2 DEF NoTxn
<1> QED BY <1>1, <1>3, StageMaps

\* Of the transitions of one trigger infer_transitions keeps the first.
LEMMA InferMaps ==
    ASSUME RowsSafe, MapInv, NEW j \in 1..MaxJobs, Infer(j) PROVE MapInv'
<1>1. TypeOK /\ TxnFits
  BY DEF RowsSafe
<1>2. /\ j \in Running /\ UNCHANGED <<rows, jobs, uploads, history>>
      /\ txn' = [txn EXCEPT ![j] = txn'[j]] /\ txn'[j].at = "inferred"
      /\ \A d, e \in txn'[j].graph : d.trigger = e.trigger => d.to = e.to
  BY <1>1, Inferred
<1>3. edges' = edges /\ loose' = loose
  BY <1>2 DEF rows, history
<1>4. Running' = Running /\ Running \subseteq 1..MaxJobs /\ DOMAIN txn = 1..MaxJobs
  BY <1>1, <1>2, RunningJobs DEF Running, TypeOK
<1>5. \A k \in Running' \ {j} : txn'[k] = txn[k]
  BY <1>2, <1>4
<1> QED BY <1>1, <1>2, <1>3, <1>4, <1>5, TxnMaps DEF Written

\* Nobody else has written the rows, so nobody else has their roles.
LEMMA SaveScreenRolesMaps ==
    ASSUME TypeOK, MapInv, NEW j \in 1..MaxJobs, SaveScreenRoles(j) PROVE MapInv'
<1> DEFINE an  == Over(txn[j].flows, txn[j].analysis)
           new == [txn[j] EXCEPT !.at = "saved", !.analysis = an]
<1>1. /\ j \in Running /\ edges' = edges /\ loose' = loose /\ jobs' = jobs
      /\ Unlocked(j, DOMAIN txn[j].flows) /\ txn' = [txn EXCEPT ![j] = new]
  BY DEF SaveScreenRoles, At, Goto, rows, history
<1>2. DOMAIN txn[j].flows \subseteq DOMAIN an
  BY DEF Over
<1> HIDE DEF an
<1>3. DOMAIN txn[j] = DOMAIN NoTxn /\ j \in DOMAIN txn
  BY DEF TypeOK
<1>4. /\ new.at = "saved" /\ new.analysis = an
      /\ new.flows = txn[j].flows /\ new.graph = txn[j].graph
  BY <1>3 DEF NoTxn
<1> HIDE DEF new
<1>5. txn'[j] = new
  BY <1>1, <1>3
<1>6. Running' = Running /\ DOMAIN txn = 1..MaxJobs /\ Running \subseteq 1..MaxJobs
  BY <1>1, RunningJobs DEF Running, TypeOK
<1>7. \A k \in Running \ {j} : txn'[k] = txn[k]
  BY <1>1, <1>6
<1>8. ASSUME NEW k \in Running \ {j}, txn[k].at \in Written
      PROVE  DOMAIN txn'[j].flows \cap DOMAIN txn[k].flows = {}
  <2>1. DOMAIN txn[k].flows \subseteq DOMAIN txn[k].analysis
    BY <1>8 DEF MapInv, FlowsLocked, Written
  <2>2. DOMAIN txn[k].analysis \cap DOMAIN txn[j].flows = {}
    BY <1>1, <1>8 DEF Unlocked, Others
  <2> QED BY <1>4, <1>5, <2>1, <2>2
<1>9. \A d, e \in txn'[j].graph : d.trigger = e.trigger => d.to = e.to
  BY <1>1, <1>4, <1>5 DEF MapInv, GraphsAreMaps
<1>10. txn'[j].at = "saved" /\ DOMAIN txn'[j].flows \subseteq DOMAIN txn'[j].analysis
  BY <1>2, <1>4, <1>5
<1> QED BY <1>1, <1>6, <1>7, <1>8, <1>9, <1>10, TxnMaps

\* An import that begins has no part in the graph.
LEMMA LoadPrototypeMaps ==
    ASSUME TypeOK, MapInv, NEW j \in 1..MaxJobs, LoadPrototype(j) PROVE MapInv'
<1>1. edges' = edges /\ loose' = loose /\ Waiting(j)
  BY DEF LoadPrototype, rows, history
<1>2. PICK file \in Parsed :
        Begin(j, [NoTxn EXCEPT !.at = "importing", !.file = file,
                               !.own = [i \in Made \ Screenshots |-> screens[i].analysis]])
  BY DEF LoadPrototype
<1> DEFINE own == [i \in Made \ Screenshots |-> screens[i].analysis]
           new == [NoTxn EXCEPT !.at = "importing", !.file = file, !.own = own]
<1>3. jobs' = [jobs EXCEPT ![j].status = "RUNNING"] /\ txn' = [txn EXCEPT ![j] = new]
  BY <1>2 DEF Begin, Goto
<1> HIDE DEF own
<1>4. new.graph = {} /\ new.at = "importing"
  BY DEF NoTxn
<1> HIDE DEF new
<1>5. Running' = Running \cup {j}
  BY <1>1, <1>3, JobBegins
<1>6. txn'[j] = new /\ \A k \in Running' \ {j} : txn'[k] = txn[k]
  BY <1>3, <1>5, RunningJobs DEF TypeOK
<1>7. txn'[j].graph = {} /\ txn'[j].at = "importing"
  BY <1>4, <1>6
<1> QED BY <1>1, <1>5, <1>6, <1>7, TxnMaps DEF Written

\* A step of an import that is not through with its screens.
LEMMA ImportingMaps ==
    ASSUME RowsSafe, MapInv, NEW j \in 1..MaxJobs,
           InsertScreen(j) \/ ClearElements(j) \/ ReplaceElements(j)
    PROVE  MapInv'
<1>1. TypeOK /\ TxnFits /\ IdsApart
  BY DEF RowsSafe
<1>2. /\ j \in Running /\ txn[j].at \in {"importing", "clearing"}
      /\ edges' = edges /\ loose' = loose /\ jobs' = jobs /\ txn' = [txn EXCEPT ![j] = txn'[j]]
  BY <1>1, ScreenInserted, ElementsCleared, ElementsReplaced DEF rows, history
<1>3. txn[j].graph = {}
  BY <1>1, <1>2, Importing
<1>4. txn'[j].at \notin Written /\ txn'[j].graph = {}
  <2>1. CASE InsertScreen(j)
    BY <1>1, <2>1, ScreenInserted DEF Written
  <2>2. CASE ClearElements(j)
    <3>1. txn'[j].at = "clearing" /\ \A f \in DOMAIN NoTxn \ {"at", "now", "seen"} : txn'[j][f] = txn[j][f]
      BY <1>1, <2>2, ElementsCleared
    <3>2. "graph" \in DOMAIN NoTxn \ {"at", "now", "seen"}
      BY DEF NoTxn
    <3> QED BY <1>3, <3>1, <3>2 DEF Written
  <2>3. CASE ReplaceElements(j)
    BY <1>1, <2>3, ElementsReplaced DEF Written
  <2> QED BY <2>1, <2>2, <2>3
<1> QED BY <1>1, <1>2, <1>3, <1>4, StageMaps

\* A hotspot leads to one screen.
LEMMA ResolveHotspotsMaps ==
    ASSUME RowsSafe, MapInv, NEW j \in 1..MaxJobs, ResolveHotspots(j) PROVE MapInv'
<1>1. TypeOK /\ TxnFits /\ IdsApart
  BY DEF RowsSafe
<1>2. /\ j \in Running /\ edges' = edges /\ loose' = loose /\ jobs' = jobs
      /\ txn' = [txn EXCEPT ![j] = txn'[j]] /\ txn'[j].at = "saved"
      /\ txn'[j].flows = txn[j].flows /\ DOMAIN txn[j].flows = {}
      /\ \A d, e \in txn'[j].graph : d.trigger = e.trigger => d.to = e.to
  BY <1>1, HotspotsResolved DEF rows, history
<1>3. Running' = Running /\ \A k \in Running' \ {j} : txn'[k] = txn[k]
  BY <1>1, <1>2, JobsStay
<1>4. /\ DOMAIN txn'[j].flows \subseteq DOMAIN txn'[j].analysis
      /\ \A k \in Running' \ {j} : DOMAIN txn'[j].flows \cap DOMAIN txn[k].flows = {}
  BY <1>2
<1> QED BY <1>1, <1>2, <1>3, <1>4, TxnMaps

\* Whoever starts to replace the graph has waited for everybody who was replacing it
\* and had a role to write in common; the others make it "loose".
LEMMA DeleteTransitionsMaps ==
    ASSUME TypeOK, MapInv, NEW j \in 1..MaxJobs, DeleteTransitions(j) PROVE MapInv'
<1>1. /\ j \in Running /\ edges' = edges /\ jobs' = jobs /\ txn[j].at = "saved"
      /\ txn' = [txn EXCEPT ![j] = [txn[j] EXCEPT !.at = "deleting", !.snap = edges]]
      /\ loose' = (loose \/ \E k \in Others(j) :
                     /\ txn[k].at \in {"deleting", "replaced"}
                     /\ DOMAIN txn[k].flows \cap DOMAIN txn[j].flows = {})
  BY DEF DeleteTransitions, At, Goto, rows
<1>2. DOMAIN txn[j] = DOMAIN NoTxn /\ j \in DOMAIN txn
  BY DEF TypeOK
<1>3. /\ txn'[j].at = "deleting" /\ txn'[j].snap = edges
      /\ txn'[j].graph = txn[j].graph /\ txn'[j].flows = txn[j].flows
      /\ txn'[j].analysis = txn[j].analysis
  BY <1>1, <1>2 DEF NoTxn
<1>4. Running' = Running /\ DOMAIN txn = 1..MaxJobs /\ Running \subseteq 1..MaxJobs
  BY <1>1, RunningJobs DEF Running, TypeOK
<1>5. \A k \in Running \ {j} : txn'[k] = txn[k]
  BY <1>1, <1>4
<1>6. \A k \in Running : /\ txn'[k].graph = txn[k].graph /\ txn'[k].flows = txn[k].flows
                         /\ txn'[k].analysis = txn[k].analysis
                         /\ txn'[k].at \in Written <=> txn[k].at \in Written
  BY <1>1, <1>3, <1>5 DEF Written
<1>7. FlowsLocked'
  <2>1. \A k \in Running : txn[k].at \in Written =>
          /\ DOMAIN txn[k].flows \subseteq DOMAIN txn[k].analysis
          /\ \A m \in Running \ {k} : txn[m].at \in Written
                                        => DOMAIN txn[k].flows \cap DOMAIN txn[m].flows = {}
    BY DEF MapInv, FlowsLocked, Others, Written
  <2> QED BY <1>4, <1>6, <2>1 DEF FlowsLocked, Others, Written
<1>8. GraphsAreMaps'
  BY <1>4, <1>6 DEF MapInv, GraphsAreMaps
<1>9. loose => loose' /\ OneDestination'
  BY <1>1 DEF MapInv, OneDestination
<1>10. OneReplaces'
  <2> SUFFICES ASSUME ~ loose' PROVE \A k \in Replacing' : txn'[k].snap = edges' /\ Replacing' = {k}
    BY DEF OneReplaces
  <2>1. \A k \in Running \ {j} : txn[k].at \notin {"deleting", "replaced"}
    BY <1>1 DEF MapInv, FlowsLocked, Others
  <2>2. Replacing' = {j}
    BY <1>1, <1>3, <1>4, <1>5, <2>1 DEF Replacing
  <2> QED BY <1>1, <1>3, <2>2
<1>11. OneDestination'
  BY <1>1 DEF MapInv, OneDestination
<1> QED BY <1>7, <1>8, <1>10, <1>11 DEF MapInv

\* Whoever was alone with the graph replaces all of it.
LEMMA CommitMaps == ASSUME RowsSafe, MapInv, NEW j \in 1..MaxJobs, Commit(j) PROVE MapInv'
<1>1. TypeOK /\ TxnFits
  BY DEF RowsSafe
<1>2. /\ j \in Running /\ Running' = Running \ {j} /\ loose' = loose
      /\ \A k \in 1..MaxJobs \ {j} : txn'[k] = txn[k]
  BY <1>1, Committed
<1>3. \A k \in Running' : k # j /\ txn'[k] = txn[k]
  BY <1>1, <1>2, RunningJobs
<1>4. CASE txn[j].at = "ending"
  <2>1. edges' = edges
    BY <1>4, CommittedEdges
  <2> QED BY <1>1, <1>2, <1>3, <2>1, TxnMaps
<1>5. CASE txn[j].at # "ending"
  <2>1. /\ txn[j].at = "replaced"
        /\ edges' = (edges \ txn[j].snap)
             \cup {[from |-> e.from, trigger |-> e.trigger, to |-> e.to, by |-> j] :
                      e \in txn[j].graph}
    BY <1>5, CommittedEdges
  <2>2. FlowsLocked' /\ GraphsAreMaps'
    BY <1>2, <1>3 DEF MapInv, FlowsLocked, GraphsAreMaps, Others
  <2>3. ASSUME ~ loose PROVE txn[j].snap = edges /\ Replacing' = {}
    <3>1. txn[j].snap = edges /\ Replacing = {j}
      BY <1>2, <2>1, <2>3 DEF MapInv, OneReplaces, Replacing
    <3>2. Replacing' \subseteq Replacing \ {j}
      BY <1>2, <1>3 DEF Replacing
    <3> QED BY <3>1, <3>2
  <2>4. OneReplaces'
    BY <1>2, <2>3 DEF OneReplaces
  <2>5. ASSUME ~ loose, NEW t \in edges', NEW u \in edges', t.trigger = u.trigger PROVE t.to = u.to
    <3>1. PICK d \in txn[j].graph :
            t = [from |-> d.from, trigger |-> d.trigger, to |-> d.to, by |-> j]
      BY <2>1, <2>3, <2>5
    <3>2. PICK e \in txn[j].graph :
            u = [from |-> e.from, trigger |-> e.trigger, to |-> e.to, by |-> j]
      BY <2>1, <2>3, <2>5
    <3> QED BY <1>2, <2>5, <3>1, <3>2 DEF MapInv, GraphsAreMaps
  <2>6. OneDestination'
    BY <1>2, <2>5 DEF OneDestination
  <2> QED BY <2>2, <2>4, <2>6 DEF MapInv
<1> QED BY <1>4, <1>5

\* Every step keeps the graph a map, or the job that replaces it alone.
LEMMA MapStep == ASSUME RowsSafe, MapInv, [Next]_vars PROVE MapInv'
<1>1. CASE UNCHANGED vars
  BY <1>1, SameMaps DEF vars, Running
<1>2. CASE \E c \in Clients : UploadStep(c)
  BY <1>2, UploadMaps DEF RowsSafe
<1>3. CASE RequestAnalysis
  BY <1>3, RequestAnalysisMaps DEF RowsSafe
<1>4. CASE \E j \in 1..MaxJobs : JobStep(j)
  BY <1>4, HandlerRaisesMaps, LoadMaps, AnalyzeMaps, StopEarlyMaps, InferMaps,
     SaveScreenRolesMaps, LoadPrototypeMaps, ImportingMaps, ResolveHotspotsMaps, DeleteTransitionsMaps, InsertTransitionsMaps,
     CommitMaps DEF JobStep, RowsSafe
<1> QED BY <1>1, <1>2, <1>3, <1>4 DEF Next

\* No element leads to two screens unless two jobs have replaced the graph at once
\* without a role to write in common: the rows of screens that save_screen_roles
\* changes are the lock under which the transitions are replaced.
\* (analyze_stimulus.py:126-134, 306-324)
THEOREM OneDestinationSafe == Spec => []OneDestination
<1>1. Init => RowsSafe /\ ReplacedOnce /\ MapInv
  BY InitRows, InitOnce, InitMap
<1>2. RowsSafe /\ ReplacedOnce /\ MapInv /\ [Next]_vars => (RowsSafe /\ ReplacedOnce /\ MapInv)'
  BY RowsStep, OnceStep, MapStep
<1>3. MapInv => OneDestination
  BY DEF MapInv
<1> QED BY <1>1, <1>2, <1>3, PTL DEF Spec

-----------------------------------------------------------------------------
(* Somebody infers the graph. *)

\* What is read is not unread.
LEMMA ReadIsNotUnread == ASSUME NEW a, Read(a) PROVE a # Unanalyzed
  BY DEF Read, Unanalyzed

\* What is there has been read, and there are no jobs.
LEMMA InitInfers == ASSUME Init PROVE InferInv
<1>1. PICK n \in {0, MaxScreens}, found \in Findings \ {<<>>} :
        screens = [i \in 1..n |->
          [key |-> i, seen |-> 1..(i - 1), analysis |-> [source |-> "vision", flow |-> None],
           elements |-> [k \in DOMAIN found |-> ElementRow(i, found[k], 0)]]]
  BY DEF Init
<1>2. \A i \in Made : Read(screens[i].analysis)
  BY <1>1 DEF Made, Read
<1>3. \A i \in Made : i \notin Unread
  BY <1>2, ReadIsNotUnread DEF Unread
<1>4. jobs = <<>> /\ Running = {} /\ DOMAIN jobs = {}
  BY DEF Init, Running
<1> QED BY <1>2, <1>3, <1>4 DEF InferInv, AnalysesFit, LeftToOthers, SomebodyWill

\* What InferInv says while no prototype is there.
LEMMA Infers ==
    ASSUME InferInv, ~ prototype
    PROVE  /\ \A j \in DOMAIN jobs : jobs[j].screen # None
           /\ AnalysesFit
           /\ ~ missed => LeftToOthers /\ (~ overtaken => SomebodyWill)
  BY DEF InferInv

\* A job that has looked, and whose screen is unread, has written an analysis.
LEMMA HasWritten ==
    ASSUME NEW k, SessionFits(k), jobs[k].screen \in Unread, txn[k].at # "loaded"
    PROVE  jobs[k].screen \in DOMAIN txn[k].analysis
  BY DEF SessionFits

\* A step of one transaction, the rows of screens being as they were.
LEMMA TxnInfers ==
    ASSUME TypeOK, InferInv, ~ prototype, NEW j \in DOMAIN jobs,
           UNCHANGED <<prototype, screens, covered, overtaken>>, missed => missed',
           DOMAIN jobs' = DOMAIN jobs,
           \A k \in DOMAIN jobs : /\ jobs'[k].screen = jobs[k].screen
                                  /\ k # j => jobs'[k] = jobs[k],
           Running \ {j} \subseteq Running', Running' \subseteq Running \cup {j},
           \A k \in Running \ {j} : txn'[k] = txn[k],
           j \in Running' => SessionFits(j)',
           j \in Running' /\ ~ missed' /\ jobs[j].screen \in Unread =>
             /\ txn'[j].at = "ending" =>
                  \/ Made = {jobs[j].screen}
                  \/ \E i \in Made \ {jobs[j].screen} : ToBeRead(i)
             /\ txn'[j].at \in AfterInfer => \A i \in Made \ txn'[j].covers : ToBeRead(i),
           j \in Running' /\ ~ missed' /\ txn'[j].at \notin BeforeLook =>
             \/ j \in Running /\ txn[j].at \notin BeforeLook
             \/ \A k \in Running \ {j} :
                  txn[k].at \notin BeforeLook /\ jobs[k].screen \in Unread
                    => jobs[k].screen = jobs[j].screen,
           Unread = {} /\ Cardinality(Made) >= 2 /\ MayCover(j) => MayCover(j)'
    PROVE  InferInv'
<1>1. Made' = Made /\ Unread' = Unread /\ ~ prototype' /\ overtaken' = overtaken
  BY DEF Made, Unread
<1>2. Running \subseteq DOMAIN jobs /\ j \in DOMAIN jobs
  BY RunningJobs
<1>3. AnalysesFit'
  <2>1. \A i \in Made : /\ i \notin Unread => Read(screens[i].analysis)
                        /\ screens[i].elements # <<>> => i \notin Unread
    BY Infers DEF AnalysesFit
  <2>2. ASSUME NEW k \in Running', k # j PROVE SessionFits(k)'
    <3>1. SessionFits(k) /\ txn'[k] = txn[k] /\ jobs'[k] = jobs[k]
      BY <1>2, <2>2, Infers DEF AnalysesFit
    <3> QED BY <1>1, <3>1 DEF SessionFits
  <2> QED BY <1>1, <2>1, <2>2 DEF AnalysesFit
<1>4. ASSUME ~ missed', NEW k \in Running \cup {j}, NEW i \in Unread, ToBeRead(i),
             i # jobs[k].screen, jobs[k].screen \in Unread,
             k # j => txn[k].at \notin BeforeLook
      PROVE  ToBeRead(i)'
  <2>1. ASSUME NEW m \in Running', jobs[m].screen = i PROVE txn'[m].at \in BeforeLook
    <3>1. CASE m # j
      BY <1>4, <2>1, <3>1 DEF ToBeRead
    <3>2. CASE m = j
      BY <1>4, <2>1, <3>2 DEF ToBeRead
    <3> QED BY <3>1, <3>2
  <2>2. \A m \in Running' : jobs'[m].screen = jobs[m].screen
    BY <1>2
  <2> QED BY <1>1, <1>4, <2>1, <2>2 DEF ToBeRead
<1>5. ASSUME ~ missed' PROVE LeftToOthers'
  <2> SUFFICES ASSUME NEW k \in Running', jobs'[k].screen \in Unread' PROVE Leaves(k)'
    BY DEF LeftToOthers
  <2>1. k \in DOMAIN jobs /\ jobs'[k].screen = jobs[k].screen /\ jobs[k].screen \in Unread
    BY <1>1, <1>2
  <2>2. SessionFits(k)'
    BY <1>3 DEF AnalysesFit
  <2>3. /\ txn'[k].at = "ending" =>
             \/ Made = {jobs[k].screen}
             \/ \E i \in Made \ {jobs[k].screen} : ToBeRead(i)
        /\ txn'[k].at \in AfterInfer => \A i \in Made \ txn'[k].covers : ToBeRead(i)
    <3>1. CASE k = j
      BY <1>5, <2>1, <3>1
    <3>2. CASE k # j
      <4>1. k \in Running /\ txn'[k] = txn[k] /\ LeftToOthers
        BY <1>5, <3>2, Infers
      <4> QED BY <2>1, <4>1 DEF LeftToOthers, Leaves
    <3> QED BY <3>1, <3>2
  <2>4. k # j => txn'[k] = txn[k]
    OBVIOUS
  <2>5. BeforeLook \cap AfterInfer = {} /\ "ending" \notin BeforeLook
    BY DEF BeforeLook, AfterInfer
  <2>6. ASSUME txn'[k].at = "ending" \/ txn'[k].at \in AfterInfer,
               NEW i \in Made \ {jobs[k].screen}, ToBeRead(i)
        PROVE  ToBeRead(i)'
    <3>1. i \in Unread
      BY <2>6 DEF ToBeRead
    <3> QED BY <1>4, <1>5, <2>1, <2>4, <2>5, <2>6, <3>1
  <2>7. txn'[k].at \in AfterInfer => jobs[k].screen \in txn'[k].covers
    BY <2>1, <2>2 DEF SessionFits
  <2> QED BY <1>1, <2>1, <2>3, <2>6, <2>7 DEF Leaves
<1>6. ASSUME ~ missed', ~ overtaken' PROVE SomebodyWill'
  <2> SUFFICES ASSUME Unread = {}, Cardinality(Made) >= 2, jobs' # <<>>
               PROVE  covered' = Made \/ \E k \in DOMAIN jobs' : MayCover(k)'
    BY <1>1 DEF SomebodyWill
  <2>1. covered = Made \/ \E k \in DOMAIN jobs : MayCover(k)
    <3>1. jobs # <<>>
      BY <1>2
    <3> QED BY <1>1, <1>6, <3>1, Infers DEF SomebodyWill
  <2>2. ASSUME NEW k \in DOMAIN jobs, k # j, MayCover(k) PROVE MayCover(k)'
    BY <1>1, <2>2 DEF MayCover
  <2> QED BY <2>1, <2>2
<1> QED BY <1>1, <1>2, <1>3, <1>5, <1>6, Infers DEF InferInv

\* What the transaction has read and written stays; it goes on towards its commit.
LEMMA StageInfers ==
    ASSUME TypeOK, InferInv, ~ prototype, NEW j \in Running,
           UNCHANGED <<prototype, screens, covered, overtaken, missed, jobs>>,
           txn' = [txn EXCEPT ![j] = txn'[j]],
           txn[j].at \in AfterInfer, txn'[j].at \in AfterInfer,
           txn'[j].own = txn[j].own, txn'[j].flows = txn[j].flows,
           txn'[j].covers = txn[j].covers,
           DOMAIN txn[j].analysis \subseteq DOMAIN txn'[j].analysis,
           \A i \in DOMAIN txn'[j].analysis :
             \/ i \in DOMAIN txn[j].analysis /\ txn'[j].analysis[i] = txn[j].analysis[i]
             \/ i \in DOMAIN txn[j].flows /\ txn'[j].analysis[i] = txn[j].flows[i]
    PROVE  InferInv'
<1>1. Running' = Running /\ j \in DOMAIN jobs /\ DOMAIN txn = 1..MaxJobs /\ Running \subseteq 1..MaxJobs
  BY RunningJobs DEF Running, TypeOK
<1>2. \A k \in Running \ {j} : txn'[k] = txn[k]
  BY <1>1
<1>3. Unread' = Unread /\ Made' = Made
  BY DEF Unread, Made
<1>4. "loaded" \notin AfterInfer /\ "ending" \notin AfterInfer /\ BeforeLook \cap AfterInfer = {}
  BY DEF AfterInfer, BeforeLook
<1>5. SessionFits(j)'
  <2>1. SessionFits(j)
    BY Infers DEF AnalysesFit
  <2> QED BY <1>3, <1>4, <2>1 DEF SessionFits
<1>6. ASSUME ~ missed', jobs[j].screen \in Unread
      PROVE  \A i \in Made \ txn'[j].covers : ToBeRead(i)
  BY <1>6, Infers DEF LeftToOthers, Leaves
<1>7. MayCover(j) => MayCover(j)'
  <2>1. jobs[j].status = "RUNNING"
    BY DEF Running
  <2> QED BY <1>1, <1>3, <1>4, <2>1 DEF MayCover
<1>8. txn[j].at \notin BeforeLook /\ txn'[j].at # "ending"
  BY <1>4
<1> QED BY <1>1, <1>2, <1>5, <1>6, <1>7, <1>8, TxnInfers

\* The job goes on with what it has inferred.
LEMMA DeleteTransitionsInfers ==
    ASSUME TypeOK, InferInv, ~ prototype, NEW j \in 1..MaxJobs, DeleteTransitions(j) PROVE InferInv'
<1>1. /\ j \in Running /\ txn[j].at = "saved"
      /\ UNCHANGED <<prototype, screens, covered, overtaken, missed, jobs>>
      /\ txn' = [txn EXCEPT ![j] = [txn[j] EXCEPT !.at = "deleting", !.snap = edges]]
  BY DEF DeleteTransitions, At, Goto, rows
<1>2. DOMAIN txn[j] = DOMAIN NoTxn /\ j \in DOMAIN txn
  BY DEF TypeOK
<1>3. /\ txn' = [txn EXCEPT ![j] = txn'[j]] /\ txn'[j].at = "deleting"
      /\ txn'[j].own = txn[j].own /\ txn'[j].flows = txn[j].flows
      /\ txn'[j].covers = txn[j].covers /\ txn'[j].analysis = txn[j].analysis
  BY <1>1, <1>2 DEF NoTxn
<1>4. txn[j].at \in AfterInfer /\ txn'[j].at \in AfterInfer
  BY <1>1, <1>3 DEF AfterInfer
<1> QED BY <1>1, <1>3, <1>4, StageInfers

\* So it does when the DELETE is through.
LEMMA InsertTransitionsInfers ==
    ASSUME TypeOK, InferInv, ~ prototype, NEW j \in 1..MaxJobs, InsertTransitions(j) PROVE InferInv'
<1>1. /\ j \in Running /\ txn[j].at = "deleting"
      /\ UNCHANGED <<prototype, screens, covered, overtaken, missed, jobs>>
      /\ txn' = [txn EXCEPT ![j] = [txn[j] EXCEPT !.at = "replaced"]]
  BY DEF InsertTransitions, At, Goto, rows, history
<1>2. DOMAIN txn[j] = DOMAIN NoTxn /\ j \in DOMAIN txn
  BY DEF TypeOK
<1>3. /\ txn' = [txn EXCEPT ![j] = txn'[j]] /\ txn'[j].at = "replaced"
      /\ txn'[j].own = txn[j].own /\ txn'[j].flows = txn[j].flows
      /\ txn'[j].covers = txn[j].covers /\ txn'[j].analysis = txn[j].analysis
  BY <1>1, <1>2 DEF NoTxn
<1>4. txn[j].at \in AfterInfer /\ txn'[j].at \in AfterInfer
  BY <1>1, <1>3 DEF AfterInfer
<1> QED BY <1>1, <1>3, <1>4, StageInfers

\* The roles are those of screens that are read, or of its own.
LEMMA SaveScreenRolesInfers ==
    ASSUME TypeOK, InferInv, ~ prototype, NEW j \in 1..MaxJobs, SaveScreenRoles(j) PROVE InferInv'
<1> DEFINE an  == Over(txn[j].flows, txn[j].analysis)
           new == [txn[j] EXCEPT !.at = "saved", !.analysis = an]
<1>1. /\ j \in Running /\ txn[j].at = "inferred"
      /\ UNCHANGED <<prototype, screens, covered, overtaken, missed, jobs>>
      /\ txn' = [txn EXCEPT ![j] = new]
  BY DEF SaveScreenRoles, At, Goto, rows, history
<1>2. /\ DOMAIN txn[j].analysis \subseteq DOMAIN an
      /\ \A i \in DOMAIN an : \/ i \in DOMAIN txn[j].analysis /\ an[i] = txn[j].analysis[i]
                              \/ i \in DOMAIN txn[j].flows /\ an[i] = txn[j].flows[i]
  BY DEF Over
<1> HIDE DEF an
<1>3. DOMAIN txn[j] = DOMAIN NoTxn /\ j \in DOMAIN txn
  BY DEF TypeOK
<1>4. /\ new.at = "saved" /\ new.own = txn[j].own /\ new.flows = txn[j].flows
      /\ new.covers = txn[j].covers /\ new.analysis = an
  BY <1>3 DEF NoTxn
<1> HIDE DEF new
<1>5. txn'[j] = new /\ txn' = [txn EXCEPT ![j] = txn'[j]]
  BY <1>1, <1>3
<1>6. txn[j].at \in AfterInfer /\ txn'[j].at \in AfterInfer
  BY <1>1, <1>4, <1>5 DEF AfterInfer
<1>7. /\ txn'[j].own = txn[j].own /\ txn'[j].flows = txn[j].flows
      /\ txn'[j].covers = txn[j].covers
  BY <1>4, <1>5
<1>8. /\ DOMAIN txn[j].analysis \subseteq DOMAIN txn'[j].analysis
      /\ \A i \in DOMAIN txn'[j].analysis :
           \/ i \in DOMAIN txn[j].analysis /\ txn'[j].analysis[i] = txn[j].analysis[i]
           \/ i \in DOMAIN txn[j].flows /\ txn'[j].analysis[i] = txn[j].flows[i]
  BY <1>2, <1>4, <1>5
<1>9. txn' = [txn EXCEPT ![j] = txn'[j]]
  BY <1>5
<1> QED BY <1>1, <1>6, <1>7, <1>8, <1>9, StageInfers

\* A job that begins has still to look.
LEMMA LoadInfers ==
    ASSUME TypeOK, InferInv, ~ prototype, NEW j \in 1..MaxJobs, Load(j) PROVE InferInv'
<1> DEFINE own == jobs[j].screen
           new == [NoTxn EXCEPT !.at = "loaded", !.own = screens[own]]
<1>1. /\ Waiting(j) /\ own # None
      /\ UNCHANGED <<prototype, screens, covered, overtaken, missed>>
      /\ jobs' = [jobs EXCEPT ![j].status = "RUNNING"] /\ txn' = [txn EXCEPT ![j] = new]
  BY DEF Load, Begin, Goto, rows
<1>2. /\ DOMAIN new.analysis = {} /\ DOMAIN new.flows = {} /\ new.own = screens[own]
      /\ new.at = "loaded"
  BY DEF NoTxn
<1> HIDE DEF new
<1>3. /\ Running' = Running \cup {j} /\ DOMAIN jobs' = DOMAIN jobs /\ j \in DOMAIN jobs
      /\ \A k \in DOMAIN jobs : jobs'[k].screen = jobs[k].screen /\ (k # j => jobs'[k] = jobs[k])
  BY <1>1, JobBegins
<1>4. txn'[j] = new /\ \A k \in Running \ {j} : txn'[k] = txn[k]
  BY <1>1, RunningJobs DEF TypeOK
<1>5. own \in Made /\ Made' = Made /\ Unread' = Unread
  BY <1>1, <1>3 DEF TypeOK, Screenshots, Made, Unread
<1>6. /\ own \notin Unread => Read(screens[own].analysis)
      /\ screens[own].elements # <<>> => own \notin Unread
      /\ own \in Unread <=> screens[own].analysis = Unanalyzed
  BY <1>5, Infers DEF AnalysesFit, Unread
<1>7. "loaded" \in BeforeLook /\ "loaded" \notin AfterInfer
  BY DEF BeforeLook, AfterInfer
<1>8. SessionFits(j)'
  BY <1>2, <1>3, <1>4, <1>5, <1>6, <1>7 DEF SessionFits
<1>9. MayCover(j)'
  BY <1>2, <1>3, <1>4, <1>7 DEF MayCover
<1> QED BY <1>1, <1>2, <1>3, <1>4, <1>7, <1>8, <1>9, TxnInfers

\* A job that has found no elements writes an analysis of its own screen.
LEMMA AnalyzeInfers ==
    ASSUME TypeOK, TxnFits, InferInv, ~ prototype, NEW j \in 1..MaxJobs, Analyze(j) PROVE InferInv'
<1> DEFINE own == jobs[j].screen
<1>1. /\ j \in Running /\ txn[j].at = "loaded" /\ j \in DOMAIN jobs
      /\ UNCHANGED <<prototype, screens, covered, overtaken, missed, jobs>>
  BY RunningJobs DEF Analyze, At, rows, history
<1>2. DOMAIN txn[j] = DOMAIN NoTxn /\ j \in DOMAIN txn
  BY DEF TypeOK
<1>3. DOMAIN txn[j].analysis = {} /\ DOMAIN txn[j].flows = {} /\ SessionFits(j)
  BY <1>1, Infers DEF AnalysesFit, TxnFits, ReadingFits
<1>4. /\ txn' = [txn EXCEPT ![j] = txn'[j]] /\ txn'[j].at = "analyzed"
      /\ txn'[j].own = txn[j].own /\ txn'[j].flows = txn[j].flows
      /\ txn[j].own.elements = <<>> => own \in DOMAIN txn'[j].analysis
      /\ \A i \in DOMAIN txn'[j].analysis : i = own /\ Read(txn'[j].analysis[i])
  <2>1. CASE txn[j].own.elements # <<>>
    <3> DEFINE new == [txn[j] EXCEPT !.at = "analyzed"]
    <3>1. txn' = [txn EXCEPT ![j] = new]
      BY <2>1 DEF Analyze, Goto
    <3>2. /\ new.at = "analyzed" /\ new.own = txn[j].own /\ new.flows = txn[j].flows
          /\ new.analysis = txn[j].analysis
      BY <1>2 DEF NoTxn
    <3> HIDE DEF new
    <3> QED BY <1>2, <1>3, <2>1, <3>1, <3>2
  <2>2. CASE txn[j].own.elements = <<>>
    <3>1. PICK found \in Findings : SaveScreenAnalysis(j, found)
      BY <2>2 DEF Analyze
    <3> DEFINE an == [k \in {own} |-> [source |-> "vision", flow |-> None]]
               ad == [k \in {own} |-> [n \in DOMAIN found |-> ElementRow(k, found[n], j)]]
               new == [txn[j] EXCEPT !.at = "analyzed", !.analysis = an, !.added = ad]
    <3>2. txn' = [txn EXCEPT ![j] = new]
      BY <3>1 DEF SaveScreenAnalysis, Goto
    <3>3. DOMAIN an = {own} /\ \A i \in DOMAIN an : Read(an[i])
      BY DEF Read
    <3> HIDE DEF an, ad
    <3>4. /\ new.at = "analyzed" /\ new.own = txn[j].own /\ new.flows = txn[j].flows
          /\ new.analysis = an
      BY <1>2 DEF NoTxn
    <3> HIDE DEF new
    <3> QED BY <1>2, <3>2, <3>3, <3>4
  <2> QED BY <2>1, <2>2
<1>5. /\ Running' = Running /\ Unread' = Unread /\ Running \subseteq 1..MaxJobs
      /\ DOMAIN txn = 1..MaxJobs
  BY <1>1, RunningJobs DEF Running, Unread, Made, TypeOK
<1>6. \A k \in Running \ {j} : txn'[k] = txn[k]
  BY <1>4, <1>5
<1>7. "analyzed" \in BeforeLook /\ "analyzed" \notin AfterInfer
  BY DEF BeforeLook, AfterInfer
<1>8. SessionFits(j)'
  BY <1>1, <1>3, <1>4, <1>5, <1>7 DEF SessionFits
<1>9. MayCover(j)'
  BY <1>1, <1>4, <1>5, <1>7 DEF MayCover
<1> QED BY <1>1, <1>4, <1>5, <1>6, <1>7, <1>8, <1>9, TxnInfers

\* The job is tried again, or has failed and is not quiet.
LEMMA HandlerRaisesInfers ==
    ASSUME TypeOK, InferInv, ~ prototype, NEW j \in 1..MaxJobs, HandlerRaises(j) PROVE InferInv'
<1>1. /\ j \in Running /\ UNCHANGED <<prototype, screens, covered, overtaken, missed>>
      /\ txn' = [txn EXCEPT ![j] = NoTxn]
      /\ jobs' = [jobs EXCEPT ![j].tries = @ + 1,
                              ![j].status = IF jobs[j].tries + 1 < MaxAttempts THEN "PENDING"
                                                                               ELSE "FAILED"]
  BY DEF HandlerRaises, Goto, rows, history
<1>2. DOMAIN jobs' = DOMAIN jobs /\ \A k \in DOMAIN jobs : k # j => jobs'[k] = jobs[k]
  BY <1>1
<1>3. j \in DOMAIN jobs /\ jobs[j] \in JobRows
  <2>1. jobs \in Seq(JobRows)
    BY DEF TypeOK, JobRows
  <2>2. j \in DOMAIN jobs
    BY <1>1 DEF Running
  <2> QED BY <2>1, <2>2
<1>4. jobs'[j].screen = jobs[j].screen /\ jobs'[j].status \in {"PENDING", "FAILED"}
  BY <1>1, <1>3 DEF JobRows
<1>5. Running' = Running \ {j} /\ MayCover(j)'
  BY <1>2, <1>3, <1>4 DEF Running, MayCover
<1>6. \A k \in Running \ {j} : txn'[k] = txn[k]
  BY <1>1, RunningJobs DEF TypeOK
<1> QED BY <1>1, <1>2, <1>3, <1>4, <1>5, <1>6, TxnInfers

\* The job's own screen is analyzed in its eyes.
LEMMA OwnIsSeen ==
    ASSUME TypeOK, InferInv, ~ prototype, NEW j \in Running, txn[j].at = "analyzed"
    PROVE  /\ jobs[j].screen \in Made /\ AnalysisSeen(j, jobs[j].screen) # Unanalyzed
           /\ \A i \in Made : AnalysisSeen(j, i) = Unanalyzed => i \in Unread \ {jobs[j].screen}
           /\ \A i \in Unread : i # jobs[j].screen => AnalysisSeen(j, i) = Unanalyzed
           /\ \A i \in Made : AnalysisSeen(j, i) # Unanalyzed => Read(AnalysisSeen(j, i))
<1>1. SessionFits(j) /\ j \in DOMAIN jobs
  BY Infers, RunningJobs DEF AnalysesFit
<1>2. jobs[j].screen \in Made
  BY <1>1, Infers DEF TypeOK, Screenshots
<1>3. AnalysisSeen(j, jobs[j].screen) # Unanalyzed
  BY <1>1, ReadIsNotUnread DEF SessionFits, AnalysisSeen
<1>4. ASSUME NEW i \in Made, AnalysisSeen(j, i) = Unanalyzed PROVE i \in Unread \ {jobs[j].screen}
  <2>1. i \notin DOMAIN txn[j].analysis
    BY <1>1, <1>4, ReadIsNotUnread DEF SessionFits, AnalysisSeen
  <2> QED BY <1>3, <1>4, <2>1 DEF AnalysisSeen, Unread
<1>5. ASSUME NEW i \in Unread, i # jobs[j].screen PROVE AnalysisSeen(j, i) = Unanalyzed
  <2>1. i \notin DOMAIN txn[j].analysis
    BY <1>1, <1>5 DEF SessionFits
  <2> QED BY <1>5, <2>1 DEF AnalysisSeen, Unread
<1>6. ASSUME NEW i \in Made, AnalysisSeen(j, i) # Unanalyzed PROVE Read(AnalysisSeen(j, i))
  <2>1. CASE i \in DOMAIN txn[j].analysis
    BY <1>1, <2>1 DEF SessionFits, AnalysisSeen
  <2>2. CASE i \notin DOMAIN txn[j].analysis /\ i = jobs[j].screen
    BY <1>1, <1>6, <2>2 DEF SessionFits, AnalysisSeen
  <2>3. CASE i \notin DOMAIN txn[j].analysis /\ i # jobs[j].screen
    BY <1>6, <2>3, Infers DEF AnalysesFit, AnalysisSeen, Unread
  <2> QED BY <2>1, <2>2, <2>3
<1> QED BY <1>2, <1>3, <1>4, <1>5, <1>6

\* A set of fewer than two has no member but the one it is known to have.
LEMMA OnlyMember ==
    ASSUME NEW S, IsFiniteSet(S), NEW x \in S, ~ (Cardinality(S) >= 2) PROVE S = {x}
<1> SUFFICES ASSUME NEW y \in S, y # x PROVE FALSE
  OBVIOUS
<1>1. IsFiniteSet({x}) /\ Cardinality({x}) = 1
  BY FS_Singleton
<1>2. Cardinality({x} \cup {y}) = 2
  BY <1>1, FS_AddElement
<1>3. Cardinality({x} \cup {y}) <= Cardinality(S) /\ Cardinality(S) \in Nat
  BY FS_Subset, FS_CardinalityType
<1> QED BY <1>2, <1>3

\* A job stops early when it sees a screen that is unread, or none but its own.  If
\* somebody else has read a screen and not committed, it has "missed" that.
LEMMA StopEarlyInfers ==
    ASSUME TypeOK, InferInv, ~ prototype, NEW j \in 1..MaxJobs, StopEarly(j) PROVE InferInv'
<1> DEFINE own == jobs[j].screen
           new == [txn[j] EXCEPT !.at = "ending"]
<1>1. /\ j \in Running /\ txn[j].at = "analyzed" /\ ~ Ready(j) /\ j \in DOMAIN jobs
      /\ UNCHANGED <<prototype, screens, covered, overtaken, jobs>>
      /\ txn' = [txn EXCEPT ![j] = new]
      /\ missed' = (missed \/ \E k \in Others(j) : DOMAIN txn[k].analysis # {})
  BY RunningJobs DEF StopEarly, At, Goto, rows
<1>2. DOMAIN txn[j] = DOMAIN NoTxn /\ j \in DOMAIN txn
  BY DEF TypeOK
<1>3. /\ new.at = "ending" /\ new.own = txn[j].own /\ new.flows = txn[j].flows
      /\ new.analysis = txn[j].analysis
  BY <1>2 DEF NoTxn
<1> HIDE DEF new
<1>4. txn'[j] = new /\ \A k \in Running \ {j} : txn'[k] = txn[k]
  BY <1>1, <1>2, RunningJobs DEF TypeOK
<1>5. /\ Running' = Running /\ Unread' = Unread /\ Made' = Made
  BY <1>1 DEF Running, Unread, Made
<1>6. "ending" \notin AfterInfer /\ "ending" \notin BeforeLook /\ "loaded" \in BeforeLook
  BY DEF AfterInfer, BeforeLook
<1>7. SessionFits(j)'
  <2>1. SessionFits(j)
    BY <1>1, Infers DEF AnalysesFit
  <2> QED BY <1>1, <1>3, <1>4, <1>5, <1>6, <2>1 DEF SessionFits
<1>8. ASSUME ~ missed', NEW k \in Running \ {j}, txn[k].at \notin BeforeLook
      PROVE  jobs[k].screen \notin Unread
  <2>1. DOMAIN txn[k].analysis = {}
    BY <1>1, <1>8 DEF Others
  <2>2. SessionFits(k)
    BY Infers DEF AnalysesFit
  <2> QED BY <1>6, <1>8, <2>1, <2>2, HasWritten
<1>9. Made = {own} \/ \E i \in Made \ {own} : i \in Unread
  <2>1. CASE ~ (Cardinality(Made) >= 2)
    BY <1>1, <2>1, OnlyMember, OwnIsSeen, MadeIsFinite
  <2>2. CASE Cardinality(Made) >= 2
    BY <1>1, <2>2, OwnIsSeen DEF Ready
  <2> QED BY <2>1, <2>2
<1>10. ASSUME ~ missed' PROVE Made = {own} \/ \E i \in Made \ {own} : ToBeRead(i)
  <2>1. ASSUME NEW i \in Made \ {own}, i \in Unread PROVE ToBeRead(i)
    BY <1>1, <1>8, <1>10, <2>1 DEF ToBeRead
  <2> QED BY <1>9, <2>1
<1>11. ~ (Unread = {} /\ Cardinality(Made) >= 2)
  <2>1. Cardinality({own}) = 1
    BY FS_Singleton
  <2> QED BY <1>9, <2>1
<1>12. txn'[j].at = "ending"
  BY <1>3, <1>4
<1> QED BY <1>1, <1>4, <1>5, <1>6, <1>7, <1>8, <1>10, <1>11, <1>12, TxnInfers

\* A job infers when all screens are read in its eyes.
LEMMA InferInfers ==
    ASSUME TypeOK, TxnFits, InferInv, ~ prototype, NEW j \in 1..MaxJobs, Infer(j) PROVE InferInv'
<1> DEFINE own == jobs[j].screen
<1>1. /\ j \in Running /\ txn[j].at = "analyzed"
      /\ UNCHANGED <<rows, jobs, uploads, history>>
      /\ txn' = [txn EXCEPT ![j] = txn'[j]]
      /\ txn'[j].at = "inferred" /\ txn'[j].covers = Made
      /\ txn'[j].own = txn[j].own /\ txn'[j].analysis = txn[j].analysis
      /\ DOMAIN txn'[j].flows \subseteq Made
      /\ \A i \in DOMAIN txn'[j].flows : txn'[j].flows[i].source = AnalysisSeen(j, i).source
  BY Inferred
<1>2. \A i \in Made : AnalysisSeen(j, i) # Unanalyzed
  BY DEF Infer, Ready
<1>3. /\ Running' = Running /\ Unread' = Unread /\ Made' = Made /\ j \in DOMAIN jobs
      /\ UNCHANGED <<prototype, screens, covered, overtaken, missed, jobs>>
  BY <1>1, RunningJobs DEF Running, Unread, Made, rows, history
<1>4. \A k \in Running \ {j} : txn'[k] = txn[k]
  BY <1>1, RunningJobs DEF TypeOK
<1>5. "inferred" \in AfterInfer /\ "inferred" \notin BeforeLook
  BY DEF AfterInfer, BeforeLook
<1>6. \A i \in Unread : i = own
  BY <1>1, <1>2, OwnIsSeen DEF Unread
<1>7. \A i \in DOMAIN txn'[j].flows : Read(txn'[j].flows[i])
  BY <1>1, <1>2, OwnIsSeen DEF Read
<1>8. SessionFits(j)'
  <2>1. SessionFits(j) /\ own \in Made
    BY <1>1, Infers, OwnIsSeen DEF AnalysesFit
  <2> QED BY <1>1, <1>3, <1>6, <1>7, <2>1 DEF SessionFits
<1>9. MayCover(j)'
  BY <1>1, <1>3, <1>5 DEF MayCover
<1>10. \A k \in Running \ {j} : jobs[k].screen \in Unread => jobs[k].screen = own
  BY <1>6
<1> QED BY <1>1, <1>3, <1>4, <1>5, <1>8, <1>9, <1>10, TxnInfers

\* New screens are unread, and nobody has begun to read them.
LEMMA UploadCommitInfers ==
    ASSUME RowsSafe, InferInv, ~ prototype, NEW c \in Clients, UploadCommit(c) PROVE InferInv'
<1>1. /\ uploads[c] # <<>> /\ Made' = Made \cup Uploading(c)
      /\ \A i \in Made : screens'[i] = screens[i]
      /\ \A i \in Uploading(c) \ Made : screens'[i].analysis = Unanalyzed /\ screens'[i].elements = <<>>
      /\ UNCHANGED <<prototype, edges, jobs, txn, history>>
  BY DEF UploadCommit, Made
<1>2. TypeOK /\ TxnFits /\ Uploading(c) \cap Made = {}
  BY DEF RowsSafe, IdsApart
<1>3. Uploading(c) # {}
  <2>1. Len(uploads[c]) \in Nat /\ DOMAIN uploads[c] = 1..Len(uploads[c])
    BY <1>2, UploadRows
  <2>2. 1 \in DOMAIN uploads[c]
    <3>1. Len(uploads[c]) # 0
      BY <1>1, <1>2 DEF TypeOK
    <3> QED BY <2>1, <3>1
  <2> QED BY <2>2 DEF Uploading
<1>4. Unread' = Unread \cup Uploading(c)
  BY <1>1, <1>2 DEF Unread
<1>5. /\ Running' = Running /\ Running \subseteq DOMAIN jobs /\ Unread \subseteq Made
      /\ UNCHANGED <<covered, missed, overtaken>>
  BY <1>1, <1>2, RunningJobs DEF Running, Unread, history
<1>6. \A k \in DOMAIN jobs : jobs[k].screen \in Made /\ jobs[k].screen # None
  BY <1>2, Infers DEF TypeOK, Screenshots
<1>7. AnalysesFit'
  <2>1. \A i \in Made' : /\ i \notin Unread' => Read(screens'[i].analysis)
                         /\ screens'[i].elements # <<>> => i \notin Unread'
    BY <1>1, <1>2, <1>4, Infers DEF AnalysesFit
  <2>2. ASSUME NEW k \in Running PROVE SessionFits(k)'
    <3>1. SessionFits(k) /\ jobs[k].screen \in Made
      BY <1>5, <1>6, Infers DEF AnalysesFit
    <3>2. DOMAIN txn[k].flows \subseteq Made /\ DOMAIN txn[k].analysis \subseteq Made
      BY <1>2, <1>5, <1>6 DEF TxnFits, WritesFit, ReadingFits, Visible
    <3> QED BY <1>1, <1>2, <1>4, <3>1, <3>2 DEF SessionFits
  <2> QED BY <1>5, <2>1, <2>2 DEF AnalysesFit
<1>8. \A i : ToBeRead(i) => ToBeRead(i)'
  BY <1>1, <1>4, <1>5 DEF ToBeRead
<1>9. ASSUME NEW i \in Uploading(c) PROVE ToBeRead(i)'
  BY <1>1, <1>2, <1>4, <1>5, <1>6, <1>9 DEF ToBeRead
<1>10. ASSUME ~ missed PROVE LeftToOthers'
  <2> SUFFICES ASSUME NEW k \in Running, jobs[k].screen \in Unread' PROVE Leaves(k)'
    BY <1>1, <1>5 DEF LeftToOthers
  <2>1. jobs[k].screen \in Unread /\ jobs[k].screen \notin Uploading(c)
    BY <1>2, <1>4, <1>5, <1>6
  <2>2. Leaves(k)
    BY <1>10, <2>1, Infers DEF LeftToOthers
  <2>3. txn'[k] = txn[k] /\ jobs'[k] = jobs[k]
    BY <1>1
  <2>4. \E i \in Made' \ {jobs[k].screen} : ToBeRead(i)'
    BY <1>1, <1>3, <1>9, <2>1
  <2> QED BY <1>1, <1>8, <1>9, <2>2, <2>3, <2>4 DEF Leaves
<1>11. SomebodyWill'
  BY <1>3, <1>4 DEF SomebodyWill
<1> QED BY <1>1, <1>5, <1>6, <1>7, <1>10, <1>11 DEF InferInv

\* New jobs may look at everything.
LEMMA RequestAnalysisInfers ==
    ASSUME TypeOK, InferInv, ~ prototype, RequestAnalysis PROVE InferInv'
<1>1. /\ jobs' \in Seq(JobRows) /\ DOMAIN jobs \subseteq DOMAIN jobs'
      /\ \A j \in DOMAIN jobs : jobs'[j] = jobs[j]
      /\ \A j \in DOMAIN jobs' \ DOMAIN jobs :
           jobs'[j].status = "PENDING" /\ jobs'[j].screen # None
      /\ UNCHANGED <<rows, txn, uploads, history>>
  BY RequestedJobs DEF RequestAnalysis
<1>2. /\ Made' = Made /\ Running' = Running /\ Unread' = Unread /\ Running \subseteq DOMAIN jobs
      /\ UNCHANGED <<prototype, screens, covered, missed, overtaken>>
  BY <1>1 DEF Made, Running, Unread, rows, history
<1>3. \A k \in Running : txn'[k] = txn[k] /\ jobs'[k] = jobs[k]
  BY <1>1, <1>2
<1>4. AnalysesFit'
  <2>1. \A k \in Running : SessionFits(k)'
    BY <1>2, <1>3, Infers DEF AnalysesFit, SessionFits
  <2> QED BY <1>2, <2>1, Infers DEF AnalysesFit
<1>5. \A i : ToBeRead(i) => ToBeRead(i)'
  BY <1>2, <1>3 DEF ToBeRead
<1>6. LeftToOthers => LeftToOthers'
  BY <1>2, <1>3, <1>5 DEF LeftToOthers, Leaves
<1>7. SomebodyWill => SomebodyWill'
  <2> SUFFICES ASSUME SomebodyWill, Unread = {}, Cardinality(Made) >= 2, jobs' # <<>>
               PROVE  covered = Made \/ \E j \in DOMAIN jobs' : MayCover(j)'
    BY <1>2 DEF SomebodyWill
  <2>1. CASE jobs = <<>>
    <3>1. Len(jobs') # 0 /\ DOMAIN jobs' = 1..Len(jobs') /\ Len(jobs') \in Nat
      BY <1>1
    <3>2. 1 \in DOMAIN jobs' \ DOMAIN jobs
      BY <2>1, <3>1
    <3>3. MayCover(1)'
      BY <1>1, <3>2 DEF MayCover
    <3> QED BY <3>2, <3>3
  <2>2. CASE jobs # <<>>
    <3>1. covered = Made \/ \E j \in DOMAIN jobs : MayCover(j)
      BY <2>2 DEF SomebodyWill
    <3>2. \A j \in DOMAIN jobs : MayCover(j) => MayCover(j)'
      BY <1>1, <1>2, <1>3 DEF MayCover
    <3> QED BY <1>1, <3>1, <3>2
  <2> QED BY <2>1, <2>2
<1>8. \A j \in DOMAIN jobs' : jobs'[j].screen # None
  BY <1>1, Infers
<1> QED BY <1>2, <1>4, <1>6, <1>7, <1>8, Infers DEF InferInv

\* What a commit does to the history.
LEMMA CommittedCovers ==
    ASSUME NEW j \in 1..MaxJobs, Commit(j)
    PROVE  /\ txn[j].at = "ending" => covered' = covered /\ overtaken' = overtaken
           /\ txn[j].at # "ending" => /\ txn[j].at = "replaced" /\ covered' = txn[j].covers
                                      /\ overtaken \/ ~ covered \subseteq txn[j].covers => overtaken'
           /\ overtaken => overtaken'
  BY DEF Commit

\* A commit reads no screen but the job's own.  If that was the last unread one, the job
\* has covered all of them: what it had left was read, and its readers had missed it.
LEMMA CommitInfers ==
    ASSUME RowsSafe, InferInv, ~ prototype, NEW j \in 1..MaxJobs, Commit(j) PROVE InferInv'
<1> DEFINE own == jobs[j].screen
<1>1. TypeOK /\ TxnFits
  BY DEF RowsSafe
<1>2. /\ j \in Running /\ txn[j].at \in {"ending", "replaced"}
      /\ Made' = Made \cup DOMAIN txn[j].fresh
      /\ \A i \in Made \ DOMAIN txn[j].fresh :
           /\ screens'[i].analysis =
                IF i \in DOMAIN txn[j].flows THEN txn[j].flows[i]
                ELSE IF i \in DOMAIN txn[j].analysis THEN txn[j].analysis[i]
                ELSE screens[i].analysis
           /\ screens'[i].elements = LeftOf(j, i) \o AddedTo(j, i)
           /\ LeftOf(j, i) \in Seq(ElementRows(i)) /\ AddedTo(j, i) \in Seq(ElementRows(i))
      /\ DOMAIN jobs' = DOMAIN jobs /\ Running' = Running \ {j}
      /\ \A k \in DOMAIN jobs : jobs'[k].screen = jobs[k].screen /\ (k # j => jobs'[k] = jobs[k])
      /\ \A k \in 1..MaxJobs \ {j} : txn'[k] = txn[k]
      /\ UNCHANGED <<prototype, missed>>
  BY <1>1, Committed
<1>3. /\ Running \subseteq DOMAIN jobs /\ DOMAIN jobs \subseteq 1..MaxJobs
      /\ \A k \in Running' : k \in Running /\ k # j /\ txn'[k] = txn[k] /\ jobs'[k] = jobs[k]
  BY <1>1, <1>2, RunningJobs
<1>4. own # None /\ WritesFit(j) /\ ReadingFits(j) /\ SessionFits(j)
  BY <1>1, <1>2, <1>3, Infers DEF TxnFits, AnalysesFit
<1>5. DOMAIN txn[j].fresh = {} /\ Made' = Made /\ txn[j].cleared = {} /\ txn[j].covers \subseteq Made
  BY <1>2, <1>4 DEF ReadingFits, WritesFit, Visible
<1>6. ASSUME NEW i \in Made
      PROVE  \/ Read(screens'[i].analysis) /\ (i = own \/ i \notin Unread)
             \/ screens'[i].analysis = screens[i].analysis /\ i \notin DOMAIN txn[j].added
  BY <1>2, <1>4, <1>5 DEF SessionFits, ReadingFits
<1>7. Unread' \subseteq Unread /\ Unread \subseteq Unread' \cup {own}
  <2>1. \A i \in Made : i \in Unread' <=> screens'[i].analysis = Unanalyzed
    BY <1>5 DEF Unread
  <2>2. \A i \in Made : i \in Unread <=> screens[i].analysis = Unanalyzed
    BY DEF Unread
  <2>3. Unread \subseteq Made /\ Unread' \subseteq Made
    BY <1>5 DEF Unread
  <2> QED BY <1>6, <2>1, <2>2, <2>3, ReadIsNotUnread
<1>8. AnalysesFit'
  <2>1. ASSUME NEW i \in Made
        PROVE  /\ i \notin Unread' => Read(screens'[i].analysis)
               /\ screens'[i].elements # <<>> => i \notin Unread'
    <3>1. CASE Read(screens'[i].analysis)
      BY <1>5, <3>1, ReadIsNotUnread DEF Unread
    <3>2. CASE screens'[i].analysis = screens[i].analysis /\ i \notin DOMAIN txn[j].added
      <4>1. screens'[i].elements = screens[i].elements
        BY <1>1, <3>2, CommittedElements DEF RowsSafe
      <4>2. i \in Unread' <=> i \in Unread
        BY <1>5, <3>2 DEF Unread
      <4> QED BY <3>2, <4>1, <4>2, Infers DEF AnalysesFit
    <3> QED BY <1>6, <3>1, <3>2
  <2>2. ASSUME NEW k \in Running' PROVE SessionFits(k)'
    <3>1. SessionFits(k) /\ txn'[k] = txn[k] /\ jobs'[k] = jobs[k]
      BY <1>3, Infers DEF AnalysesFit
    <3> QED BY <1>7, <3>1 DEF SessionFits
  <2> QED BY <1>5, <2>1, <2>2 DEF AnalysesFit
<1>9. "ending" \notin BeforeLook /\ "replaced" \notin BeforeLook /\ "replaced" \in AfterInfer
      /\ "ending" \notin AfterInfer
  BY DEF BeforeLook, AfterInfer
<1>10. ASSUME NEW i, ToBeRead(i) PROVE ToBeRead(i)'
  <2>1. i # own
    BY <1>2, <1>9, <1>10 DEF ToBeRead
  <2>2. i \in Unread'
    BY <1>7, <1>10, <2>1 DEF ToBeRead
  <2> QED BY <1>3, <1>10, <2>2 DEF ToBeRead
<1>11. ASSUME ~ missed PROVE LeftToOthers'
  <2> SUFFICES ASSUME NEW k \in Running', jobs'[k].screen \in Unread' PROVE Leaves(k)'
    BY DEF LeftToOthers
  <2>1. k \in Running /\ txn'[k] = txn[k] /\ jobs'[k] = jobs[k] /\ jobs[k].screen \in Unread
    BY <1>3, <1>7
  <2>2. Leaves(k)
    BY <1>11, <2>1, Infers DEF LeftToOthers
  <2> QED BY <1>5, <1>10, <2>1, <2>2 DEF Leaves
<1>12. ASSUME ~ missed, ~ overtaken' PROVE SomebodyWill'
  <2> SUFFICES ASSUME Unread' = {}, Cardinality(Made) >= 2
               PROVE  covered' = Made \/ \E k \in DOMAIN jobs : MayCover(k)'
    BY <1>2, <1>5 DEF SomebodyWill
  <2>1. Cardinality(Made) >= 2
    OBVIOUS
  <2>2. ~ overtaken
    BY <1>12, CommittedCovers
  <2>3. CASE Unread # {}
    <3>1. Unread = {own}
      BY <1>7, <2>3
    <3>2. Leaves(j) /\ \A i : ToBeRead(i) => i = own
      BY <1>2, <1>12, <3>1, Infers DEF LeftToOthers, ToBeRead
    <3>3. Made # {own}
      <4>1. Cardinality({own}) = 1
        BY FS_Singleton
      <4> QED BY <2>1, <4>1
    <3>4. txn[j].at = "replaced"
      BY <1>2, <3>2, <3>3 DEF Leaves
    <3>5. txn[j].covers = Made
      BY <1>4, <1>5, <1>9, <3>2, <3>4 DEF Leaves, SessionFits
    <3> QED BY <3>4, <3>5, CommittedCovers
  <2>4. CASE Unread = {}
    <3>1. covered = Made \/ \E k \in DOMAIN jobs : MayCover(k)
      <4>1. jobs # <<>>
        BY <1>2, <1>3
      <4> QED BY <1>12, <2>2, <2>4, <4>1, Infers DEF SomebodyWill
    <3>2. ASSUME NEW k \in DOMAIN jobs \ {j}, MayCover(k) PROVE MayCover(k)'
      BY <1>2, <1>3, <1>5, <3>2 DEF MayCover
    <3>3. CASE txn[j].at = "ending"
      <4>1. ~ MayCover(j)
        BY <1>2, <1>9, <3>3 DEF MayCover, Running
      <4>2. covered' = covered
        BY <3>3, CommittedCovers
      <4> QED BY <3>1, <3>2, <4>1, <4>2
    <3>4. CASE txn[j].at = "replaced"
      <4>1. covered' = txn[j].covers /\ covered \subseteq txn[j].covers
        BY <1>12, <3>4, CommittedCovers
      <4>2. CASE txn[j].covers = Made
        BY <4>1, <4>2
      <4>3. CASE txn[j].covers # Made
        <5>1. ~ MayCover(j)
          BY <1>2, <1>9, <3>4, <4>3 DEF MayCover, Running
        <5>2. covered # Made
          BY <1>5, <4>1, <4>3
        <5> QED BY <3>1, <3>2, <5>1, <5>2
      <4> QED BY <4>2, <4>3
    <3> QED BY <1>2, <3>3, <3>4
  <2> QED BY <2>3, <2>4
<1>13. \A k \in DOMAIN jobs' : jobs'[k].screen # None
  BY <1>2, Infers
<1> QED BY <1>2, <1>8, <1>11, <1>12, <1>13 DEF InferInv

\* Every step leaves the graph to somebody, until it is inferred.
LEMMA InferStep == ASSUME RowsSafe, InferInv, [Next]_vars PROVE InferInv'
<1>1. CASE prototype
  <2>1. prototype'
    BY <1>1 DEF Next, UploadStep, UploadFile, UploadCommit, UploadFails, RequestAnalysis,
      JobStep,
       HandlerRaises, Load, Analyze, StopEarly, Infer, SaveScreenRoles, LoadPrototype, InsertScreen,
       ClearElements, ReplaceElements, ResolveHotspots, DeleteTransitions, InsertTransitions, Commit, rows, vars
  <2> QED BY <2>1 DEF InferInv
<1>2. CASE ~ prototype
  <2>1. TypeOK /\ TxnFits
    BY DEF RowsSafe
  <2>2. ASSUME UNCHANGED <<rows, jobs, txn, history>> PROVE InferInv'
    <3>1. /\ Made' = Made /\ Running' = Running /\ Unread' = Unread
          /\ UNCHANGED <<prototype, screens, jobs, txn, covered, missed, overtaken>>
      BY <2>2 DEF Made, Running, Unread, rows, history
    <3>2. (\A k : SessionFits(k)' <=> SessionFits(k)) /\ (\A i : ToBeRead(i)' <=> ToBeRead(i))
      BY <3>1 DEF SessionFits, ToBeRead
    <3>3. (\A k : Leaves(k)' <=> Leaves(k)) /\ (\A k : MayCover(k)' <=> MayCover(k))
      BY <3>1, <3>2 DEF Leaves, MayCover
    <3> QED BY <3>1, <3>2, <3>3 DEF InferInv, AnalysesFit, LeftToOthers, SomebodyWill
  <2>3. CASE UNCHANGED vars
    BY <2>2, <2>3 DEF vars, rows, history
  <2>4. CASE \E c \in Clients : UploadStep(c)
    BY <1>2, <2>2, <2>4, UploadCommitInfers DEF UploadStep, UploadFile, UploadFails
  <2>5. CASE RequestAnalysis
    BY <1>2, <2>1, <2>5, RequestAnalysisInfers
  <2>6. ASSUME NEW j \in 1..MaxJobs
        PROVE  /\ ~ LoadPrototype(j)
               /\ ~ (InsertScreen(j) \/ ClearElements(j) \/ ReplaceElements(j) \/ ResolveHotspots(j))
    <3>1. \A k \in DOMAIN jobs : jobs[k].screen # None
      BY <1>2, Infers
    <3>2. j \in Running => txn[j].at \notin {"importing", "clearing"}
      BY <2>1, <3>1 DEF TxnFits, ReadingFits, Running
    <3> QED BY <3>1, <3>2 DEF LoadPrototype, Waiting, InsertScreen, ClearElements, ReplaceElements,
               ResolveHotspots, At
  <2>7. CASE \E j \in 1..MaxJobs : JobStep(j)
    BY <1>2, <2>1, <2>6, <2>7, HandlerRaisesInfers, LoadInfers, AnalyzeInfers,
      StopEarlyInfers, InferInfers,
       SaveScreenRolesInfers, DeleteTransitionsInfers, InsertTransitionsInfers, CommitInfers DEF JobStep
  <2> QED BY <2>3, <2>4, <2>5, <2>7 DEF Next
<1> QED BY <1>1, <1>2

\* When every job is done and every screen is read, the graph in place is inferred over
\* all of them, unless a job had looked before another's analysis was committed or a
\* graph over fewer screens was the last to be committed: the last analysis to be
\* committed is that of a job that has seen all the others, however jobs are retried and
\* whatever is uploaded meanwhile. (analyze_stimulus.py:281-298, 306-324)
THEOREM SomebodyAlwaysInfers == Spec => []SomebodyInfers
<1>1. Init => RowsSafe /\ ReplacedOnce /\ InferInv
  BY InitRows, InitOnce, InitInfers
<1>2. RowsSafe /\ ReplacedOnce /\ InferInv /\ [Next]_vars => (RowsSafe /\ ReplacedOnce /\ InferInv)'
  BY RowsStep, OnceStep, InferStep
<1>3. RowsSafe /\ InferInv => SomebodyInfers
  <2> SUFFICES ASSUME RowsSafe, InferInv, Quiet, ~ missed, ~ overtaken, ~ prototype, jobs # <<>>,
                      Cardinality(Made) >= 2, \A i \in Made : screens[i].analysis # Unanalyzed
               PROVE  covered = Made
    BY DEF SomebodyInfers
  <2>1. Unread = {}
    BY DEF Unread
  <2>2. \A j \in DOMAIN jobs : ~ MayCover(j)
    BY DEF Quiet, MayCover, Running
  <2> QED BY <2>1, <2>2, Infers DEF SomebodyWill
<1> QED BY <1>1, <1>2, <1>3, PTL DEF Spec
=============================================================================
