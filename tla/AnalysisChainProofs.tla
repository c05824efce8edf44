------------------------- MODULE AnalysisChainProofs -------------------------
(***************************************************************************)
(* Proofs about AnalysisChain, for any participants and outcomes, screens, *)
(* siblings, benchmark and answers of the language model.                  *)
(*                                                                         *)
(* ChainInv says, as long as no two jobs of a kind have run at once, who   *)
(* has aggregated last (b) and who has validated last (v): the tables hold *)
(* what b has computed, of everybody but those whose aggregate_run is      *)
(* still to come, and each later job of b's chain, or of one that begins   *)
(* when b's has gone on, has read b's rows.  When all chains are through,  *)
(* nobody is still to come.  EvidenceKept holds however the jobs overlap:  *)
(* a job that deletes metrics waits for insights about to cite them.       *)
(*                                                                         *)
(* RowsWhole needs no order either: rows of a chain come and go as a       *)
(* whole, and the low and the high half of a trait divide the              *)
(* participants.  The baseline is a statement about the engine: by         *)
(* induction over the moves of a walk, the search has found every screen   *)
(* by the round in which a walk can first be on it.                        *)
(***************************************************************************)
EXTENDS AnalysisChain, FiniteSetTheorems, SequenceTheorems, WellFoundedInduction, TLAPS

\* Every row a draft is accepted for has the sample it takes.
LEMMA AcceptedSample ==
    ASSUME NEW rows, NEW halves, NEW links \in Accepted(rows, halves), NEW l \in links
    PROVE  l.row.size >= MinSample
<1>1. PICK draft \in Drafts(rows \cup halves) : links = Validate(draft, rows, halves)
  BY DEF Accepted
<1>2. PICK ref \in draft.evidence : /\ l = Resolve(ref, rows, halves)
                                    /\ Supported(ref, rows, halves)
  BY <1>1 DEF Validate
<1> QED BY <1>2 DEF Supported

\* The tables stay those of b as long as none of those it missed gets ahead.
LEMMA TablesStay ==
    ASSUME NEW b, TablesOf(b), UNCHANGED <<outcome, metrics, segments>>, ended \subseteq ended',
           \A q \in ended' : q \notin ended \/ stage[q] = "aggregate" => stage'[q] = "aggregate"
    PROVE  TablesOf(b)'
<1>1. PICK R, L \in SUBSET ended :
        /\ \A q \in ended \ (R \cap L) : stage[q] = "aggregate"
        /\ metrics = {[by |-> b, row |-> x] : x \in ComputeMetrics(Data(R, L))}
        /\ segments = {[by |-> b, row |-> x] : x \in ComputeSegments(Data(R, L))}
  BY DEF TablesOf
<1>2. R \in SUBSET ended' /\ L \in SUBSET ended'
  OBVIOUS
<1>3. \A q \in ended' \ (R \cap L) : stage'[q] = "aggregate"
  BY <1>1
<1>4. metrics' = {[by |-> b, row |-> x] : x \in ComputeMetrics(Data(R, L)')}
  BY <1>1 DEF Data
<1>5. segments' = {[by |-> b, row |-> x] : x \in ComputeSegments(Data(R, L)')}
  BY <1>1 DEF Data
<1> QED BY <1>2, <1>3, <1>4, <1>5, Zenon DEF TablesOf

\* No chain has started.
LEMMA InitChain == ASSUME Init PROVE ChainInv
<1> USE ChainAssumption DEF Init
<1>1. TypeOK
  <2>1. DOMAIN view = People /\ \A p \in People : DOMAIN view[p] = DOMAIN NoView
    OBVIOUS
  <2>2. /\ ended \subseteq People
        /\ tries \in [People -> 0..MaxAttempts]
    OBVIOUS
  <2>3. /\ stage \in [People -> {"none", "aggregate", "validate", "insights", "done"}]
        /\ job \in [People -> {"none", "PENDING", "RUNNING", "DONE", "FAILED"}]
        /\ step \in [People -> {"idle", "begun", "half", "read", "written"}]
    OBVIOUS
  <2> QED BY <2>1, <2>2, <2>3 DEF TypeOK
<1>2. JobsFit
  BY DEF JobsFit
<1>3. EvidenceStands /\ EvidenceKept
  BY DEF EvidenceStands, EvidenceKept, At, Links
<1>4. OneAnalysis
  BY DEF OneAnalysis, Alone, WholeTables, AggregatesFit, Aggregated, Validated, At
<1> QED BY <1>1, <1>2, <1>3, <1>4 DEF ChainInv

\* A participant more has ended: its aggregate_run is to come.
LEMMA FinalizeStep == ASSUME ChainInv, NEW p \in People, Finalize(p) PROVE ChainInv'
<1> USE DEF Finalize, ChainInv, tables
<1>1. TypeOK'
  BY DEF TypeOK
<1>2. JobsFit'
  BY DEF TypeOK, JobsFit
<1>3. stage[p] = "none"
  BY DEF TypeOK, JobsFit
<1>4. \A q \in People : \A kind, place : At(q, kind, place)' => At(q, kind, place) /\ q # p
  BY DEF TypeOK, At
<1>5. (EvidenceStands /\ EvidenceKept)'
  BY <1>4 DEF EvidenceStands, EvidenceKept
<1>6. OneAnalysis'
  <2>1. CASE overlapped
    BY <2>1 DEF OneAnalysis
  <2>2. CASE ~ overlapped
    <3> USE <2>2 DEF OneAnalysis
    <3>1. (Alone /\ WholeTables)'
      BY <1>4 DEF TypeOK, Alone, WholeTables
    <3>2. \A q, S : CountedOrToCome(q, S) => CountedOrToCome(q, S)'
      BY DEF CountedOrToCome, TypeOK
    <3>3. AggregatesFit'
      BY <1>4, <3>2 DEF AggregatesFit
    <3>4. Aggregated' = Aggregated /\ Validated' = Validated
      BY <1>3 DEF TypeOK, Aggregated, Validated
    <3>5. ASSUME NEW b \in Aggregated, AggregatedBy(b) PROVE AggregatedBy(b)'
      <4>1. TablesOf(b)'
        BY <3>5, TablesStay DEF AggregatedBy, TypeOK
      <4> QED BY <4>1, <3>4, <3>5, <1>4 DEF AggregatedBy, Found
    <3>6. ASSUME NEW v \in Validated, ValidatedBy(v) PROVE ValidatedBy(v)'
      BY <3>6, <1>4, <1>3 DEF ValidatedBy, Found, TypeOK, Validated
    <3> QED BY <3>1, <3>3, <3>4, <3>5, <3>6
  <2> QED BY <2>1, <2>2
<1> QED BY <1>1, <1>2, <1>5, <1>6

\* A job begins, or two of a kind overlap.
LEMMA ClaimStep == ASSUME ChainInv, NEW p \in People, Claim(p) PROVE ChainInv'
<1> USE DEF Claim, ChainInv, tables
<1>1. TypeOK'
  BY DEF TypeOK, NoView, Goto
<1>2. JobsFit'
  BY DEF TypeOK, JobsFit
<1>3. \A q \in People : \A kind, place : At(q, kind, place)' =>
        (q = p /\ place = "begun") \/ (At(q, kind, place) /\ q # p /\ view'[q] = view[q])
  BY DEF TypeOK, At, Goto
<1>4. (EvidenceStands /\ EvidenceKept)'
  BY <1>3 DEF EvidenceStands, EvidenceKept
<1>5. OneAnalysis'
  <2>1. CASE overlapped
    BY <2>1 DEF OneAnalysis
  <2>2. CASE overlapped' /\ ~ overlapped
    BY <2>2 DEF OneAnalysis
  <2>3. CASE ~ overlapped'
    <3> USE <2>3 DEF OneAnalysis
    <3>1. \A q \in People \ {p} : ~ (stage[q] = stage[p] /\ job[q] = "RUNNING")
      BY Zenon
    <3>2. Alone'
      BY <3>1 DEF TypeOK, Alone
    <3>3. WholeTables'
      BY <1>3 DEF WholeTables
    <3>4. AggregatesFit'
      BY <1>3 DEF AggregatesFit, CountedOrToCome
    <3>5. Aggregated' = Aggregated /\ Validated' = Validated
      BY DEF Aggregated, Validated
    <3>6. ASSUME NEW b \in Aggregated, AggregatedBy(b) PROVE AggregatedBy(b)'
      <4>1. TablesOf(b)'
        BY <3>6, TablesStay DEF AggregatedBy
      <4> QED BY <4>1, <3>5, <3>6, <1>3 DEF AggregatedBy, Found
    <3>7. ASSUME NEW v \in Validated, ValidatedBy(v) PROVE ValidatedBy(v)'
      BY <3>7, <1>3 DEF ValidatedBy, Found
    <3> QED BY <3>2, <3>3, <3>4, <3>5, <3>6, <3>7
  <2> QED BY <2>1, <2>2, <2>3
<1> QED BY <1>1, <1>2, <1>4, <1>5

\* aggregate_run has read the participants that have ended so far.
LEMMA ReadRunsStep == ASSUME ChainInv, NEW p \in People, ReadRuns(p) PROVE ChainInv'
<1> USE DEF ReadRuns, ChainInv, tables, jobs
<1>1. TypeOK'
  BY DEF TypeOK, NoView, Goto, At
<1>2. JobsFit'
  BY DEF JobsFit
<1>3. \A q \in People : \A kind, place : At(q, kind, place)' =>
        \/ q = p /\ place = "half" /\ kind = "aggregate"
        \/ At(q, kind, place) /\ q # p /\ view'[q] = view[q]
  BY DEF TypeOK, At, Goto
<1>4. At(p, "aggregate", "half")' /\ view'[p].runs = ended /\ CountedOrToCome(p, ended)
  BY DEF At, Goto, NoView, TypeOK, JobsFit, CountedOrToCome
<1>5. (EvidenceStands /\ EvidenceKept)'
  BY <1>3 DEF EvidenceStands, EvidenceKept
<1>6. OneAnalysis'
  <2>1. CASE overlapped
    BY <2>1 DEF OneAnalysis
  <2>2. CASE ~ overlapped
    <3> USE <2>2 DEF OneAnalysis
    <3>1. Alone'
      BY DEF Alone
    <3>2. WholeTables'
      BY <1>3 DEF WholeTables
    <3>3. AggregatesFit'
      BY <1>3, <1>4 DEF AggregatesFit, CountedOrToCome
    <3>4. Aggregated' = Aggregated /\ Validated' = Validated
      BY DEF Aggregated, Validated
    <3>5. ASSUME NEW b \in Aggregated, AggregatedBy(b) PROVE AggregatedBy(b)'
      <4>1. TablesOf(b)'
        BY <3>5, TablesStay DEF AggregatedBy
      <4> QED BY <4>1, <3>4, <3>5, <1>3, <1>4 DEF AggregatedBy, Found
    <3>6. ASSUME NEW v \in Validated, ValidatedBy(v) PROVE ValidatedBy(v)'
      BY <3>6, <1>3 DEF ValidatedBy, Found
    <3> QED BY <3>1, <3>2, <3>3, <3>4, <3>5, <3>6
  <2> QED BY <2>1, <2>2
<1> QED BY <1>1, <1>2, <1>5, <1>6

\* It has read their observations, a little later.
LEMMA ReadObservationsStep ==
    ASSUME ChainInv, NEW p \in People, ReadObservations(p) PROVE ChainInv'
<1> USE DEF ReadObservations, ChainInv, tables, jobs
<1>1. TypeOK'
  BY DEF TypeOK, NoView, Goto, At
<1>2. JobsFit'
  BY DEF JobsFit
<1>3. \A q \in People : \A kind, place : At(q, kind, place)' =>
        \/ q = p /\ place = "read" /\ kind = "aggregate"
        \/ At(q, kind, place) /\ q # p /\ view'[q] = view[q]
  BY DEF TypeOK, At, Goto
<1>4. /\ At(p, "aggregate", "half") /\ At(p, "aggregate", "read")'
      /\ view'[p].logs = ended /\ view'[p].runs = view[p].runs
  BY DEF At, Goto, NoView, TypeOK
<1>5. (EvidenceStands /\ EvidenceKept)'
  BY <1>3 DEF EvidenceStands, EvidenceKept
<1>6. OneAnalysis'
  <2>1. CASE overlapped
    BY <2>1 DEF OneAnalysis
  <2>2. CASE ~ overlapped
    <3> USE <2>2 DEF OneAnalysis
    <3>1. Alone'
      BY DEF Alone
    <3>2. WholeTables'
      BY <1>3 DEF WholeTables
    <3>3. AggregatesFit'
      BY <1>3, <1>4 DEF AggregatesFit, CountedOrToCome
    <3>4. Aggregated' = Aggregated /\ Validated' = Validated
      BY DEF Aggregated, Validated
    <3>5. ASSUME NEW b \in Aggregated, AggregatedBy(b) PROVE AggregatedBy(b)'
      <4>1. TablesOf(b)'
        BY <3>5, TablesStay DEF AggregatedBy
      <4> QED BY <4>1, <3>4, <3>5, <1>3, <1>4 DEF AggregatedBy, Found
    <3>6. ASSUME NEW v \in Validated, ValidatedBy(v) PROVE ValidatedBy(v)'
      BY <3>6, <1>3 DEF ValidatedBy, Found
    <3> QED BY <3>1, <3>2, <3>3, <3>4, <3>5, <3>6
  <2> QED BY <2>1, <2>2
<1> QED BY <1>1, <1>2, <1>5, <1>6

\* Its DELETE finds all metrics and segments, and no insight that cites them.
LEMMA DeleteMetricsStep ==
    ASSUME ChainInv, NEW p \in People, DeleteMetrics(p) PROVE ChainInv'
<1> USE DEF DeleteMetrics, ChainInv, tables, jobs
<1>1. TypeOK'
  BY DEF TypeOK, NoView, Goto, At
<1>2. JobsFit'
  BY DEF JobsFit
<1>3. \A q \in People : \A kind, place : At(q, kind, place)' =>
        \/ q = p /\ place = "written" /\ kind = "aggregate"
        \/ At(q, kind, place) /\ q # p /\ view'[q] = view[q]
  BY DEF TypeOK, At, Goto
<1>4. /\ At(p, "aggregate", "read") /\ At(p, "aggregate", "written")'
      /\ view'[p].logs = view[p].logs /\ view'[p].runs = view[p].runs
      /\ view'[p].victims = metrics \cup segments
  BY DEF At, Goto, NoView, TypeOK
<1>5. (EvidenceStands /\ EvidenceKept)'
  BY <1>3, <1>4 DEF EvidenceStands, EvidenceKept, References, Links
<1>6. OneAnalysis'
  <2>1. CASE overlapped
    BY <2>1 DEF OneAnalysis
  <2>2. CASE ~ overlapped
    <3> USE <2>2 DEF OneAnalysis
    <3>1. Alone'
      BY DEF Alone
    <3>2. WholeTables'
      BY <1>3, <1>4 DEF WholeTables
    <3>3. AggregatesFit'
      BY <1>3, <1>4 DEF AggregatesFit, CountedOrToCome
    <3>4. Aggregated' = Aggregated /\ Validated' = Validated
      BY DEF Aggregated, Validated
    <3>5. ASSUME NEW b \in Aggregated, AggregatedBy(b) PROVE AggregatedBy(b)'
      <4>1. TablesOf(b)'
        BY <3>5, TablesStay DEF AggregatedBy
      <4> QED BY <4>1, <3>4, <3>5, <1>3, <1>4 DEF AggregatedBy, Found
    <3>6. ASSUME NEW v \in Validated, ValidatedBy(v) PROVE ValidatedBy(v)'
      BY <3>6, <1>3, <1>4 DEF ValidatedBy, Found
    <3> QED BY <3>1, <3>2, <3>3, <3>4, <3>5, <3>6
  <2> QED BY <2>1, <2>2
<1> QED BY <1>1, <1>2, <1>5, <1>6

\* validate_run has read the metrics.
LEMMA ReadMetricsStep == ASSUME ChainInv, NEW p \in People, ReadMetrics(p) PROVE ChainInv'
<1> USE DEF ReadMetrics, ChainInv, tables, jobs
<1>1. TypeOK'
  BY DEF TypeOK, NoView, Goto, At
<1>2. JobsFit'
  BY DEF JobsFit
<1>3. \A q \in People : \A kind, place : At(q, kind, place)' =>
        \/ q = p /\ place = "half" /\ kind \in {"validate", "insights"}
        \/ At(q, kind, place) /\ q # p /\ view'[q] = view[q]
  BY DEF TypeOK, At, Goto
<1>4. view'[p].metrics = metrics
  BY DEF At, Goto, NoView, TypeOK
<1>5. (EvidenceStands /\ EvidenceKept)'
  BY <1>3 DEF EvidenceStands, EvidenceKept
<1>6. OneAnalysis'
  <2>1. CASE overlapped
    BY <2>1 DEF OneAnalysis
  <2>2. CASE ~ overlapped
    <3> USE <2>2 DEF OneAnalysis
    <3>1. Alone'
      BY DEF Alone
    <3>2. WholeTables'
      BY <1>3 DEF WholeTables
    <3>3. AggregatesFit'
      BY <1>3 DEF AggregatesFit, CountedOrToCome
    <3>4. Aggregated' = Aggregated /\ Validated' = Validated
      BY DEF Aggregated, Validated
    <3>5. ASSUME NEW b \in Aggregated, AggregatedBy(b) PROVE AggregatedBy(b)'
      <4>1. TablesOf(b)'
        BY <3>5, TablesStay DEF AggregatedBy
      <4> QED BY <4>1, <3>4, <3>5, <1>3, <1>4 DEF AggregatedBy, Found
    <3>6. ASSUME NEW v \in Validated, ValidatedBy(v) PROVE ValidatedBy(v)'
      BY <3>6, <1>3 DEF ValidatedBy, Found
    <3> QED BY <3>1, <3>2, <3>3, <3>4, <3>5, <3>6
  <2> QED BY <2>1, <2>2
<1> QED BY <1>1, <1>2, <1>5, <1>6

\* generate_insights has read the segments.
LEMMA ReadSegmentsStep == ASSUME ChainInv, NEW p \in People, ReadSegments(p) PROVE ChainInv'
<1> USE DEF ReadSegments, ChainInv, tables, jobs
<1>1. TypeOK'
  BY DEF TypeOK, NoView, Goto, At
<1>2. JobsFit'
  BY DEF JobsFit
<1>3. \A q \in People : \A kind, place : At(q, kind, place)' =>
        \/ q = p /\ place = "read" /\ kind \in {"validate", "insights"} /\ At(p, kind, "half")
        \/ At(q, kind, place) /\ q # p /\ view'[q] = view[q]
  BY DEF TypeOK, At, Goto
<1>4. /\ At(p, "validate", "half") \/ At(p, "insights", "half")
      /\ view'[p].metrics = view[p].metrics
      /\ view'[p].segments = segments /\ view'[p].facts = Found
  BY DEF At, Goto, NoView, TypeOK
<1>5. (EvidenceStands /\ EvidenceKept)'
  BY <1>3 DEF EvidenceStands, EvidenceKept
<1>6. OneAnalysis'
  <2>1. CASE overlapped
    BY <2>1 DEF OneAnalysis
  <2>2. CASE ~ overlapped
    <3> USE <2>2 DEF OneAnalysis
    <3>1. Alone'
      BY DEF Alone
    <3>2. WholeTables'
      BY <1>3 DEF WholeTables
    <3>3. AggregatesFit'
      BY <1>3 DEF AggregatesFit, CountedOrToCome
    <3>4. Aggregated' = Aggregated /\ Validated' = Validated
      BY DEF Aggregated, Validated
    <3>5. ASSUME NEW b \in Aggregated, AggregatedBy(b) PROVE AggregatedBy(b)'
      <4>1. TablesOf(b)'
        BY <3>5, TablesStay DEF AggregatedBy
      <4> QED BY <4>1, <3>4, <3>5, <1>3, <1>4 DEF AggregatedBy, Found
    <3>6. ASSUME NEW v \in Validated, ValidatedBy(v) PROVE ValidatedBy(v)'
      BY <3>6, <1>3, <1>4 DEF ValidatedBy, Found
    <3> QED BY <3>1, <3>2, <3>3, <3>4, <3>5, <3>6
  <2> QED BY <2>1, <2>2
<1> QED BY <1>1, <1>2, <1>5, <1>6

\* The DELETE of the validation finds all of it.
LEMMA DeleteValidationStep ==
    ASSUME ChainInv, NEW p \in People, DeleteValidation(p) PROVE ChainInv'
<1> USE DEF DeleteValidation, ChainInv, tables, jobs
<1>1. TypeOK'
  BY DEF TypeOK, NoView, Goto, At
<1>2. JobsFit'
  BY DEF JobsFit
<1>3. \A q \in People : \A kind, place : At(q, kind, place)' =>
        \/ q = p /\ place = "written" /\ kind = "validate"
        \/ At(q, kind, place) /\ q # p /\ view'[q] = view[q]
  BY DEF TypeOK, At, Goto
<1>4. /\ At(p, "validate", "read") /\ At(p, "validate", "written")'
      /\ view'[p].victims = validation
      /\ \E known \in Present : view'[p].facts = Facts(view[p].metrics, view[p].segments, known)
  BY DEF At, Goto, NoView, TypeOK
<1>5. (EvidenceStands /\ EvidenceKept)'
  BY <1>3, <1>4 DEF EvidenceStands, EvidenceKept
<1>6. OneAnalysis'
  <2>1. CASE overlapped
    BY <2>1 DEF OneAnalysis
  <2>2. CASE ~ overlapped
    <3> USE <2>2 DEF OneAnalysis
    <3>1. Alone'
      BY DEF Alone
    <3>2. WholeTables'
      BY <1>3, <1>4 DEF WholeTables
    <3>3. AggregatesFit'
      BY <1>3 DEF AggregatesFit, CountedOrToCome
    <3>4. Aggregated' = Aggregated /\ Validated' = Validated
      BY DEF Aggregated, Validated
    <3>5. ASSUME NEW b \in Aggregated, AggregatedBy(b) PROVE AggregatedBy(b)'
      <4>1. TablesOf(b)'
        BY <3>5, TablesStay DEF AggregatedBy
      <4> QED BY <4>1, <3>4, <3>5, <1>3, <1>4 DEF AggregatedBy, Found
    <3>6. ASSUME NEW v \in Validated, ValidatedBy(v) PROVE ValidatedBy(v)'
      BY <3>6, <1>3, <1>4 DEF ValidatedBy, Found
    <3> QED BY <3>1, <3>2, <3>3, <3>4, <3>5, <3>6
  <2> QED BY <2>1, <2>2
<1> QED BY <1>1, <1>2, <1>5, <1>6

\* Drafts are accepted for rows that are there.
LEMMA WriteInsightsStep ==
    ASSUME ChainInv, NEW p \in People, WriteInsights(p) PROVE ChainInv'
<1> USE DEF WriteInsights, ChainInv, tables, jobs
<1>1. TypeOK'
  BY DEF TypeOK, NoView, Goto, At
<1>2. JobsFit'
  BY DEF JobsFit
<1>3. \A q \in People : \A kind, place : At(q, kind, place)' =>
        \/ q = p /\ place = "written" /\ kind = "insights"
        \/ At(q, kind, place) /\ q # p /\ view'[q] = view[q]
  BY DEF TypeOK, At, Goto
<1>4. /\ At(p, "insights", "read") /\ At(p, "insights", "written")'
      /\ view'[p].victims = insights
      /\ \A d \in view'[p].drafts :
           /\ d.links \in Accepted(view[p].metrics, view[p].segments)
           /\ d.links \subseteq metrics \cup segments
           /\ \A q \in People : At(q, "aggregate", "written") => d.links \cap view[q].victims = {}
           /\ d.strength = EvidenceStrength(d.links, view[p].facts)
  BY DEF At, Goto, NoView, TypeOK
<1>5. (EvidenceStands /\ EvidenceKept)'
  BY <1>3, <1>4, AcceptedSample DEF EvidenceStands, EvidenceKept, Links
<1>6. OneAnalysis'
  <2>1. CASE overlapped
    BY <2>1 DEF OneAnalysis
  <2>2. CASE ~ overlapped
    <3> USE <2>2 DEF OneAnalysis
    <3>1. Alone'
      BY DEF Alone
    <3>2. WholeTables'
      BY <1>3, <1>4 DEF WholeTables
    <3>3. AggregatesFit'
      BY <1>3, <1>4 DEF AggregatesFit, CountedOrToCome
    <3>4. Aggregated' = Aggregated /\ Validated' = Validated
      BY DEF Aggregated, Validated
    <3>5. ASSUME NEW b \in Aggregated, AggregatedBy(b) PROVE AggregatedBy(b)'
      <4>1. TablesOf(b)'
        BY <3>5, TablesStay DEF AggregatedBy
      <4> QED BY <4>1, <3>4, <3>5, <1>3, <1>4 DEF AggregatedBy, Found
    <3>6. ASSUME NEW v \in Validated, ValidatedBy(v) PROVE ValidatedBy(v)'
      BY <3>6, <1>3, <1>4 DEF ValidatedBy, Found
    <3> QED BY <3>1, <3>2, <3>3, <3>4, <3>5, <3>6
  <2> QED BY <2>1, <2>2
<1> QED BY <1>1, <1>2, <1>5, <1>6

\* A rollback leaves the tables alone.
LEMMA HandlerRaisesStep ==
    ASSUME ChainInv, NEW p \in People, HandlerRaises(p) PROVE ChainInv'
<1> USE DEF HandlerRaises, ChainInv, tables
<1>1. TypeOK' /\ JobsFit'
  <2>1. tries[p] < MaxAttempts /\ tries[p] \in 0..MaxAttempts
    BY DEF TypeOK, JobsFit
  <2>2. tries' \in [People -> 0..MaxAttempts]
    BY <2>1, ChainAssumption DEF TypeOK
  <2>3. TypeOK'
    BY <2>2 DEF TypeOK, NoView, Goto
  <2>4. JobsFit'
    BY DEF TypeOK, JobsFit
  <2> QED BY <2>3, <2>4
<1>2. \A q \in People : \A kind, place : At(q, kind, place)' =>
        At(q, kind, place) /\ q # p /\ view'[q] = view[q]
  BY DEF TypeOK, At, Goto
<1>3. (EvidenceStands /\ EvidenceKept)'
  BY <1>2 DEF EvidenceStands, EvidenceKept
<1>4. OneAnalysis'
  <2>1. CASE overlapped
    BY <2>1 DEF OneAnalysis
  <2>2. CASE ~ overlapped
    <3> USE <2>2 DEF OneAnalysis
    <3>1. Alone'
      BY DEF Alone, TypeOK
    <3>2. WholeTables'
      BY <1>2 DEF WholeTables
    <3>3. AggregatesFit'
      BY <1>2 DEF AggregatesFit, CountedOrToCome
    <3>4. Aggregated' = Aggregated /\ Validated' = Validated
      BY DEF Aggregated, Validated
    <3>5. ASSUME NEW b \in Aggregated, AggregatedBy(b) PROVE AggregatedBy(b)'
      <4>1. TablesOf(b)'
        BY <3>5, TablesStay DEF AggregatedBy
      <4> QED BY <4>1, <3>4, <3>5, <1>2 DEF AggregatedBy, Found
    <3>6. ASSUME NEW v \in Validated, ValidatedBy(v) PROVE ValidatedBy(v)'
      BY <3>6, <1>2 DEF ValidatedBy, Found
    <3> QED BY <3>1, <3>2, <3>3, <3>4, <3>5, <3>6
  <2> QED BY <2>1, <2>2
<1> QED BY <1>1, <1>3, <1>4

\* What every commit of a job does to the chains.
LEMMA FollowFrame ==
    ASSUME ChainInv, NEW p \in People, NEW kind \in {"validate", "insights", "done"},
           job[p] = "RUNNING", Follow(p, kind), ended' = ended
    PROVE  /\ DOMAIN view' = People /\ \A q \in People : DOMAIN view'[q] = DOMAIN NoView
           /\ stage' \in [People -> {"none", "aggregate", "validate", "insights", "done"}]
           /\ job' \in [People -> {"none", "PENDING", "RUNNING", "DONE", "FAILED"}]
           /\ tries' \in [People -> 0..MaxAttempts]
           /\ step' \in [People -> {"idle", "begun", "half", "read", "written"}]
           /\ JobsFit'
           /\ stage'[p] = kind /\ \A q \in People \ {p} : stage'[q] = stage[q]
           /\ \A q \in People : \A other, place : At(q, other, place)' =>
                At(q, other, place) /\ q # p /\ view'[q] = view[q]
           /\ Alone => Alone'
<1> USE ChainAssumption DEF ChainInv, TypeOK, Follow, Goto
<1>1. /\ DOMAIN view' = People /\ \A q \in People : DOMAIN view'[q] = DOMAIN NoView
      /\ tries' \in [People -> 0..MaxAttempts]
  OBVIOUS
<1>2. /\ stage' \in [People -> {"none", "aggregate", "validate", "insights", "done"}]
      /\ job' \in [People -> {"none", "PENDING", "RUNNING", "DONE", "FAILED"}]
      /\ step' \in [People -> {"idle", "begun", "half", "read", "written"}]
  OBVIOUS
<1>3. JobsFit'
  BY DEF JobsFit
<1>4. stage'[p] = kind /\ \A q \in People \ {p} : stage'[q] = stage[q]
  OBVIOUS
<1>5. \A q \in People : \A other, place : At(q, other, place)' =>
        At(q, other, place) /\ q # p /\ view'[q] = view[q]
  BY DEF At
<1>6. Alone => Alone'
  BY DEF Alone
<1> QED BY <1>1, <1>2, <1>3, <1>4, <1>5, <1>6

\* The tables hold what this chain has computed: it has aggregated last.
LEMMA CommitMetricsStep ==
    ASSUME ChainInv, NEW p \in People, CommitMetrics(p) PROVE ChainInv'
<1> DEFINE data  == Data(view[p].runs, view[p].logs)
           found == {[by |-> p, row |-> x] : x \in ComputeMetrics(data)}
           halves == {[by |-> p, row |-> x] : x \in ComputeSegments(data)}
<1>1. /\ metrics' = (metrics \ view[p].victims) \cup found
      /\ segments' = (segments \ view[p].victims) \cup halves
      /\ At(p, "aggregate", "written") /\ Follow(p, "validate")
      /\ UNCHANGED <<outcome, ended, validation, insights, overlapped>>
  BY DEF CommitMetrics
<1>2. \A x \in found \cup halves : x.by = p
  OBVIOUS
<1> HIDE DEF found, halves
<1> USE DEF ChainInv
<1>3. /\ JobsFit' /\ stage'[p] = "validate" /\ \A q \in People \ {p} : stage'[q] = stage[q]
      /\ \A q \in People : \A other, place : At(q, other, place)' =>
           At(q, other, place) /\ q # p /\ view'[q] = view[q]
      /\ Alone => Alone'
  BY <1>1, FollowFrame DEF At
<1>4. TypeOK'
  BY <1>1, <1>2, FollowFrame DEF TypeOK, At
<1>5. (EvidenceStands /\ EvidenceKept)'
  BY <1>1, <1>3 DEF EvidenceStands, EvidenceKept, Links
<1>6. OneAnalysis'
  <2>1. CASE overlapped
    BY <1>1, <2>1 DEF OneAnalysis
  <2>2. CASE ~ overlapped
    <3> USE <1>1, <2>2 DEF OneAnalysis
    <3>1. Alone'
      BY <1>3
    <3>2. metrics' = found /\ segments' = halves
      BY DEF WholeTables
    <3>3. WholeTables' /\ AggregatesFit'
      BY <1>3 DEF WholeTables, AggregatesFit, CountedOrToCome, Alone, At
    <3>4. Aggregated' = Aggregated \cup {p} /\ Validated' = Validated
      BY <1>3 DEF Aggregated, Validated, At
    <3>5. TablesOf(p)'
      <4>1. CountedOrToCome(p, view[p].runs) /\ CountedOrToCome(p, view[p].logs)
        BY DEF AggregatesFit
      <4>2. \A q \in ended' \ (view[p].runs \cap view[p].logs) : stage'[q] = "aggregate"
        BY <4>1, <1>3 DEF CountedOrToCome, TypeOK
      <4>3. PICK R, L : R = view[p].runs /\ L = view[p].logs
        OBVIOUS
      <4>4. /\ metrics' = {[by |-> p, row |-> x] : x \in ComputeMetrics(Data(R, L)')}
            /\ segments' = {[by |-> p, row |-> x] : x \in ComputeSegments(Data(R, L)')}
        BY <3>2, <4>3 DEF found, halves, Data
      <4> QED BY <4>1, <4>2, <4>3, <4>4 DEF TablesOf, CountedOrToCome
    <3>6. AggregatedBy(p)'
      BY <1>3, <3>4, <3>5 DEF AggregatedBy, Validated, At
    <3>7. ASSUME NEW v \in Validated, ValidatedBy(v) PROVE ValidatedBy(v)'
      <4>1. v # p /\ stage'[v] = stage[v]
        BY <1>3 DEF Validated, At
      <4> QED BY <3>7, <1>3, <4>1 DEF ValidatedBy, Found
    <3> QED BY <3>1, <3>3, <3>4, <3>6, <3>7
  <2> QED BY <2>1, <2>2
<1> QED BY <1>3, <1>4, <1>5, <1>6

\* This chain has validated last.
LEMMA CommitValidationStep ==
    ASSUME ChainInv, NEW p \in People, CommitValidation(p) PROVE ChainInv'
<1> USE DEF ChainInv
<1>1. /\ validation' = (validation \ view[p].victims) \cup
                       {[by |-> p, fact |-> f] : f \in view[p].facts}
      /\ At(p, "validate", "written") /\ Follow(p, "insights")
      /\ UNCHANGED <<outcome, ended, metrics, segments, insights, overlapped>>
  BY DEF CommitValidation
<1>2. /\ JobsFit' /\ stage'[p] = "insights" /\ \A q \in People \ {p} : stage'[q] = stage[q]
      /\ \A q \in People : \A other, place : At(q, other, place)' =>
           At(q, other, place) /\ q # p /\ view'[q] = view[q]
      /\ Alone => Alone'
  BY <1>1, FollowFrame DEF At
<1>3. TypeOK'
  BY <1>1, FollowFrame DEF TypeOK, At
<1>4. (EvidenceStands /\ EvidenceKept)'
  BY <1>1, <1>2 DEF EvidenceStands, EvidenceKept
<1>5. OneAnalysis'
  <2>1. CASE overlapped
    BY <1>1, <2>1 DEF OneAnalysis
  <2>2. CASE ~ overlapped
    <3> USE <1>1, <2>2 DEF OneAnalysis
    <3>1. Alone'
      BY <1>2
    <3>2. validation' = {[by |-> p, fact |-> f] : f \in view[p].facts}
      BY DEF WholeTables
    <3>3. Found' = view[p].facts /\ \A x \in validation' : x.by = p
      <4> DEFINE row(f) == [by |-> p, fact |-> f]
      <4>1. validation' = {row(f) : f \in view[p].facts}
        BY <3>2
      <4>2. \A f : row(f).fact = f /\ row(f).by = p
        OBVIOUS
      <4> HIDE DEF row
      <4> QED BY <4>1, <4>2 DEF Found
    <3>4. \A q \in People : \A place : ~ At(q, "validate", place)'
      BY <1>2 DEF Alone, At
    <3>5. WholeTables' /\ AggregatesFit'
      <4>1. stage[p] = "validate"
        BY DEF At
      <4>2. WholeTables'
        BY <1>2, <3>4 DEF WholeTables
      <4>3. \A q \in People : \A S : CountedOrToCome(q, S) => CountedOrToCome(q, S)'
        BY <1>2, <4>1 DEF CountedOrToCome, TypeOK
      <4>4. AggregatesFit'
        BY <1>2, <4>3 DEF AggregatesFit
      <4> QED BY <4>2, <4>4
    <3>6. Aggregated' = Aggregated /\ Validated' = Validated \cup {p} /\ p \in Aggregated
      BY <1>2 DEF Aggregated, Validated, At
    <3>7. ASSUME NEW b \in Aggregated, AggregatedBy(b) PROVE AggregatedBy(b)'
      <4>1. TablesOf(b)'
        <5>1. \A q \in ended' :
                q \notin ended \/ stage[q] = "aggregate" => stage'[q] = "aggregate"
          BY <1>2 DEF At, TypeOK
        <5> QED BY <3>7, <5>1, TablesStay DEF AggregatedBy
      <4>2. b \in Validated' => \E known \in Present : Found' = Facts(metrics, segments, known)
        BY <3>3, <3>6, <3>7 DEF AggregatedBy
      <4> QED BY <3>4, <4>1, <4>2 DEF AggregatedBy
    <3>8. ValidatedBy(p)'
      BY <1>2, <3>3 DEF ValidatedBy
    <3> QED BY <3>1, <3>5, <3>6, <3>7, <3>8
  <2> QED BY <2>1, <2>2
<1> QED BY <1>2, <1>3, <1>4, <1>5

\* The insights are by the chain that has validated last.
LEMMA CommitInsightsStep ==
    ASSUME ChainInv, NEW p \in People, CommitInsights(p) PROVE ChainInv'
<1> USE DEF ChainInv
<1>1. /\ insights' = (insights \ view[p].victims) \cup
                     {[by |-> p, links |-> d.links, strength |-> d.strength] : d \in view[p].drafts}
      /\ At(p, "insights", "written") /\ Follow(p, "done")
      /\ UNCHANGED <<outcome, ended, metrics, segments, validation, overlapped>>
  BY DEF CommitInsights
<1>2. \A x \in insights' : x \in insights \/ /\ x.by = p
                                             /\ \E d \in view[p].drafts : /\ x.links = d.links
                                                                          /\ x.strength = d.strength
  BY <1>1
<1>3. /\ JobsFit' /\ stage'[p] = "done" /\ \A q \in People \ {p} : stage'[q] = stage[q]
      /\ \A q \in People : \A other, place : At(q, other, place)' =>
           At(q, other, place) /\ q # p /\ view'[q] = view[q]
      /\ Alone => Alone'
  BY <1>1, FollowFrame DEF At
<1>4. TypeOK'
  BY <1>1, <1>2, FollowFrame DEF TypeOK, At
<1>5. (EvidenceStands /\ EvidenceKept)'
  <2>1. EvidenceStands'
    BY <1>1, <1>2 DEF EvidenceStands, EvidenceKept
  <2>2. Links(insights)' \subseteq Links(insights) \cup Links(view[p].drafts)
    BY <1>2 DEF Links
  <2> QED BY <1>1, <1>3, <2>1, <2>2 DEF EvidenceKept
<1>6. OneAnalysis'
  <2>1. CASE overlapped
    BY <1>1, <2>1 DEF OneAnalysis
  <2>2. CASE ~ overlapped
    <3> USE <1>1, <2>2 DEF OneAnalysis
    <3>1. Alone'
      BY <1>3
    <3>2. \A q \in People : \A place : ~ At(q, "insights", place)'
      BY <1>3 DEF Alone, At
    <3>3. \A x \in insights' : \E d \in view[p].drafts : /\ x.links = d.links
                                                         /\ x.strength = d.strength
      BY <1>2 DEF WholeTables
    <3>4. WholeTables' /\ AggregatesFit'
      <4>1. stage[p] = "insights"
        BY DEF At
      <4>2. WholeTables'
        BY <1>3, <3>2 DEF WholeTables
      <4>3. \A q \in People : \A S : CountedOrToCome(q, S) => CountedOrToCome(q, S)'
        BY <1>3, <4>1 DEF CountedOrToCome, TypeOK
      <4>4. AggregatesFit'
        BY <1>3, <4>3 DEF AggregatesFit
      <4> QED BY <4>2, <4>4
    <3>5. Aggregated' = Aggregated /\ Validated' = Validated /\ p \in Validated
      BY <1>3 DEF Aggregated, Validated, At
    <3>6. ASSUME NEW b \in Aggregated, AggregatedBy(b) PROVE AggregatedBy(b)'
      <4>1. TablesOf(b)'
        <5>1. \A q \in ended' :
                q \notin ended \/ stage[q] = "aggregate" => stage'[q] = "aggregate"
          BY <1>3 DEF At, TypeOK
        <5> QED BY <3>6, <5>1, TablesStay DEF AggregatedBy
      <4> QED BY <1>3, <3>5, <3>6, <4>1 DEF AggregatedBy, Found
    <3>7. ASSUME NEW v \in Validated, ValidatedBy(v) PROVE ValidatedBy(v)'
      <4>1. Found' = Found /\ \A x \in validation' : x.by = v
        BY <3>7 DEF ValidatedBy, Found
      <4>2. stage'[v] = "done" => p = v \/ stage[v] = "done"
        BY <1>3 DEF Validated
      <4>3. stage'[v] = "done" =>
              \A d \in view[p].drafts : d.strength = EvidenceStrength(d.links, Found)
        BY <3>7, <4>2 DEF ValidatedBy
      <4> QED BY <3>2, <3>3, <4>1, <4>3 DEF ValidatedBy
    <3> QED BY <3>1, <3>4, <3>5, <3>6, <3>7
  <2> QED BY <2>1, <2>2
<1> QED BY <1>3, <1>4, <1>5, <1>6

\* Every step keeps the invariant.
LEMMA ChainStep == ASSUME ChainInv, [Next]_vars PROVE ChainInv'
<1>1. CASE UNCHANGED vars
  <2> USE <1>1 DEF vars, ChainInv
  <2>1. TypeOK' /\ JobsFit'
    BY DEF TypeOK, JobsFit
  <2>2. \A q \in People : \A kind, place : At(q, kind, place)' <=> At(q, kind, place)
    BY DEF At
  <2>3. EvidenceStands' /\ EvidenceKept'
    BY <2>2 DEF EvidenceStands, EvidenceKept
  <2>4. /\ Aggregated' = Aggregated /\ Validated' = Validated
        /\ Alone => Alone' /\ (WholeTables => WholeTables') /\ (AggregatesFit => AggregatesFit')
    BY <2>2 DEF Aggregated, Validated, Alone, WholeTables, AggregatesFit, CountedOrToCome
  <2>5. ASSUME NEW b, AggregatedBy(b) PROVE AggregatedBy(b)'
    <3>1. TablesOf(b)'
      BY <2>5, TablesStay DEF AggregatedBy
    <3> QED BY <2>2, <2>4, <2>5, <3>1 DEF AggregatedBy, Found
  <2>6. ASSUME NEW v, ValidatedBy(v) PROVE ValidatedBy(v)'
    BY <2>2, <2>6 DEF ValidatedBy, Found
  <2>7. OneAnalysis'
    BY <2>4, <2>5, <2>6 DEF OneAnalysis
  <2> QED BY <2>1, <2>3, <2>7
<1>2. CASE Next
  <2>1. PICK p \in People : \/ Finalize(p) \/ Claim(p) \/ HandlerRaises(p)
                            \/ Aggregate(p) \/ Evaluate(p)
    BY <1>2 DEF Next
  <2>2. CASE Finalize(p) \/ Claim(p) \/ HandlerRaises(p)
    BY <2>2, FinalizeStep, ClaimStep, HandlerRaisesStep
  <2>3. CASE Aggregate(p)
    BY <2>3, ReadRunsStep, ReadObservationsStep, DeleteMetricsStep, CommitMetricsStep DEF
      Aggregate
  <2>4. CASE Evaluate(p)
    BY <2>4, ReadMetricsStep, ReadSegmentsStep, DeleteValidationStep, CommitValidationStep,
       WriteInsightsStep, CommitInsightsStep
       DEF Evaluate
  <2> QED BY <2>1, <2>2, <2>3, <2>4
<1> QED BY <1>1, <1>2

\* The invariant holds in every state.
THEOREM ChainSafe == Spec => []ChainInv
<1>1. Init => ChainInv
  BY InitChain
<1>2. ChainInv /\ [Next]_vars => ChainInv'
  BY ChainStep
<1> QED BY <1>1, <1>2, PTL DEF Spec

\* Every insight that is stored rests on rows that are still there, each with the
\* sample it takes (insight_engine.py:106-144, generate_insights.py:105-154).
THEOREM EvidenceSafe == Spec => []AnalysisInv
<1>1. ChainInv => AnalysisInv
  BY DEF ChainInv, AnalysisInv
<1> QED BY <1>1, ChainSafe, PTL

\* A table whose rows are all by one chain.
LEMMA OneAuthor ==
    ASSUME NEW T, NEW b, \A x \in T : x.by = b
    PROVE  Cardinality({x.by : x \in T}) <= 1
<1>1. {x.by : x \in T} \subseteq {b}
  OBVIOUS
<1>2. IsFiniteSet({b}) /\ Cardinality({b}) = 1
  BY FS_Singleton
<1> QED BY <1>1, <1>2, FS_Subset

\* When all chains are through, nobody is still to come.
LEMMA QuietIsCurrent == ChainInv => QuietMeansCurrent
<1> SUFFICES ASSUME ChainInv, Quiet, NEW p \in People, job[p] = "DONE"
             PROVE  /\ Rows(metrics) = ComputeMetrics(Data(ended, ended))
                    /\ Rows(segments) = ComputeSegments(Data(ended, ended))
                    /\ \A T \in {metrics, segments, validation} : Cardinality({x.by : x \in T}) <= 1
                    /\ \E known \in Present : Found = Facts(metrics, segments, known)
                    /\ \A x \in insights : x.strength = EvidenceStrength(x.links, Found)
  BY DEF QuietMeansCurrent
<1>1. \A q \in People : stage[q] \in {"none", "done"}
  BY DEF ChainInv, TypeOK, JobsFit, Quiet
<1>2. p \in Aggregated /\ p \in Validated /\ Aggregated = Validated
  BY <1>1 DEF ChainInv, TypeOK, JobsFit, Aggregated, Validated
<1>3. PICK b \in Aggregated : AggregatedBy(b)
  BY <1>2 DEF ChainInv, OneAnalysis, Quiet
<1>4. PICK v \in Validated : ValidatedBy(v)
  BY <1>2 DEF ChainInv, OneAnalysis, Quiet
<1> DEFINE row(x) == [by |-> b, row |-> x]
<1>5. PICK R, L \in SUBSET ended :
        /\ \A q \in ended \ (R \cap L) : stage[q] = "aggregate"
        /\ metrics = {[by |-> b, row |-> x] : x \in ComputeMetrics(Data(R, L))}
        /\ segments = {[by |-> b, row |-> x] : x \in ComputeSegments(Data(R, L))}
  BY <1>3 DEF AggregatedBy, TablesOf
<1>6. R = ended /\ L = ended
  BY <1>1, <1>5 DEF ChainInv, TypeOK
<1>7. /\ Rows(metrics) = ComputeMetrics(Data(ended, ended)) /\ \A x \in metrics : x.by = b
      /\ Rows(segments) = ComputeSegments(Data(ended, ended)) /\ \A x \in segments : x.by = b
  <2>1. PICK M, S : /\ M = ComputeMetrics(Data(ended, ended))
                    /\ S = ComputeSegments(Data(ended, ended))
    OBVIOUS
  <2>2. metrics = {row(x) : x \in M} /\ segments = {row(x) : x \in S}
    BY <1>5, <1>6, <2>1
  <2>3. \A x : row(x).row = x /\ row(x).by = b
    OBVIOUS
  <2> HIDE DEF row
  <2> QED BY <2>1, <2>2, <2>3 DEF Rows
<1>8. \A T \in {metrics, segments, validation} : Cardinality({x.by : x \in T}) <= 1
  BY <1>4, <1>7, OneAuthor DEF ValidatedBy
<1>9. \E known \in Present : Found = Facts(metrics, segments, known)
  BY <1>2, <1>3 DEF AggregatedBy
<1>10. \A x \in insights : x.strength = EvidenceStrength(x.links, Found)
  BY <1>1, <1>4 DEF ValidatedBy, Validated
<1> QED BY <1>7, <1>8, <1>9, <1>10

\* Whenever all chains of a run are through, and no two jobs of a kind have run at once,
\* the tables hold one analysis, of all that is committed, however often and in whatever
\* order the jobs were tried (aggregate_run.py:111-139, validate_run.py:134-154,
\* generate_insights.py:120-154).
THEOREM CurrentSafe == Spec => []QuietMeansCurrent
  BY ChainSafe, QuietIsCurrent, PTL

-----------------------------------------------------------------------------
(* The rows of a chain, and their sums. *)

\* A step that leaves metrics and segments alone.
LEMMA RowsStay ==
    ASSUME RowsWhole, UNCHANGED <<outcome, metrics, segments>>,
           \A p \in People : /\ p \in Aggregated => p \in Aggregated'
                             /\ At(p, "aggregate", "written")' =>
                                  At(p, "aggregate", "written") /\ view'[p] = view[p]
    PROVE  RowsWhole'
<1>1. \A R, L : Data(R, L)' = Data(R, L)
  BY DEF Data
<1> SUFFICES ASSUME NEW p \in People
             PROVE  /\ p \notin Aggregated' => By(metrics', p) = {} /\ By(segments', p) = {}
                    /\ \/ By(metrics', p) = {}
                       \/ \E R, L \in SUBSET People :
                            /\ By(metrics', p) = RowsOf(p, ComputeMetrics(Data(R, L)'))
                            /\ By(segments', p) = RowsOf(p, ComputeSegments(Data(R, L)'))
                    /\ \A q \in People : At(q, "aggregate", "written")' =>
                         \/ By(view'[q].victims, p) = {}
                         \/ p \in Aggregated' /\ By(metrics', p) \subseteq view'[q].victims
  BY DEF RowsWhole
<1>2. p \notin Aggregated' => By(metrics', p) = {} /\ By(segments', p) = {}
  BY DEF RowsWhole
<1>3. \/ By(metrics', p) = {}
      \/ \E R, L \in SUBSET People :
           /\ By(metrics', p) = RowsOf(p, ComputeMetrics(Data(R, L)'))
           /\ By(segments', p) = RowsOf(p, ComputeSegments(Data(R, L)'))
  BY <1>1 DEF RowsWhole
<1>4. \A q \in People : At(q, "aggregate", "written")' =>
        \/ By(view'[q].victims, p) = {}
        \/ p \in Aggregated' /\ By(metrics', p) \subseteq view'[q].victims
  BY DEF RowsWhole
<1> QED BY <1>2, <1>3, <1>4

\* The DELETE of an aggregate_run finds all rows of a chain that are there.
LEMMA RowsDelete ==
    ASSUME TypeOK, RowsWhole, NEW p \in People, DeleteMetrics(p) PROVE RowsWhole'
<1> USE DEF DeleteMetrics, tables, jobs
<1>1. \A R, L : Data(R, L)' = Data(R, L)
  BY DEF Data
<1>2. Aggregated' = Aggregated
  BY DEF Aggregated
<1>3. /\ view'[p].victims = metrics \cup segments
      /\ \A q \in People \ {p} : At(q, "aggregate", "written")' =>
           At(q, "aggregate", "written") /\ view'[q] = view[q]
  BY DEF TypeOK, Goto, At, NoView
<1> SUFFICES ASSUME NEW o \in People
             PROVE  /\ o \notin Aggregated' => By(metrics', o) = {} /\ By(segments', o) = {}
                    /\ \/ By(metrics', o) = {}
                       \/ \E R, L \in SUBSET People :
                            /\ By(metrics', o) = RowsOf(o, ComputeMetrics(Data(R, L)'))
                            /\ By(segments', o) = RowsOf(o, ComputeSegments(Data(R, L)'))
                    /\ \A q \in People : At(q, "aggregate", "written")' =>
                         \/ By(view'[q].victims, o) = {}
                         \/ o \in Aggregated' /\ By(metrics', o) \subseteq view'[q].victims
  BY DEF RowsWhole
<1>4. o \notin Aggregated' => By(metrics', o) = {} /\ By(segments', o) = {}
  BY <1>2 DEF RowsWhole
<1>5. \/ By(metrics', o) = {}
      \/ \E R, L \in SUBSET People :
           /\ By(metrics', o) = RowsOf(o, ComputeMetrics(Data(R, L)'))
           /\ By(segments', o) = RowsOf(o, ComputeSegments(Data(R, L)'))
  BY <1>1 DEF RowsWhole
<1>6. ASSUME NEW q \in People, At(q, "aggregate", "written")'
      PROVE  \/ By(view'[q].victims, o) = {}
             \/ o \in Aggregated' /\ By(metrics', o) \subseteq view'[q].victims
  <2>1. CASE q = p
    <3>1. CASE o \in Aggregated
      BY <1>2, <1>3, <2>1, <3>1 DEF By
    <3>2. CASE o \notin Aggregated
      BY <1>3, <2>1, <3>2 DEF By, RowsWhole
    <3> QED BY <3>1, <3>2
  <2>2. CASE q # p
    BY <1>2, <1>3, <1>6, <2>2 DEF RowsWhole
  <2> QED BY <2>1, <2>2
<1> QED BY <1>4, <1>5, <1>6

\* Its commit takes them as a whole, and adds its own as a whole.
LEMMA RowsCommit ==
    ASSUME TypeOK, RowsWhole, NEW p \in People, CommitMetrics(p) PROVE RowsWhole'
<1> DEFINE data  == Data(view[p].runs, view[p].logs)
           found == RowsOf(p, ComputeMetrics(data))
           halves == RowsOf(p, ComputeSegments(data))
<1>1. /\ metrics' = (metrics \ view[p].victims) \cup found
      /\ segments' = (segments \ view[p].victims) \cup halves
      /\ At(p, "aggregate", "written") /\ Follow(p, "validate")
      /\ UNCHANGED outcome
  BY DEF CommitMetrics, RowsOf
<1>2. By(found, p) = found /\ By(halves, p) = halves
      /\ \A o \in People \ {p} : By(found, o) = {} /\ By(halves, o) = {}
  BY DEF By, RowsOf
<1>3. \E R, L \in SUBSET People : data = Data(R, L)
  <2> WITNESS People \cap view[p].runs \in SUBSET People,
              People \cap view[p].logs \in SUBSET People
  <2> QED BY DEF Data
<1> HIDE DEF found, halves
<1>4. \A R, L : Data(R, L)' = Data(R, L)
  BY <1>1 DEF Data
<1>5. /\ p \notin Aggregated /\ Aggregated' = Aggregated \cup {p}
      /\ \A q \in People : At(q, "aggregate", "written")' =>
           q # p /\ At(q, "aggregate", "written") /\ view'[q] = view[q]
  BY <1>1 DEF TypeOK, Follow, Goto, At, Aggregated
<1> SUFFICES ASSUME NEW o \in People
             PROVE  /\ o \notin Aggregated' => By(metrics', o) = {} /\ By(segments', o) = {}
                    /\ \/ By(metrics', o) = {}
                       \/ \E R, L \in SUBSET People :
                            /\ By(metrics', o) = RowsOf(o, ComputeMetrics(Data(R, L)'))
                            /\ By(segments', o) = RowsOf(o, ComputeSegments(Data(R, L)'))
                    /\ \A q \in People : At(q, "aggregate", "written")' =>
                         \/ By(view'[q].victims, o) = {}
                         \/ o \in Aggregated' /\ By(metrics', o) \subseteq view'[q].victims
  BY DEF RowsWhole
<1>6. CASE o = p
  <2>1. By(metrics, p) = {} /\ By(segments, p) = {}
    BY <1>5 DEF RowsWhole
  <2>2. By(metrics', p) = found /\ By(segments', p) = halves
    BY <1>1, <1>2, <2>1 DEF By
  <2>3. \E R, L \in SUBSET People :
          /\ By(metrics', o) = RowsOf(o, ComputeMetrics(Data(R, L)'))
          /\ By(segments', o) = RowsOf(o, ComputeSegments(Data(R, L)'))
    BY <1>3, <1>4, <1>6, <2>2 DEF found, halves
  <2>4. \A q \in People : At(q, "aggregate", "written")' => By(view'[q].victims, o) = {}
    BY <1>5, <1>6 DEF RowsWhole
  <2> QED BY <1>5, <1>6, <2>3, <2>4
<1>7. CASE o # p
  <2>1. /\ By(metrics', o) = By(metrics, o) \ view[p].victims
        /\ By(segments', o) = By(segments, o) \ view[p].victims
    BY <1>1, <1>2, <1>7 DEF By
  <2>2. o \notin Aggregated' => By(metrics', o) = {} /\ By(segments', o) = {}
    BY <1>5, <2>1 DEF RowsWhole
  <2>3. \/ By(metrics', o) = {}
        \/ By(metrics', o) = By(metrics, o) /\ By(segments', o) = By(segments, o)
    <3>1. By(view[p].victims, o) = {} \/ By(metrics, o) \subseteq view[p].victims
      BY <1>1 DEF RowsWhole
    <3> QED BY <2>1, <3>1 DEF By
  <2>4. \/ By(metrics', o) = {}
        \/ \E R, L \in SUBSET People :
             /\ By(metrics', o) = RowsOf(o, ComputeMetrics(Data(R, L)'))
             /\ By(segments', o) = RowsOf(o, ComputeSegments(Data(R, L)'))
    BY <1>4, <2>3 DEF RowsWhole
  <2>5. \A q \in People : At(q, "aggregate", "written")' =>
          \/ By(view'[q].victims, o) = {}
          \/ o \in Aggregated' /\ By(metrics', o) \subseteq view'[q].victims
    BY <1>5, <2>1 DEF RowsWhole
  <2> QED BY <2>2, <2>4, <2>5
<1> QED BY <1>6, <1>7

\* Every step keeps the rows of a chain together.
LEMMA RowsStep == ASSUME ChainInv, RowsWhole, [Next]_vars PROVE RowsWhole'
<1> USE DEF ChainInv
<1>1. CASE UNCHANGED vars
  BY <1>1, RowsStay DEF vars, Aggregated, At
<1>2. CASE Next
  <2>1. PICK p \in People : \/ Finalize(p) \/ Claim(p) \/ HandlerRaises(p)
                            \/ Aggregate(p) \/ Evaluate(p)
    BY <1>2 DEF Next
  <2> USE DEF At, Aggregated, tables, jobs, TypeOK, Goto, Follow
  <2>2. CASE Finalize(p)
    BY <2>2, RowsStay DEF Finalize, JobsFit
  <2>3. CASE Claim(p) \/ HandlerRaises(p)
    BY <2>3, RowsStay DEF Claim, HandlerRaises
  <2>4. CASE ReadRuns(p) \/ ReadObservations(p) \/ ReadMetrics(p) \/ ReadSegments(p)
    BY <2>4, RowsStay DEF ReadRuns, ReadObservations, ReadMetrics, ReadSegments
  <2>5. CASE DeleteValidation(p) \/ WriteInsights(p)
    BY <2>5, RowsStay DEF DeleteValidation, WriteInsights
  <2>6. CASE CommitValidation(p) \/ CommitInsights(p)
    BY <2>6, RowsStay DEF CommitValidation, CommitInsights
  <2>7. CASE DeleteMetrics(p) \/ CommitMetrics(p)
    BY <2>7, RowsDelete, RowsCommit
  <2> QED BY <2>1, <2>2, <2>3, <2>4, <2>5, <2>6, <2>7 DEF Aggregate, Evaluate
<1> QED BY <1>1, <1>2

\* A chain's rows are all it has computed, or none, however the jobs overlap.
LEMMA RowsSafe == Spec => [](ChainInv /\ RowsWhole)
<1>1. Init => ChainInv /\ RowsWhole
  <2>1. Init => RowsWhole
    BY DEF Init, RowsWhole, By, At
  <2> QED BY <2>1, InitChain
<1>2. ChainInv /\ RowsWhole /\ [Next]_vars => (ChainInv /\ RowsWhole)'
  BY ChainStep, RowsStep
<1> QED BY <1>1, <1>2, PTL DEF Spec

\* What the segments of a trait are added up by.
Parts(S) == Sum(LAMBDA r : r.value.num, S)

\* What the fold of a sum comes to on two rows at most.
LEMMA PartsOfTwo ==
   ASSUME NEW a, NEW b, a # b, a.value.num \in Int, b.value.num \in Int
   PROVE /\ Parts({}) = 0 /\ Parts({a}) = a.value.num
         /\ Parts({a, b}) = a.value.num + b.value.num
<1> DEFINE P(s) == LET x == CHOOSE x \in s : TRUE IN x
           iter(T) == CHOOSE g : g = [s \in SUBSET T |->
                                IF s = {} THEN 0 ELSE P(s).value.num + g[s \ {P(s)}]]
           val(s) == IF s = {} THEN 0 ELSE IF s = {a} THEN a.value.num
                     ELSE IF s = {b} THEN b.value.num ELSE a.value.num + b.value.num
<1>1. \A T : Parts(T) = iter(T)[T]
  BY DEF Parts, Sum, MapThenSumSet, MapThenFoldSet
<1>2. P({a}) = a /\ P({b}) = b /\ (P({a, b}) = a \/ P({a, b}) = b)
  <2>1. P({a}) \in {a} /\ P({b}) \in {b} /\ P({a, b}) \in {a, b}
    OBVIOUS
  <2> QED BY <2>1
<1> HIDE DEF P
<1>3. /\ {a} \ {a} = {} /\ {b} \ {b} = {} /\ {a, b} \ {a} = {b} /\ {a, b} \ {b} = {a}
      /\ {a} # {} /\ {b} # {} /\ {a, b} # {} /\ {a} # {b} /\ {a, b} # {a} /\ {a, b} # {b}
  OBVIOUS
<1>4. /\ val({}) = 0
      /\ val({a}) = a.value.num
      /\ val({b}) = b.value.num
      /\ val({a, b}) = a.value.num + b.value.num
  BY <1>3
<1> HIDE DEF val
<1>5. ASSUME NEW s \in {{}, {a}, {b}, {a, b}}
      PROVE  val(s) = IF s = {} THEN 0 ELSE P(s).value.num + val(s \ {P(s)})
  <2> DEFINE rest == s \ {P(s)}
  <2>1. \/ s = {}
        \/ s = {a} /\ P(s) = a /\ rest = {}
        \/ s = {b} /\ P(s) = b /\ rest = {}
        \/ s = {a, b} /\ P(s) = a /\ rest = {b}
        \/ s = {a, b} /\ P(s) = b /\ rest = {a}
    BY <1>2, <1>3, Zenon
  <2> HIDE DEF rest
  <2>2. val(s) = IF s = {} THEN 0 ELSE P(s).value.num + val(rest)
    <3>1. CASE s = {a, b} /\ P(s) = b /\ rest = {a}
      BY <3>1, <1>3, <1>4
    <3>2. CASE s = {a, b} /\ P(s) = a /\ rest = {b}
      BY <3>2, <1>3, <1>4
    <3>3. CASE s = {}
      BY <3>3, <1>4
    <3>4. CASE s = {a} /\ P(s) = a /\ rest = {}
      BY <3>4, <1>3, <1>4
    <3>5. CASE s = {b} /\ P(s) = b /\ rest = {}
      <4>1. val(s) = b.value.num /\ val(rest) = 0 /\ s # {} /\ P(s) = b
        BY <3>5, <1>3, <1>4
      <4> QED BY <4>1
    <3> QED BY <2>1, <3>1, <3>2, <3>3, <3>4, <3>5
  <2> QED BY <2>2 DEF rest
<1>6. ASSUME NEW T \in SUBSET {a, b} PROVE iter(T)[T] = val(T)
  <2> DEFINE G == [s \in SUBSET T |-> val(s)]
             I == iter(T)
  <2>1. \A s \in SUBSET {a, b} : s \in {{}, {a}, {b}, {a, b}}
    OBVIOUS
  <2>2. G = [s \in SUBSET T |-> IF s = {} THEN 0 ELSE P(s).value.num + G[s \ {P(s)}]]
    <3>1. \A s \in SUBSET T : s \ {P(s)} \in SUBSET T /\ s \in {{}, {a}, {b}, {a, b}}
      BY <2>1
    <3>2. \A s \in SUBSET T : G[s] = IF s = {} THEN 0 ELSE P(s).value.num + G[s \ {P(s)}]
      BY <1>5, <3>1
    <3> QED BY <3>2
  <2>3. I = [s \in SUBSET T |-> IF s = {} THEN 0 ELSE P(s).value.num + I[s \ {P(s)}]]
    BY <2>2
  <2> HIDE DEF I
  <2>4. \A s \in SUBSET T : I[s] = IF s = {} THEN 0 ELSE P(s).value.num + I[s \ {P(s)}]
    BY <2>3
  <2>5. I[{}] = 0
    BY <2>4
  <2>6. a \in T => I[{a}] = a.value.num
    <3> SUFFICES ASSUME a \in T PROVE I[{a}] = a.value.num
      OBVIOUS
    <3>1. I[{a}] = a.value.num + I[{}]
      BY <2>4, <1>2, <1>3
    <3> QED BY <3>1, <2>5
  <2>7. b \in T => I[{b}] = b.value.num
    <3> SUFFICES ASSUME b \in T PROVE I[{b}] = b.value.num
      OBVIOUS
    <3>1. I[{b}] = b.value.num + I[{}]
      BY <2>4, <1>2, <1>3
    <3> QED BY <3>1, <2>5
  <2>8. T = {a, b} => I[{a, b}] = a.value.num + b.value.num
    <3> SUFFICES ASSUME T = {a, b} PROVE I[{a, b}] = a.value.num + b.value.num
      OBVIOUS
    <3>1. I[{a, b}] = a.value.num + I[{b}] \/ I[{a, b}] = b.value.num + I[{a}]
      BY <2>4, <1>2, <1>3
    <3> QED BY <3>1, <2>6, <2>7
  <2>9. T \in {{}, {a}, {b}, {a, b}}
    BY <2>1
  <2>10. I[T] = val(T)
    BY <2>5, <2>6, <2>7, <2>8, <2>9, <1>4
  <2> QED BY <2>10 DEF I
<1>7. Parts({}) = val({}) /\ Parts({a}) = val({a}) /\ Parts({a, b}) = val({a, b})
  BY <1>1, <1>6
<1> QED BY <1>4, <1>7
Sizes(S) == Sum(LAMBDA r : r.size, S)

\* The same for their samples.
LEMMA SizesOfTwo ==
   ASSUME NEW a, NEW b, a # b, a.size \in Int, b.size \in Int
   PROVE /\ Sizes({}) = 0 /\ Sizes({a}) = a.size
         /\ Sizes({a, b}) = a.size + b.size
<1> DEFINE P(s) == LET x == CHOOSE x \in s : TRUE IN x
           iter(T) == CHOOSE g : g = [s \in SUBSET T |->
                                IF s = {} THEN 0 ELSE P(s).size + g[s \ {P(s)}]]
           val(s) == IF s = {} THEN 0 ELSE IF s = {a} THEN a.size
                     ELSE IF s = {b} THEN b.size ELSE a.size + b.size
<1>1. \A T : Sizes(T) = iter(T)[T]
  BY DEF Sizes, Sum, MapThenSumSet, MapThenFoldSet
<1>2. P({a}) = a /\ P({b}) = b /\ (P({a, b}) = a \/ P({a, b}) = b)
  <2>1. P({a}) \in {a} /\ P({b}) \in {b} /\ P({a, b}) \in {a, b}
    OBVIOUS
  <2> QED BY <2>1
<1> HIDE DEF P
<1>3. /\ {a} \ {a} = {} /\ {b} \ {b} = {} /\ {a, b} \ {a} = {b} /\ {a, b} \ {b} = {a}
      /\ {a} # {} /\ {b} # {} /\ {a, b} # {} /\ {a} # {b} /\ {a, b} # {a} /\ {a, b} # {b}
  OBVIOUS
<1>4. val({}) = 0 /\ val({a}) = a.size /\ val({b}) = b.size /\ val({a, b}) = a.size + b.size
  BY <1>3
<1> HIDE DEF val
<1>5. ASSUME NEW s \in {{}, {a}, {b}, {a, b}}
      PROVE  val(s) = IF s = {} THEN 0 ELSE P(s).size + val(s \ {P(s)})
  <2> DEFINE rest == s \ {P(s)}
  <2>1. \/ s = {}
        \/ s = {a} /\ P(s) = a /\ rest = {}
        \/ s = {b} /\ P(s) = b /\ rest = {}
        \/ s = {a, b} /\ P(s) = a /\ rest = {b}
        \/ s = {a, b} /\ P(s) = b /\ rest = {a}
    BY <1>2, <1>3, Zenon
  <2> HIDE DEF rest
  <2>2. val(s) = IF s = {} THEN 0 ELSE P(s).size + val(rest)
    <3>1. CASE s = {a, b} /\ P(s) = b /\ rest = {a}
      BY <3>1, <1>3, <1>4
    <3>2. CASE s = {a, b} /\ P(s) = a /\ rest = {b}
      BY <3>2, <1>3, <1>4
    <3>3. CASE s = {}
      BY <3>3, <1>4
    <3>4. CASE s = {a} /\ P(s) = a /\ rest = {}
      BY <3>4, <1>3, <1>4
    <3>5. CASE s = {b} /\ P(s) = b /\ rest = {}
      <4>1. val(s) = b.size /\ val(rest) = 0 /\ s # {} /\ P(s) = b
        BY <3>5, <1>3, <1>4
      <4> QED BY <4>1
    <3> QED BY <2>1, <3>1, <3>2, <3>3, <3>4, <3>5
  <2> QED BY <2>2 DEF rest
<1>6. ASSUME NEW T \in SUBSET {a, b} PROVE iter(T)[T] = val(T)
  <2> DEFINE G == [s \in SUBSET T |-> val(s)]
             I == iter(T)
  <2>1. \A s \in SUBSET {a, b} : s \in {{}, {a}, {b}, {a, b}}
    OBVIOUS
  <2>2. G = [s \in SUBSET T |-> IF s = {} THEN 0 ELSE P(s).size + G[s \ {P(s)}]]
    <3>1. \A s \in SUBSET T : s \ {P(s)} \in SUBSET T /\ s \in {{}, {a}, {b}, {a, b}}
      BY <2>1
    <3>2. \A s \in SUBSET T : G[s] = IF s = {} THEN 0 ELSE P(s).size + G[s \ {P(s)}]
      BY <1>5, <3>1
    <3> QED BY <3>2
  <2>3. I = [s \in SUBSET T |-> IF s = {} THEN 0 ELSE P(s).size + I[s \ {P(s)}]]
    BY <2>2
  <2> HIDE DEF I
  <2>4. \A s \in SUBSET T : I[s] = IF s = {} THEN 0 ELSE P(s).size + I[s \ {P(s)}]
    BY <2>3
  <2>5. I[{}] = 0
    BY <2>4
  <2>6. a \in T => I[{a}] = a.size
    <3> SUFFICES ASSUME a \in T PROVE I[{a}] = a.size
      OBVIOUS
    <3>1. I[{a}] = a.size + I[{}]
      BY <2>4, <1>2, <1>3
    <3> QED BY <3>1, <2>5
  <2>7. b \in T => I[{b}] = b.size
    <3> SUFFICES ASSUME b \in T PROVE I[{b}] = b.size
      OBVIOUS
    <3>1. I[{b}] = b.size + I[{}]
      BY <2>4, <1>2, <1>3
    <3> QED BY <3>1, <2>5
  <2>8. T = {a, b} => I[{a, b}] = a.size + b.size
    <3> SUFFICES ASSUME T = {a, b} PROVE I[{a, b}] = a.size + b.size
      OBVIOUS
    <3>1. I[{a, b}] = a.size + I[{b}] \/ I[{a, b}] = b.size + I[{a}]
      BY <2>4, <1>2, <1>3
    <3> QED BY <3>1, <2>6, <2>7
  <2>9. T \in {{}, {a}, {b}, {a, b}}
    BY <2>1
  <2>10. I[T] = val(T)
    BY <2>5, <2>6, <2>7, <2>8, <2>9, <1>4
  <2> QED BY <2>10 DEF I
<1>7. Sizes({}) = val({}) /\ Sizes({a}) = val({a}) /\ Sizes({a, b}) = val({a, b})
  BY <1>1, <1>6
<1> QED BY <1>4, <1>7
\* The only row named completion_rate counts everybody.
LEMMA CompletionRow ==
    ASSUME NEW runs, NEW x \in ComputeMetrics(runs), x.metric = "completion_rate"
    PROVE  /\ x.value.num = Count(runs, Completed)
           /\ x.size = Cardinality(DOMAIN runs)
<1>1. CASE x \in TaskSuccess(runs)
  BY <1>1 DEF TaskSuccess, Row, Share
<1>2. CASE x \in DeadEndRates(runs)
  BY <1>2 DEF DeadEndRates, DeadEndRate, Row
<1>3. CASE x \in Excess(runs)
  <2>1. \E k, n : x \in {Row("friction", "excess_actions", k, n),
                         Row("friction", "excess_screens", k, n)}
    BY <1>3, Zenon DEF Excess
  <2> QED BY <2>1 DEF Row
<1>4. ASSUME NEW e \in Elements(runs),
             \/ x \in InteractionRates(runs, e) \/ x \in RevisitRate(runs, e)
             \/ x \in AttentionShare(runs, e)
             \/ x \in FirstAttentionRate(runs, e) \/ x \in HesitationTime(runs, e)
      PROVE  FALSE
  <2>1. CASE x \in InteractionRates(runs, e)
    BY <2>1 DEF InteractionRates, OfElement, Row
  <2>2. CASE x \in RevisitRate(runs, e)
    BY <2>2 DEF RevisitRate, OfElement, Row
  <2>3. CASE x \in AttentionShare(runs, e)
    BY <2>3 DEF AttentionShare, OfElement, Row
  <2>4. CASE x \in FirstAttentionRate(runs, e)
    BY <2>4 DEF FirstAttentionRate, OfElement, Row
  <2>5. CASE x \in HesitationTime(runs, e)
    BY <2>5 DEF HesitationTime, OfElement, Row
  <2> QED BY <1>4, <2>1, <2>2, <2>3, <2>4, <2>5
<1> QED BY <1>1, <1>2, <1>3, <1>4 DEF ComputeMetrics

\* A segment's row of that name, and the only one.
Half(segment, runs) ==
  SegmentRow(segment, "completion_rate", Count(runs, Completed), Cardinality(DOMAIN runs))

\* The only row of that name.
LEMMA HalfRow ==
    ASSUME NEW segment, NEW runs, NEW x
    PROVE  x \in SegmentValues(segment, runs) /\ x.metric = "completion_rate"
             <=> x = Half(segment, runs)
<1>1. /\ Half(segment, runs) \in SegmentValues(segment, runs)
      /\ Half(segment, runs).metric = "completion_rate"
  BY DEF Half, SegmentValues, SegmentRow
<1>2. ASSUME x \in SegmentValues(segment, runs), x.metric = "completion_rate"
      PROVE  x = Half(segment, runs)
  <2>1. \/ x = Half(segment, runs)
        \/ \E metric \in {"abandonment_rate", "backtrack_rate", "click_rate", "task_time_ms",
                          "attention_dwell_ms", "first_attention_rate"} :
             \E part, n : x = SegmentRow(segment, metric, part, n)
    BY <1>2 DEF Half, SegmentValues
  <2> QED BY <1>2, <2>1 DEF SegmentRow
<1> QED BY <1>1, <1>2

\* Who of S completed the task.
CompletedIn(R, L, S) == Count([p \in S |-> Data(R, L)[p]], Completed)

\* Low and high divide the participants, and those who completed.
LEMMA CompletedAddUp ==
    ASSUME NEW R, NEW L, NEW t, NEW low, NEW high,
           low = Members(Data(R, L), t, "low"), high = Members(Data(R, L), t, "high")
    PROVE  /\ Cardinality(low) \in Nat /\ Cardinality(high) \in Nat
           /\ Cardinality(low) + Cardinality(high) = Cardinality(DOMAIN Data(R, L))
           /\ CompletedIn(R, L, low) \in Nat /\ CompletedIn(R, L, high) \in Nat
           /\ CompletedIn(R, L, low) + CompletedIn(R, L, high) = Count(Data(R, L), Completed)
           /\ low = {} => Cardinality(low) = 0 /\ CompletedIn(R, L, low) = 0
           /\ high = {} => Cardinality(high) = 0 /\ CompletedIn(R, L, high) = 0
<1> DEFINE data == Data(R, L)
           done(S) == {p \in S : Completed(data[p])}
<1>1. DOMAIN data = People /\ \A p \in People : data[p].traits = Traits[p]
  BY DEF Data
<1>2. \A p \in People : Trait(data[p], t) \in Int /\ DOMAIN data[p].traits # {}
  BY <1>1, ChainAssumption DEF Trait
<1>3. \A S \in SUBSET People : Count([p \in S |-> data[p]], Completed) = Cardinality(done(S))
  BY DEF Count, With
<1>4. Count(data, Completed) = Cardinality(done(People))
  BY <1>1 DEF Count, With
<1>5. /\ low = {p \in People : Trait(data[p], t) < Threshold}
      /\ high = {p \in People : Trait(data[p], t) >= Threshold}
  BY <1>1, <1>2 DEF Members, With
<1> HIDE DEF data
<1>6. low \cup high = People /\ low \cap high = {}
  BY <1>2, <1>5 DEF Threshold
<1>7. done(low) \cup done(high) = done(People) /\ done(low) \cap done(high) = {}
  BY <1>6
<1>8. IsFiniteSet(low) /\ IsFiniteSet(high) /\ IsFiniteSet(done(low)) /\ IsFiniteSet(done(high))
  <2>1. /\ low \in SUBSET People
        /\ high \in SUBSET People
        /\ done(low) \in SUBSET People
        /\ done(high) \in SUBSET People
    BY <1>6
  <2> QED BY <2>1, ChainAssumption, FS_Subset
<1>9. Cardinality(low \cup high) =
        Cardinality(low) + Cardinality(high) - Cardinality(low \cap high)
  BY <1>8, FS_Union
<1>10. Cardinality(done(low) \cup done(high)) =
         Cardinality(done(low)) + Cardinality(done(high)) - Cardinality(done(low) \cap done(high))
  BY <1>8, FS_Union
<1>11. Cardinality({}) = 0 /\ \A S : IsFiniteSet(S) => Cardinality(S) \in Nat
  BY FS_EmptySet, FS_CardinalityType
<1>12. low = {} => done(low) = {}
  OBVIOUS
<1>13. high = {} => done(high) = {}
  OBVIOUS
<1>14. /\ Count([p \in low |-> data[p]], Completed) = Cardinality(done(low))
       /\ Count([p \in high |-> data[p]], Completed) = Cardinality(done(high))
  BY <1>3, <1>6
<1> HIDE DEF done
<1>15. /\ Cardinality(low) + Cardinality(high) = Cardinality(DOMAIN data)
       /\ Cardinality(done(low)) + Cardinality(done(high)) = Cardinality(done(People))
       /\ \A S \in {low, high, done(low), done(high)} : Cardinality(S) \in Nat
  <2>1. \A S \in {low, high, done(low), done(high)} : Cardinality(S) \in Nat
    BY <1>8, <1>11
  <2>2. Cardinality(low) + Cardinality(high) = Cardinality(DOMAIN data)
    <3>1. /\ Cardinality(low \cup high) = Cardinality(DOMAIN data)
          /\ Cardinality(low \cap high) = 0
      BY <1>1, <1>6, <1>11, Zenon
    <3> QED BY <1>9, <2>1, <3>1
  <2>3. Cardinality(done(low)) + Cardinality(done(high)) = Cardinality(done(People))
    <3>1. /\ Cardinality(done(low) \cup done(high)) = Cardinality(done(People))
          /\ Cardinality(done(low) \cap done(high)) = 0
      BY <1>7, <1>11, Zenon
    <3> QED BY <1>10, <2>1, <3>1
  <2> QED BY <2>1, <2>2, <2>3
<1> HIDE DEF data
<1>16. low = {} => Cardinality(low) = 0 /\ Cardinality(done(low)) = 0
  BY <1>11, <1>12
<1>17. high = {} => Cardinality(high) = 0 /\ Cardinality(done(high)) = 0
  BY <1>11, <1>13
<1> QED BY <1>4, <1>14, <1>15, <1>16, <1>17 DEF data, CompletedIn

\* The rows of a trait are those of its halves that are not empty.
LEMMA HalvesOf ==
    ASSUME NEW R, NEW L, NEW q \in People, NEW t \in DOMAIN Traits[q], NEW r
    PROVE  LET data == Data(R, L)
               half(h) == Half(<<t, h>>, [p \in Members(data, t, h) |-> data[p]])
           IN  /\ r \in ComputeSegments(data)
               /\ r.metric = "completion_rate" /\ r.segment[1] = t
               <=> \E h \in {"low", "high"} : Members(data, t, h) # {} /\ r = half(h)
<1> DEFINE data == Data(R, L)
           traits == UNION {DOMAIN data[p].traits : p \in DOMAIN data}
           part(s) == [p \in Members(data, s[1], s[2]) |-> data[p]]
           half(h) == Half(<<t, h>>, [p \in Members(data, t, h) |-> data[p]])
<1>1. \A x : x \in ComputeSegments(data) <=>
        \E s \in traits \X {"low", "high"} :
          Members(data, s[1], s[2]) # {} /\ x \in SegmentValues(s, part(s))
  BY DEF ComputeSegments
<1>2. t \in traits
  BY DEF Data
<1> HIDE DEF data, traits
<1>3. ASSUME r \in ComputeSegments(data), r.metric = "completion_rate", r.segment[1] = t
      PROVE  \E h \in {"low", "high"} : Members(data, t, h) # {} /\ r = half(h)
  <2>1. PICK s \in traits \X {"low", "high"} :
          Members(data, s[1], s[2]) # {} /\ r \in SegmentValues(s, part(s))
    BY <1>1, <1>3
  <2>2. r = Half(s, part(s))
    BY <1>3, <2>1, HalfRow
  <2>3. r.segment = s
    BY <2>2 DEF Half, SegmentRow
  <2>4. s[1] = t /\ s[2] \in {"low", "high"} /\ s = <<t, s[2]>>
    BY <1>3, <2>1, <2>3
  <2>5. r = half(s[2])
    BY <2>2, <2>4
  <2> QED BY <2>1, <2>4, <2>5
<1>4. ASSUME NEW h \in {"low", "high"}, Members(data, t, h) # {}, r = half(h)
      PROVE  r \in ComputeSegments(data) /\ r.metric = "completion_rate" /\ r.segment[1] = t
  <2>1. r \in SegmentValues(<<t, h>>, part(<<t, h>>)) /\ r.metric = "completion_rate"
    BY <1>4, HalfRow
  <2>2. r \in ComputeSegments(data)
    BY <1>1, <1>2, <1>4, <2>1
  <2>3. r.segment = <<t, h>>
    BY <1>4 DEF Half, SegmentRow
  <2> QED BY <2>1, <2>2, <2>3
<1> QED BY <1>3, <1>4 DEF data

\* They add up.
LEMMA HalvesAddUp ==
    ASSUME NEW R, NEW L, NEW q \in People, NEW t \in DOMAIN Traits[q], NEW halves,
           \A r : r \in halves <=> /\ r \in ComputeSegments(Data(R, L))
                                   /\ r.metric = "completion_rate" /\ r.segment[1] = t
    PROVE  /\ Parts(halves) = Count(Data(R, L), Completed)
           /\ Sizes(halves) = Cardinality(DOMAIN Data(R, L))
<1> DEFINE data == Data(R, L)
           of(h) == Members(data, t, h)
           half(h) == Half(<<t, h>>, [p \in of(h) |-> data[p]])
           low == half("low")
           high == half("high")
           done(S) == CompletedIn(R, L, S)
<1>1. \A r : r \in halves <=> (of("low") # {} /\ r = low) \/ (of("high") # {} /\ r = high)
  BY HalvesOf
<1>2. \A h : half(h).value.num = done(of(h)) /\ half(h).size = Cardinality(of(h))
  BY DEF Half, SegmentRow, Share, CompletedIn
<1>3. low # high
  BY DEF Half, SegmentRow
<1>4. /\ Cardinality(of("low")) \in Nat /\ Cardinality(of("high")) \in Nat
      /\ Cardinality(of("low")) + Cardinality(of("high")) = Cardinality(DOMAIN data)
      /\ done(of("low")) \in Nat /\ done(of("high")) \in Nat
      /\ done(of("low")) + done(of("high")) = Count(data, Completed)
      /\ (of("low") = {} => Cardinality(of("low")) = 0 /\ done(of("low")) = 0)
      /\ (of("high") = {} => Cardinality(of("high")) = 0 /\ done(of("high")) = 0)
  BY CompletedAddUp
<1>5. /\ low.value.num = done(of("low")) /\ low.size = Cardinality(of("low"))
      /\ high.value.num = done(of("high")) /\ high.size = Cardinality(of("high"))
  BY <1>2
<1> HIDE DEF low, high, of, done
<1>6. /\ low.value.num \in Int /\ high.value.num \in Int /\ low.size \in Int /\ high.size \in Int
  BY <1>4, <1>5
<1>7. /\ Parts({}) = 0 /\ Parts({low}) = low.value.num /\ Parts({high}) = high.value.num
      /\ Parts({low, high}) = low.value.num + high.value.num
  <2>1. {low, high} = {high, low}
    OBVIOUS
  <2> QED BY <1>3, <1>6, <2>1, PartsOfTwo
<1>8. /\ Sizes({}) = 0 /\ Sizes({low}) = low.size /\ Sizes({high}) = high.size
      /\ Sizes({low, high}) = low.size + high.size
  <2>1. {low, high} = {high, low}
    OBVIOUS
  <2> QED BY <1>3, <1>6, <2>1, SizesOfTwo
<1>9. CASE of("low") # {} /\ of("high") # {}
  <2>1. halves = {low, high}
    BY <1>1, <1>9
  <2> QED BY <1>4, <1>5, <1>7, <1>8, <2>1 DEF data
<1>10. CASE of("low") = {} /\ of("high") # {}
  <2>1. halves = {high}
    BY <1>1, <1>10
  <2> QED BY <1>4, <1>5, <1>7, <1>8, <1>10, <2>1 DEF data
<1>11. CASE of("low") # {} /\ of("high") = {}
  <2>1. halves = {low}
    BY <1>1, <1>11
  <2> QED BY <1>4, <1>5, <1>7, <1>8, <1>11, <2>1 DEF data
<1>12. CASE of("low") = {} /\ of("high") = {}
  <2>1. halves = {}
    BY <1>1, <1>12
  <2> QED BY <1>4, <1>5, <1>7, <1>8, <1>12, <2>1 DEF data
<1> QED BY <1>9, <1>10, <1>11, <1>12

\* So do those of a chain, which are there as a whole.
LEMMA WholeRowsAddUp == TypeOK /\ RowsWhole => SegmentsAddUp
<1> SUFFICES ASSUME TypeOK, RowsWhole, NEW x \in metrics, x.row.metric = "completion_rate",
                    NEW q \in People, NEW t \in DOMAIN Traits[q]
             PROVE  LET halves == {y.row : y \in {z \in segments : /\ z.by = x.by
                                                       /\ z.row.metric = "completion_rate"
                                                       /\ z.row.segment[1] = t}}
                    IN  /\ Sum(LAMBDA r : r.value.num, halves) = x.row.value.num
                        /\ Sum(LAMBDA r : r.size, halves) = x.row.size
  BY DEF SegmentsAddUp
<1> DEFINE halves == {y.row : y \in {z \in segments : /\ z.by = x.by
                                                       /\ z.row.metric = "completion_rate"
                                                       /\ z.row.segment[1] = t}}
<1>1. x.by \in People /\ x \in By(metrics, x.by)
  BY DEF TypeOK, By
<1>2. PICK R, L \in SUBSET People :
        /\ By(metrics, x.by) = RowsOf(x.by, ComputeMetrics(Data(R, L)))
        /\ By(segments, x.by) = RowsOf(x.by, ComputeSegments(Data(R, L)))
  BY <1>1 DEF RowsWhole
<1>3. x.row \in ComputeMetrics(Data(R, L))
  BY <1>1, <1>2 DEF RowsOf
<1>4. /\ x.row.value.num = Count(Data(R, L), Completed)
      /\ x.row.size = Cardinality(DOMAIN Data(R, L))
  BY <1>3, CompletionRow
<1>5. \A r : r \in halves <=> /\ r \in ComputeSegments(Data(R, L))
                              /\ r.metric = "completion_rate" /\ r.segment[1] = t
  <2>1. \A r : r \in halves <=>
          \E y \in By(segments, x.by) :
            r = y.row /\ r.metric = "completion_rate" /\ r.segment[1] = t
    BY DEF By
  <2> DEFINE row(r) == [by |-> x.by, row |-> r]
  <2>2. \A y : y \in By(segments, x.by) <=> \E r \in ComputeSegments(Data(R, L)) : y = row(r)
    BY <1>2 DEF RowsOf
  <2>3. \A r : row(r).row = r
    OBVIOUS
  <2> HIDE DEF row
  <2> QED BY <2>1, <2>2, <2>3
<1> HIDE DEF halves
<1>6. Parts(halves) = x.row.value.num /\ Sizes(halves) = x.row.size
  BY <1>4, <1>5, HalvesAddUp
<1> QED BY <1>6 DEF Parts, Sizes, halves

\* The segments of a trait divide the participants of a run, and their completions add
\* up to those of the metrics of the same chain, whatever other chains replace
\* (analytics_engine.py:341-407, aggregate_run.py:111-139).
THEOREM SegmentsSafe == Spec => []SegmentsAddUp
<1>1. ChainInv /\ RowsWhole => SegmentsAddUp
  BY WholeRowsAddUp DEF ChainInv
<1> QED BY <1>1, RowsSafe, PTL

-----------------------------------------------------------------------------
(* The baseline of excess actions and screens. *)

\* A set of naturals has a least member.
LEMMA LeastMember ==
    ASSUME NEW T \in SUBSET Nat, T # {}
    PROVE  \E n \in T : \A m \in T : n <= m
<1>1. PICK n \in T : \A y \in T : ~ (<<y, n>> \in OpToRel(<, Nat))
  BY WFMin, NatLessThanWellFounded
<1>2. ASSUME NEW y \in T PROVE n <= y
  <2>1. ~ (<<y, n>> \in OpToRel(<, Nat))
    BY <1>1
  <2>2. <<y, n>> \in OpToRel(<, Nat) <=> y < n
    BY DEF OpToRel
  <2>3. ~ (y < n)
    BY <2>1, <2>2
  <2>4. y \in Nat /\ n \in Nat
    OBVIOUS
  <2> QED BY <2>3, <2>4
<1> QED BY <1>2

\* Induction up to k, for a set.
LEMMA Induction ==
    ASSUME NEW k \in Nat, NEW T, 0 \in T, \A n \in 0..k : n \in T /\ n < k => n + 1 \in T
    PROVE  0..k \subseteq T
<1> SUFFICES ASSUME (0..k) \ T # {} PROVE FALSE
  OBVIOUS
<1> DEFINE rest == (0..k) \ T
<1>1. PICK n \in rest : \A m \in rest : n <= m
  <2>1. rest \in SUBSET Nat /\ rest # {}
    OBVIOUS
  <2> HIDE DEF rest
  <2> QED BY <2>1, LeastMember
<1>2. n # 0 /\ n - 1 \in 0..k
  BY <1>1
<1>3. n - 1 \in T
  BY <1>1, <1>2
<1> QED BY <1>1, <1>2, <1>3

\* A set of walks and those one turn longer.
Longer(W) == W \cup UNION {Turn(w) : w \in W}

\* The recursion that defines Walks has a solution.
LEMMA WalksDef ==
    /\ Walks[0] = {FirstWalk}
    /\ \A n \in 0..Turns : n # 0 => Walks[n] = Longer(Walks[n - 1])
<1> DEFINE Follows(g, k) == \A n \in 0..k : g[n] = IF n = 0 THEN {FirstWalk} ELSE Longer(g[n - 1])
           Defined(k) == \E g : g = [n \in 0..k |-> g[n]] /\ Follows(g, k)
           Good == {k \in Nat : Defined(k)}
<1>1. Turns \in Nat
  BY ChainAssumption DEF Turns
<1>2. 0 \in Good
  <2>1. [n \in 0..0 |-> {FirstWalk}] = [n \in 0..0 |-> [m \in 0..0 |-> {FirstWalk}][n]]
    OBVIOUS
  <2>2. Follows([n \in 0..0 |-> {FirstWalk}], 0)
    OBVIOUS
  <2> QED BY <2>1, <2>2
<1>3. ASSUME NEW k \in 0..Turns, k \in Good PROVE k + 1 \in Good
  <2>1. PICK g : g = [n \in 0..k |-> g[n]] /\ Follows(g, k)
    BY <1>3
  <2> DEFINE h == [n \in 0..(k + 1) |-> IF n \in 0..k THEN g[n] ELSE Longer(g[k])]
  <2>2. h = [n \in 0..(k + 1) |-> h[n]]
    OBVIOUS
  <2>3. \A n \in 0..k : h[n] = g[n]
    OBVIOUS
  <2>4. h[k + 1] = Longer(h[k])
    BY <2>3
  <2> HIDE DEF h
  <2>5. ASSUME NEW n \in 0..(k + 1) PROVE h[n] = IF n = 0 THEN {FirstWalk} ELSE Longer(h[n - 1])
    <3>1. CASE n = k + 1
      BY <2>4, <3>1
    <3>2. CASE n \in 0..k
      <4>1. h[n] = g[n] /\ (n # 0 => h[n - 1] = g[n - 1])
        BY <2>3, <3>2
      <4> QED BY <2>1, <4>1, <3>2
    <3> QED BY <3>1, <3>2
  <2> HIDE DEF Longer
  <2>6. Defined(k + 1)
    BY <2>2, <2>5
  <2> HIDE DEF Defined
  <2> QED BY <2>6
<1> HIDE DEF Good
<1>4. 0..Turns \subseteq Good
  BY <1>1, <1>2, <1>3, Induction
<1>5. Turns \in Good
  BY <1>1, <1>4
<1>6. PICK g : g = [n \in 0..Turns |-> g[n]] /\ Follows(g, Turns)
  BY <1>5 DEF Good
<1>7. g = [n \in 0..Turns |-> IF n = 0 THEN {FirstWalk} ELSE Longer(g[n - 1])]
  BY <1>6
<1>8. Walks = [n \in 0..Turns |-> IF n = 0 THEN {FirstWalk} ELSE Longer(Walks[n - 1])]
  BY <1>7 DEF Walks, Longer
<1>9. \A n \in 0..Turns : Walks[n] = IF n = 0 THEN {FirstWalk} ELSE Longer(Walks[n - 1])
  BY <1>8
<1>10. 0 \in 0..Turns
  BY <1>1
<1> QED BY <1>9, <1>10

\* No screen is further away; and the screens one transition further.
Furthest == Cardinality(Screens)
Nearer(W) == W \cup {t.to : t \in {u \in Leads : u.from \in W}}

\* The recursion that defines Within has a solution.
LEMMA WithinDef ==
    /\ DOMAIN Within = 0..Furthest /\ Within[0] = {Start}
    /\ \A n \in 0..Furthest : n # 0 => Within[n] = Nearer(Within[n - 1])
<1> DEFINE Follows(g, k) == \A n \in 0..k : g[n] = IF n = 0 THEN {Start} ELSE Nearer(g[n - 1])
           Defined(k) == \E g : g = [n \in 0..k |-> g[n]] /\ Follows(g, k)
           Good == {k \in Nat : Defined(k)}
<1>1. Furthest \in Nat
  BY ChainAssumption, FS_CardinalityType DEF Furthest
<1>2. 0 \in Good
  <2>1. [n \in 0..0 |-> {Start}] = [n \in 0..0 |-> [m \in 0..0 |-> {Start}][n]]
    OBVIOUS
  <2>2. Follows([n \in 0..0 |-> {Start}], 0)
    OBVIOUS
  <2> QED BY <2>1, <2>2
<1>3. ASSUME NEW k \in 0..Furthest, k \in Good PROVE k + 1 \in Good
  <2>1. PICK g : g = [n \in 0..k |-> g[n]] /\ Follows(g, k)
    BY <1>3
  <2> DEFINE h == [n \in 0..(k + 1) |-> IF n \in 0..k THEN g[n] ELSE Nearer(g[k])]
  <2>2. h = [n \in 0..(k + 1) |-> h[n]]
    OBVIOUS
  <2>3. \A n \in 0..k : h[n] = g[n]
    OBVIOUS
  <2>4. h[k + 1] = Nearer(h[k])
    BY <2>3
  <2> HIDE DEF h
  <2>5. ASSUME NEW n \in 0..(k + 1) PROVE h[n] = IF n = 0 THEN {Start} ELSE Nearer(h[n - 1])
    <3>1. CASE n = k + 1
      BY <2>4, <3>1
    <3>2. CASE n \in 0..k
      <4>1. h[n] = g[n] /\ (n # 0 => h[n - 1] = g[n - 1])
        BY <2>3, <3>2
      <4> QED BY <2>1, <4>1, <3>2
    <3> QED BY <3>1, <3>2
  <2> HIDE DEF Nearer
  <2>6. Defined(k + 1)
    BY <2>2, <2>5
  <2> HIDE DEF Defined
  <2> QED BY <2>6
<1> HIDE DEF Good
<1>4. 0..Furthest \subseteq Good
  BY <1>1, <1>2, <1>3, Induction
<1>5. Furthest \in Good
  BY <1>1, <1>4
<1>6. PICK g : g = [n \in 0..Furthest |-> g[n]] /\ Follows(g, Furthest)
  BY <1>5 DEF Good
<1>7. g = [n \in 0..Furthest |-> IF n = 0 THEN {Start} ELSE Nearer(g[n - 1])]
  BY <1>6
<1>8. Within = [n \in 0..Furthest |-> IF n = 0 THEN {Start} ELSE Nearer(Within[n - 1])]
  BY <1>7 DEF Within, Nearer, Furthest
<1>9. \A n \in 0..Furthest : Within[n] = IF n = 0 THEN {Start} ELSE Nearer(Within[n - 1])
  BY <1>8
<1>10. 0 \in 0..Furthest
  BY <1>1
<1>11. DOMAIN Within = 0..Furthest
  BY <1>8, Zenon
<1> QED BY <1>9, <1>10, <1>11

\* No transition leaves W for a screen that is there.
Closed(W) == \A t \in Leads : t.from \in W /\ t.to \in Screens => t.to \in W

\* A search of as many rounds as there are screens has found all it can.
LEMMA WithinCloses ==
    ASSUME Start \in Screens
    PROVE  Closed(Within[Furthest])
<1> DEFINE Seen(n) == Within[n] \cap Screens
           Good == {n \in Nat : n <= Furthest =>
                      Cardinality(Seen(n)) >= n + 1 \/ Closed(Within[n])}
<1>1. Furthest \in Nat
  BY ChainAssumption, FS_CardinalityType DEF Furthest
<1>2. \A n : /\ IsFiniteSet(Seen(n))
             /\ Cardinality(Seen(n)) \in Nat /\ Cardinality(Seen(n)) <= Furthest
  <2> SUFFICES ASSUME NEW n
               PROVE  /\ IsFiniteSet(Seen(n))
                      /\ Cardinality(Seen(n)) \in Nat
                      /\ Cardinality(Seen(n)) <= Furthest
    OBVIOUS
  <2>1. Seen(n) \subseteq Screens
    OBVIOUS
  <2> QED BY <2>1, ChainAssumption, FS_Subset, FS_CardinalityType DEF Furthest
<1>3. 0 \in Good
  <2>1. Seen(0) = {Start}
    BY WithinDef
  <2>2. Cardinality({Start}) = 1
    BY FS_Singleton
  <2> QED BY <2>1, <2>2
<1>4. ASSUME NEW n \in 0..Furthest, n \in Good, n < Furthest PROVE n + 1 \in Good
  <2>1. Within[n + 1] = Nearer(Within[n])
    BY <1>1, <1>4, WithinDef
  <2>2. CASE Closed(Within[n])
    <3>1. Closed(Within[n + 1])
      BY <2>1, <2>2, ChainAssumption DEF Closed, Nearer
    <3> QED BY <3>1
  <2>3. CASE ~ Closed(Within[n])
    <3>1. PICK s \in Screens : s \in Within[n + 1] /\ s \notin Within[n]
      BY <2>1, <2>3 DEF Closed, Nearer
    <3>2. Seen(n) \cup {s} \subseteq Seen(n + 1)
      BY <2>1, <3>1 DEF Nearer
    <3>3. /\ IsFiniteSet(Seen(n) \cup {s})
          /\ Cardinality(Seen(n) \cup {s}) = Cardinality(Seen(n)) + 1
      BY <1>2, <3>1, FS_AddElement
    <3>4. Cardinality(Seen(n) \cup {s}) <= Cardinality(Seen(n + 1))
      BY <1>2, <3>2, FS_Subset
    <3>5. Cardinality(Seen(n)) >= n + 1
      BY <1>4, <2>3
    <3> HIDE DEF Seen
    <3>6. Cardinality(Seen(n + 1)) >= n + 1 + 1
      BY <1>2, <3>3, <3>4, <3>5
    <3> QED BY <3>6
  <2> QED BY <2>2, <2>3
<1> HIDE DEF Good
<1>5. Furthest \in Good
  BY <1>1, <1>3, <1>4, Induction
<1> HIDE DEF Seen
<1>6. Cardinality(Seen(Furthest)) >= Furthest + 1 \/ Closed(Within[Furthest])
  BY <1>1, <1>5 DEF Good
<1> QED BY <1>1, <1>2, <1>6

\* at most k steps away
\* The screens at most k transitions away.
Near(k) == Within[IF k < Furthest THEN k ELSE Furthest]

\* A transition leads one further at most.
LEMMA NearGrows ==
    ASSUME Start \in Screens, NEW k \in Nat
    PROVE  /\ Near(k) \subseteq Near(k + 1)
           /\ \A t \in Leads : t.from \in Near(k) /\ t.to \in Screens => t.to \in Near(k + 1)
<1>1. Furthest \in Nat
  BY ChainAssumption, FS_CardinalityType DEF Furthest
<1>2. CASE k < Furthest
  <2>1. Within[k + 1] = Nearer(Within[k])
    BY <1>1, <1>2, WithinDef
  <2>2. Near(k) = Within[k] /\ Near(k + 1) = Within[k + 1]
    BY <1>1, <1>2 DEF Near
  <2> QED BY <2>1, <2>2 DEF Nearer
<1>3. CASE ~ (k < Furthest)
  <2>1. Near(k) = Within[Furthest] /\ Near(k + 1) = Within[Furthest]
    BY <1>1, <1>3 DEF Near
  <2> QED BY <2>1, WithinCloses DEF Closed
<1> QED BY <1>2, <1>3

\* what is near and critical bounds the baseline
\* A critical screen bounds the baseline by its distance.
LEMMA BaselineIsNear ==
    ASSUME Start \in Screens, NEW k \in Nat, NEW s \in Near(k), HasCritical(s)
    PROVE  /\ ShortestPathBaseline.actions \in Nat /\ ShortestPathBaseline.actions <= k + 1
           /\ ShortestPathBaseline.screens \in Nat /\ ShortestPathBaseline.screens <= k
<1> DEFINE found == {n \in DOMAIN Within : \E x \in Within[n] : HasCritical(x)}
           m == IF k < Furthest THEN k ELSE Furthest
<1>1. Furthest \in Nat /\ m \in 0..Furthest /\ m <= k
  BY ChainAssumption, FS_CardinalityType DEF Furthest
<1>2. DOMAIN Within = 0..Furthest
  BY WithinDef
<1>3. m \in found
  BY <1>1, <1>2 DEF Near
<1>4. found \in SUBSET Nat /\ found # {}
  BY <1>1, <1>2, <1>3
<1> HIDE DEF found
<1>5. \E n \in found : \A y \in found : n <= y
  BY <1>4, LeastMember
<1>6. Min(found) \in found /\ \A y \in found : Min(found) <= y
  BY <1>5 DEF Min
<1>7. ShortestPathBaseline = [actions |-> Min(found) + 1, screens |-> Min(found)]
  BY <1>4 DEF ShortestPathBaseline, found
<1>8. Min(found) \in Nat /\ Min(found) <= k
  <2>1. Min(found) <= m /\ Min(found) \in Nat
    BY <1>3, <1>4, <1>6
  <2> HIDE DEF m
  <2> QED BY <1>1, <2>1
<1> QED BY <1>7, <1>8

\* What an observation may name.
Places  == Screens \cup {Start} \cup {t.to : t \in Leads}
Named   == {None} \cup UNION {On[s] : s \in Screens}
Actions == {"CLICK", "TYPE", "SELECT", "SCROLL", "BACK"}
Types   == {"SCREEN_ENTER", "SCREEN_EXIT", "GAZE"} \cup Actions
Events  == [type : Types, screen : Places, element : Named, dwell : {0, 1}]

\* Observations are well formed.
LEMMA EventIsEvent ==
    ASSUME NEW type \in Types, NEW screen \in Places, NEW element \in Named
    PROVE  /\ Event(type, screen, element) \in Events
           /\ Event(type, screen, element).type = type
           /\ Event(type, screen, element).screen = screen
           /\ Event(type, screen, element).element = element
BY DEF Event, Events

\* A longer log keeps what it had.
LEMMA LogGrows ==
    ASSUME NEW w, NEW v, NEW more \in Seq(Events), w.log \in Seq(Events), v.log = w.log \o more
    PROVE  /\ v.log \in Seq(Events)
           /\ Len(w.log) \in Nat /\ DOMAIN v.log = 1..(Len(w.log) + Len(more))
           /\ \A i \in DOMAIN w.log : i \in DOMAIN v.log /\ v.log[i] = w.log[i]
           /\ \A i \in DOMAIN v.log : \/ i \in DOMAIN w.log
                                      \/ \E j \in 1..Len(more) : v.log[i] = more[j]
           /\ \A j \in 1..Len(more) : /\ Len(w.log) + j \in (DOMAIN v.log) \ DOMAIN w.log
                                      /\ v.log[Len(w.log) + j] = more[j]
<1>1. /\ v.log \in Seq(Events) /\ Len(v.log) = Len(w.log) + Len(more)
      /\ \A i \in 1..(Len(w.log) + Len(more)) :
           v.log[i] = IF i <= Len(w.log) THEN w.log[i] ELSE more[i - Len(w.log)]
  BY ConcatProperties
<1>2. /\ Len(w.log) \in Nat /\ Len(more) \in Nat /\ DOMAIN w.log = 1..Len(w.log)
      /\ DOMAIN v.log = 1..(Len(w.log) + Len(more))
  BY <1>1, LenProperties
<1>3. \A i \in DOMAIN w.log : i \in DOMAIN v.log /\ v.log[i] = w.log[i]
  BY <1>1, <1>2
<1>4. \A i \in DOMAIN v.log : i \in DOMAIN w.log \/ /\ i - Len(w.log) \in 1..Len(more)
                                                    /\ v.log[i] = more[i - Len(w.log)]
  BY <1>1, <1>2
<1>5. \A j \in 1..Len(more) : /\ Len(w.log) + j \in (DOMAIN v.log) \ DOMAIN w.log
                              /\ v.log[Len(w.log) + j] = more[j]
  BY <1>1, <1>2
<1> QED BY <1>1, <1>2, <1>3, <1>4, <1>5

\* So it has no fewer steps of any type.
LEMMA StepsGrow ==
    ASSUME NEW w, NEW v, NEW more \in Seq(Events), w.log \in Seq(Events), v.log = w.log \o more
    PROVE  \A types :
             /\ IsFiniteSet(Steps(v, types)) /\ Steps(w, types) \subseteq Steps(v, types)
             /\ \A j \in 1..Len(more) :
                  more[j].type \in types => Len(w.log) + j \in Steps(v, types) \ Steps(w, types)
<1> SUFFICES ASSUME NEW types
             PROVE  /\ IsFiniteSet(Steps(v, types)) /\ Steps(w, types) \subseteq Steps(v, types)
                    /\ \A j \in 1..Len(more) :
                         more[j].type \in types =>
                           Len(w.log) + j \in Steps(v, types) \ Steps(w, types)
  OBVIOUS
<1>1. Len(w.log) \in Nat /\ Len(more) \in Nat /\ DOMAIN v.log = 1..(Len(w.log) + Len(more))
  BY LogGrows, LenProperties
<1>2. IsFiniteSet(Steps(v, types))
  <2>1. Steps(v, types) \subseteq 1..(Len(w.log) + Len(more))
    BY <1>1 DEF Steps
  <2>2. IsFiniteSet(1..(Len(w.log) + Len(more)))
    BY <1>1, FS_Interval
  <2> QED BY <2>1, <2>2, FS_Subset
<1>3. \A i \in DOMAIN w.log : i \in DOMAIN v.log /\ v.log[i] = w.log[i]
  BY LogGrows
<1>4. \A j \in 1..Len(more) : /\ Len(w.log) + j \in (DOMAIN v.log) \ DOMAIN w.log
                              /\ v.log[Len(w.log) + j] = more[j]
  BY LogGrows
<1> QED BY <1>2, <1>3, <1>4 DEF Steps

\* A set with a member more.
LEMMA CardinalityGrows ==
    ASSUME NEW S, NEW T, IsFiniteSet(T), S \subseteq T
    PROVE  /\ Cardinality(S) \in Nat /\ Cardinality(T) \in Nat /\ Cardinality(S) <= Cardinality(T)
           /\ T \ S # {} => Cardinality(S) + 1 <= Cardinality(T)
<1>1. /\ IsFiniteSet(S)
      /\ Cardinality(S) \in Nat
      /\ Cardinality(T) \in Nat
      /\ Cardinality(S) <= Cardinality(T)
  BY FS_Subset, FS_CardinalityType
<1>2. ASSUME NEW x \in T \ S PROVE Cardinality(S) + 1 <= Cardinality(T)
  <2>1. Cardinality(S \cup {x}) = Cardinality(S) + 1 /\ S \cup {x} \subseteq T
    BY <1>1, FS_AddElement
  <2> QED BY <2>1, FS_Subset
<1> QED BY <1>1, <1>2

\* An interaction more, or a screen more, counts one more.
LEMMA CountsGrow ==
    ASSUME NEW w, NEW v, NEW more \in Seq(Events), w.log \in Seq(Events), v.log = w.log \o more
    PROVE  /\ Cardinality(Steps(w, Interactions)) \in Nat /\ Cardinality(Steps(v, Interactions)) \in Nat
           /\ Cardinality(Enters(w)) \in Nat /\ Cardinality(Enters(v)) \in Nat
           /\ Cardinality(Steps(w, Interactions)) <= Cardinality(Steps(v, Interactions))
           /\ Cardinality(Enters(w)) <= Cardinality(Enters(v))
           /\ (\E j \in 1..Len(more) : more[j].type \in Interactions) =>
                Cardinality(Steps(w, Interactions)) + 1 <= Cardinality(Steps(v, Interactions))
           /\ (\E j \in 1..Len(more) : more[j].type = "SCREEN_ENTER" /\ more[j].screen # None) =>
                Cardinality(Enters(w)) + 1 <= Cardinality(Enters(v))
<1>1. /\ IsFiniteSet(Steps(v, Interactions)) /\ Steps(w, Interactions) \subseteq Steps(v, Interactions)
      /\ (\E j \in 1..Len(more) : more[j].type \in Interactions) =>
           Steps(v, Interactions) \ Steps(w, Interactions) # {}
  BY StepsGrow
<1>2. /\ IsFiniteSet(Enters(v)) /\ Enters(w) \subseteq Enters(v)
      /\ (\E j \in 1..Len(more) : more[j].type = "SCREEN_ENTER" /\ more[j].screen # None) =>
           Enters(v) \ Enters(w) # {}
  <2> DEFINE types == {"SCREEN_ENTER"}
  <2>1. /\ IsFiniteSet(Steps(v, types)) /\ Steps(w, types) \subseteq Steps(v, types)
        /\ \A j \in 1..Len(more) :
             more[j].type \in types => Len(w.log) + j \in Steps(v, types) \ Steps(w, types)
    BY StepsGrow
  <2>2. /\ \A i \in DOMAIN w.log : v.log[i] = w.log[i]
        /\ \A j \in 1..Len(more) : v.log[Len(w.log) + j] = more[j]
    BY LogGrows
  <2>3. Steps(w, types) \subseteq DOMAIN w.log
    BY DEF Steps
  <2>4. Enters(v) \subseteq Steps(v, types)
    BY DEF Enters
  <2> HIDE DEF types
  <2>5. types = {"SCREEN_ENTER"}
    BY DEF types
  <2> QED BY <2>1, <2>4, <2>2, <2>3, <2>5, FS_Subset DEF Enters
<1> QED BY <1>1, <1>2, CardinalityGrows

\* Who has entered a screen, or has it in the trail, has interacted and entered
\* screens for every transition on the way there.
Fits(w, k) ==
    /\ w = [at |-> w.at, trail |-> w.trail, scans |-> w.scans, status |-> w.status, log |-> w.log]
    /\ w.at \in Places /\ (w.at \in Screens => w.at \in Near(k))
    /\ w.trail \in Seq(Screens \cap Near(k))
    /\ w.log \in Seq(Events)
    /\ Cardinality(Enters(w)) >= k + 1
    /\ Taken(w) >= k

\* Who has used a critical element took as many actions as the baseline, and entered
\* a screen more than it has transitions: the one it started on.
NotBeaten(w) ==
    Acted(w) \cap Critical # {} =>
      /\ Taken(w) \in Nat /\ ShortestPathBaseline.actions \in Nat
      /\ Taken(w) >= ShortestPathBaseline.actions
      /\ Cardinality(Enters(w)) \in Nat /\ ShortestPathBaseline.screens \in Nat
      /\ Cardinality(Enters(w)) > ShortestPathBaseline.screens

Earned(w) == w.status = "COMPLETED" => HasSuccess \/ Acted(w) \cap Critical # {}

GoodWalk(w) ==
    /\ NotBeaten(w) /\ Earned(w)
    /\ w.status = "IN_PROGRESS" => w.at \in Screens /\ \E k \in Nat : Fits(w, k)

\* The job that has failed.
LEMMA CrashedIsGood == GoodWalk(Crashed)
<1>1. Crashed.log = <<>> /\ Crashed.status = "FAILED"
  BY DEF Crashed
<1>2. Acted(Crashed) = {}
  BY <1>1 DEF Acted, Steps
<1> QED BY <1>1, <1>2 DEF GoodWalk, NotBeaten, Earned

\* Without a success condition only critical elements complete the task.
LEMMA SuccessIsEarned ==
    ASSUME NEW w, w.log \in Seq(Events), Succeeded(w), ~ HasSuccess
    PROVE  Acted(w) \cap Critical # {}
<1>1. PICK m \in Expected : m \in UNION {Marks[e] : e \in Acted(w)}
  BY DEF Succeeded
<1>2. PICK e \in Acted(w) : m \in Marks[e]
  BY <1>1
<1>3. PICK i \in DOMAIN w.log : e = w.log[i].element /\ e # None
  BY <1>2 DEF Acted, Steps
<1>4. w.log[i] \in Events
  BY <1>3, ElementOfSeq, LenProperties
<1>5. PICK s \in Screens : e \in On[s]
  BY <1>3, <1>4 DEF Events, Named
<1>6. e \in Critical
  BY <1>2, <1>5, ElementAssumption
<1> QED BY <1>2, <1>6

\* check_task only sets the status.
LEMMA CheckedIsGood ==
    ASSUME NEW w, NEW k \in Nat, Fits(w, k), NotBeaten(w), NEW v \in Checked(w)
    PROVE  GoodWalk(v)
<1> DEFINE x(s) == [w EXCEPT !.status = s]
<1>1. ASSUME NEW s
      PROVE  /\ x(s).at = w.at /\ x(s).trail = w.trail /\ x(s).log = w.log /\ x(s).status = s
             /\ x(s) = [at |-> w.at, trail |-> w.trail, scans |-> w.scans, status |-> s, log |-> w.log]
  BY DEF Fits
<1> HIDE DEF x
<1>2. ASSUME NEW s
      PROVE  /\ Fits(x(s), k) /\ NotBeaten(x(s)) /\ Acted(x(s)) = Acted(w)
             /\ x(s).status = s /\ x(s).at = w.at
  <2>1. \A types : Steps(x(s), types) = Steps(w, types)
    BY <1>1 DEF Steps
  <2>2. /\ Enters(x(s)) = Enters(w) /\ Acted(x(s)) = Acted(w) /\ Taken(x(s)) = Taken(w)
    BY <1>1, <2>1 DEF Enters, Acted, Taken
  <2>3. x(s) = [at |-> x(s).at, trail |-> x(s).trail, scans |-> x(s).scans,
                status |-> x(s).status, log |-> x(s).log]
    BY <1>1
  <2>4. Fits(x(s), k)
    BY <1>1, <2>2, <2>3 DEF Fits
  <2>5. NotBeaten(x(s))
    BY <2>2 DEF NotBeaten
  <2> QED BY <1>1, <2>2, <2>4, <2>5
<1>3. CASE Succeeded(w)
  <2>1. v = x("COMPLETED")
    BY <1>3 DEF Checked, x
  <2>2. HasSuccess \/ Acted(w) \cap Critical # {}
    BY <1>3, SuccessIsEarned DEF Fits
  <2> QED BY <1>2, <2>1, <2>2 DEF GoodWalk, Earned
<1>4. CASE v = Crashed
  BY <1>4, CrashedIsGood
<1>5. CASE ~ Succeeded(w) /\ v # Crashed
  <2>1. PICK s \in {"ABANDONED", "FAILED", "IN_PROGRESS"} :
          v = x(s) /\ (s = "IN_PROGRESS" => w.at \in Screens)
    BY <1>5 DEF Checked, x
  <2> QED BY <1>2, <2>1 DEF GoodWalk, Earned
<1> QED BY <1>3, <1>4, <1>5

\* What is observed without an interaction leaves a walk where it is.
LEMMA LookFits ==
    ASSUME NEW w, NEW k \in Nat, Fits(w, k), NotBeaten(w), NEW v, NEW more \in Seq(Events),
           v = [at |-> w.at, trail |-> w.trail, scans |-> v.scans, status |-> v.status, log |-> v.log],
           v.log = w.log \o more, \A j \in 1..Len(more) : more[j].type \notin Interactions
    PROVE  Fits(v, k) /\ NotBeaten(v)
<1>1. w.log \in Seq(Events)
  BY DEF Fits
<1>2. /\ Taken(w) \in Nat /\ Taken(v) \in Nat /\ Taken(w) <= Taken(v)
      /\ Cardinality(Enters(w)) \in Nat /\ Cardinality(Enters(v)) \in Nat
      /\ Cardinality(Enters(w)) <= Cardinality(Enters(v))
  BY <1>1, CountsGrow DEF Taken
<1>3. v.log \in Seq(Events)
  BY <1>1, ConcatProperties
<1>4. v.at = w.at /\ v.trail = w.trail
  OBVIOUS
<1>5. Fits(v, k)
  BY <1>2, <1>3, <1>4 DEF Fits
<1>6. Acted(v) \subseteq Acted(w)
  <2> SUFFICES ASSUME NEW i \in Steps(v, Interactions)
               PROVE  i \in Steps(w, Interactions) /\ v.log[i] = w.log[i]
    BY DEF Acted
  <2>1. i \in DOMAIN v.log /\ v.log[i].type \in Interactions
    BY DEF Steps
  <2>2. i \in DOMAIN w.log \/ \E j \in 1..Len(more) : v.log[i] = more[j]
    BY <1>1, <2>1, LogGrows
  <2>3. i \in DOMAIN w.log
    BY <2>1, <2>2
  <2>4. v.log[i] = w.log[i]
    BY <1>1, <2>3, LogGrows
  <2> QED BY <2>1, <2>3, <2>4 DEF Steps
<1>7. NotBeaten(v)
  <2>1. CASE Acted(v) \cap Critical = {}
    BY <2>1 DEF NotBeaten
  <2>2. CASE Acted(v) \cap Critical # {}
    <3>1. Acted(w) \cap Critical # {}
      BY <1>6, <2>2
    <3>2. /\ ShortestPathBaseline.actions \in Nat /\ ShortestPathBaseline.screens \in Nat
          /\ Taken(w) >= ShortestPathBaseline.actions
          /\ Cardinality(Enters(w)) > ShortestPathBaseline.screens
      BY <3>1 DEF NotBeaten
    <3>3. Taken(v) >= ShortestPathBaseline.actions
      BY <1>2, <3>2
    <3>4. Cardinality(Enters(v)) > ShortestPathBaseline.screens
      BY <1>2, <3>2
    <3> QED BY <1>2, <3>2, <3>3, <3>4 DEF NotBeaten
  <2> QED BY <2>1, <2>2
<1> QED BY <1>5, <1>7

\* One move more, not more than one transition further.
LEMMA MoveIsGood ==
    ASSUME Start \in Screens, NEW w, NEW k \in Nat, Fits(w, k), NotBeaten(w), w.at \in Screens,
           NEW type \in Actions, NEW e, e = None \/ e \in On[w.at],
           NEW screen \in Places, screen \in Screens => screen \in Near(k + 1),
           NEW trail \in Seq(Screens \cap Near(k)), NEW y \in Move(w, type, e, screen, trail)
    PROVE  GoodWalk(y)
<1> DEFINE done == Event(type, w.at, e)
           u == [log |-> w.log \o <<done>>]
           tail == IF screen = w.at THEN <<>>
                   ELSE <<Event("SCREEN_EXIT", w.at, None), Event("SCREEN_ENTER", screen, None)>>
           v == [at |-> screen, trail |-> trail, status |-> w.status,
                 scans |-> IF screen = w.at THEN w.scans ELSE 0,
                 log |-> w.log \o <<done>> \o tail]
<1>1. /\ v.at = screen /\ v.trail = trail /\ v.log = (w.log \o <<done>>) \o tail
      /\ v = [at |-> v.at, trail |-> v.trail, scans |-> v.scans, status |-> v.status, log |-> v.log]
  OBVIOUS
<1>2. w.log \in Seq(Events) /\ w.at \in Places
  BY DEF Fits
<1>3. /\ tail \in Seq(Events)
      /\ \A j \in 1..Len(tail) : tail[j].type \notin Interactions
      /\ screen # w.at =>
           2 \in 1..Len(tail) /\ tail[2].type = "SCREEN_ENTER" /\ tail[2].screen = screen
  <2>1. CASE screen = w.at
    BY <2>1
  <2>2. CASE screen # w.at
    <3> DEFINE a == Event("SCREEN_EXIT", w.at, None)
               b == Event("SCREEN_ENTER", screen, None)
    <3>1. /\ a \in Events /\ b \in Events /\ a.type = "SCREEN_EXIT" /\ b.type = "SCREEN_ENTER"
          /\ b.screen = screen
      BY <1>2, EventIsEvent DEF Types, Named
    <3>2. tail = <<a, b>>
      BY <2>2
    <3> HIDE DEF a, b, tail
    <3> QED BY <3>1, <3>2 DEF Interactions
  <2> QED BY <2>1, <2>2
<1>4. done \in Events /\ done.type \in Interactions /\ done.element = e
  <2>1. type \in Types /\ type \in Interactions /\ e \in Named
    BY DEF Types, Actions, Interactions, Named
  <2> QED BY <1>2, <2>1, EventIsEvent
<1>5. y \in Checked(v)
  BY DEF Move
<1>6. u.log = w.log \o <<done>>
  OBVIOUS
<1> HIDE DEF tail, done, u, v
<1>7. <<done>> \in Seq(Events) /\ Len(<<done>>) = 1 /\ <<done>>[1] = done
  BY <1>4
<1>8. u.log \in Seq(Events) /\ v.log = u.log \o tail
  BY <1>1, <1>2, <1>6, <1>7, ConcatProperties
<1>9. v.log \in Seq(Events)
  BY <1>3, <1>8, ConcatProperties
<1>10. /\ Taken(w) \in Nat /\ Taken(u) \in Nat /\ Taken(w) + 1 <= Taken(u)
       /\ Cardinality(Enters(w)) \in Nat /\ Cardinality(Enters(u)) \in Nat
       /\ Cardinality(Enters(w)) <= Cardinality(Enters(u))
  <2>1. \E j \in 1..Len(<<done>>) : <<done>>[j].type \in Interactions
    BY <1>4, <1>7
  <2> QED BY <1>2, <1>6, <1>7, <2>1, CountsGrow DEF Taken
<1>11. /\ Taken(v) \in Nat /\ Taken(u) <= Taken(v)
       /\ Cardinality(Enters(v)) \in Nat /\ Cardinality(Enters(u)) <= Cardinality(Enters(v))
       /\ screen # w.at /\ screen # None => Cardinality(Enters(u)) + 1 <= Cardinality(Enters(v))
  <2>1. /\ Taken(v) \in Nat /\ Taken(u) <= Taken(v)
        /\ Cardinality(Enters(v)) \in Nat /\ Cardinality(Enters(u)) <= Cardinality(Enters(v))
        /\ (\E j \in 1..Len(tail) : tail[j].type = "SCREEN_ENTER" /\ tail[j].screen # None) =>
             Cardinality(Enters(u)) + 1 <= Cardinality(Enters(v))
    BY <1>3, <1>8, CountsGrow DEF Taken
  <2> QED BY <1>3, <2>1
<1>12. Taken(w) >= k /\ Cardinality(Enters(w)) >= k + 1
  BY DEF Fits
<1>13. NotBeaten(v)
  <2> SUFFICES ASSUME NEW c \in Acted(v) \cap Critical
               PROVE  /\ ShortestPathBaseline.actions \in Nat /\ ShortestPathBaseline.screens \in Nat
                      /\ Taken(v) >= ShortestPathBaseline.actions
                      /\ Cardinality(Enters(v)) > ShortestPathBaseline.screens
    BY <1>11 DEF NotBeaten
  <2>1. PICK i \in DOMAIN v.log : /\ v.log[i].type \in Interactions /\ v.log[i].element = c
                                  /\ c # None /\ c \in Critical
    BY DEF Acted, Steps
  <2>2. i \in DOMAIN u.log /\ u.log[i] = v.log[i]
    <3>1. i \in DOMAIN u.log \/ \E j \in 1..Len(tail) : v.log[i] = tail[j]
      BY <1>3, <1>8, <2>1, LogGrows
    <3>2. i \in DOMAIN u.log
      BY <1>3, <2>1, <3>1
    <3> QED BY <1>3, <1>8, <3>2, LogGrows
  <2>3. CASE i \in DOMAIN w.log
    <3>1. w.log[i] = u.log[i]
      BY <1>2, <1>6, <1>7, <2>3, LogGrows
    <3>2. c \in Acted(w)
      BY <2>1, <2>2, <2>3, <3>1 DEF Acted, Steps
    <3>3. /\ ShortestPathBaseline.actions \in Nat /\ ShortestPathBaseline.screens \in Nat
          /\ Taken(w) >= ShortestPathBaseline.actions
          /\ Cardinality(Enters(w)) > ShortestPathBaseline.screens
      BY <2>1, <3>2 DEF NotBeaten
    <3> QED BY <1>10, <1>11, <3>3
  <2>4. CASE i \notin DOMAIN w.log
    <3>1. \E j \in 1..Len(<<done>>) : u.log[i] = <<done>>[j]
      BY <1>2, <1>6, <1>7, <2>2, <2>4, LogGrows
    <3>2. u.log[i] = done
      BY <1>7, <3>1
    <3>3. HasCritical(w.at)
      BY <1>4, <2>1, <2>2, <3>2 DEF HasCritical
    <3>4. w.at \in Near(k)
      BY DEF Fits
    <3>5. /\ ShortestPathBaseline.actions \in Nat /\ ShortestPathBaseline.actions <= k + 1
          /\ ShortestPathBaseline.screens \in Nat /\ ShortestPathBaseline.screens <= k
      BY <3>3, <3>4, BaselineIsNear
    <3> QED BY <1>10, <1>11, <1>12, <3>5
  <2> QED BY <2>3, <2>4
<1>14. CASE screen = w.at \/ screen \notin Screens
  <2>1. screen \in Screens => screen \in Near(k)
    BY <1>14 DEF Fits
  <2>2. Taken(v) >= k /\ Cardinality(Enters(v)) >= k + 1
    BY <1>10, <1>11, <1>12
  <2>3. Fits(v, k)
    BY <1>1, <1>9, <2>1, <2>2 DEF Fits
  <2> QED BY <1>5, <1>13, <2>3, CheckedIsGood
<1>15. CASE screen # w.at /\ screen \in Screens
  <2>1. trail \in Seq(Screens \cap Near(k + 1))
    <3>1. Screens \cap Near(k) \subseteq Screens \cap Near(k + 1)
      BY NearGrows
    <3> QED BY <3>1, SeqMonotonic
  <2>2. screen # None
    BY <1>15, ChainAssumption
  <2>3. Taken(v) >= k + 1 /\ Cardinality(Enters(v)) >= k + 2
    BY <1>10, <1>11, <1>12, <1>15, <2>2
  <2>4. Fits(v, k + 1)
    BY <1>1, <1>9, <1>15, <2>1, <2>3 DEF Fits
  <2> QED BY <1>5, <1>13, <2>4, CheckedIsGood
<1> QED BY <1>14, <1>15

\* Use follows one transition at most.
LEMMA UseIsGood ==
    ASSUME Start \in Screens, NEW w, NEW k \in Nat, Fits(w, k), NotBeaten(w), w.at \in Screens,
           NEW e \in On[w.at], NEW v \in Use(w, e)
    PROVE  GoodWalk(v)
<1> DEFINE to == {t.to : t \in {u \in Leads : u.from = w.at /\ u.trigger = e /\ Kind[e] # "TYPE"}}
<1>1. Kind[e] \in Actions
  <2>1. \A s \in Screens : \A x \in On[s] : Kind[x] \in {"CLICK", "TYPE", "SELECT"}
    BY ElementAssumption
  <2> QED BY <2>1 DEF Actions
<1>2. /\ w.at \in Near(k) /\ w.at \in Near(k + 1) /\ w.at \in Places
      /\ w.trail \in Seq(Screens \cap Near(k))
  BY NearGrows DEF Fits
<1>3. CASE v \in Move(w, Kind[e], e, w.at, w.trail)
  BY <1>1, <1>2, <1>3, MoveIsGood
<1>4. ASSUME NEW s \in to, v \in Move(w, Kind[e], e, s, Append(w.trail, w.at)) PROVE GoodWalk(v)
  <2>1. PICK t \in Leads : t.from = w.at /\ s = t.to
    OBVIOUS
  <2>2. s \in Places /\ (s \in Screens => s \in Near(k + 1))
    BY <1>2, <2>1, NearGrows DEF Places
  <2>3. Append(w.trail, w.at) \in Seq(Screens \cap Near(k))
    BY <1>2
  <2> HIDE DEF to
  <2> QED BY <1>1, <1>4, <2>2, <2>3, MoveIsGood
<1>5. \/ v \in Move(w, Kind[e], e, w.at, w.trail)
      \/ \E s \in to : v \in Move(w, Kind[e], e, s, Append(w.trail, w.at))
  BY DEF Use
<1> QED BY <1>3, <1>4, <1>5

\* Back leads to a screen of the trail, or nowhere.
LEMMA BackIsGood ==
    ASSUME Start \in Screens, NEW w, NEW k \in Nat, Fits(w, k), NotBeaten(w), w.at \in Screens,
           NEW v \in Back(w)
    PROVE  GoodWalk(v)
<1> DEFINE n == Len(w.trail)
           trail == SubSeq(w.trail, 1, n - 1)
<1>1. /\ w.at \in Near(k + 1) /\ w.at \in Places /\ Near(k) \subseteq Near(k + 1)
      /\ w.trail \in Seq(Screens \cap Near(k))
  BY NearGrows DEF Fits
<1>2. "BACK" \in Actions
  BY DEF Actions
<1>3. CASE w.trail = <<>>
  <2>1. v \in Move(w, "BACK", None, w.at, <<>>)
    BY <1>3 DEF Back
  <2>2. <<>> \in Seq(Screens \cap Near(k))
    OBVIOUS
  <2> QED BY <1>1, <1>2, <2>1, <2>2, MoveIsGood
<1>4. CASE w.trail # <<>>
  <2>1. v \in Move(w, "BACK", None, w.trail[n], trail)
    BY <1>4 DEF Back
  <2>2. n \in Nat /\ n # 0 /\ DOMAIN w.trail = 1..n
    BY <1>1, <1>4, LenProperties, EmptySeq
  <2>3. \A i \in 1..n : w.trail[i] \in Screens \cap Near(k)
    BY <1>1, ElementOfSeq
  <2>4. trail \in Seq(Screens \cap Near(k))
    <3>1. \A i \in 1..(n - 1) : w.trail[i] \in Screens \cap Near(k)
      BY <2>2, <2>3
    <3> HIDE DEF n
    <3> QED BY <2>2, <3>1, SubSeqProperties
  <2>5. w.trail[n] \in Places /\ w.trail[n] \in Near(k + 1)
    BY <1>1, <2>2, <2>3 DEF Places
  <2> HIDE DEF trail, n
  <2> QED BY <1>2, <2>1, <2>4, <2>5, MoveIsGood
<1> QED BY <1>3, <1>4

\* So does whatever is done on a screen without a critical element.
LEMMA BrowseIsGood ==
    ASSUME Start \in Screens, NEW w, NEW k \in Nat, Fits(w, k), NotBeaten(w), w.at \in Screens,
           NEW v \in Browse(w)
    PROVE  GoodWalk(v)
<1>1. CASE \E e \in On[w.at] : v \in Use(w, e)
  BY <1>1, UseIsGood
<1>2. CASE v \in Back(w)
  BY <1>2, BackIsGood
<1>3. CASE v \in Move(w, "SCROLL", None, w.at, w.trail)
  <2>1. w.at \in Near(k + 1) /\ w.at \in Places /\ w.trail \in Seq(Screens \cap Near(k))
    BY NearGrows DEF Fits
  <2>2. "SCROLL" \in Actions
    BY DEF Actions
  <2> QED BY <1>3, <2>1, <2>2, MoveIsGood
<1>4. \/ \E e \in On[w.at] : v \in Use(w, e)
      \/ v \in Back(w)
      \/ v \in Move(w, "SCROLL", None, w.at, w.trail)
  <2> DEFINE used     == UNION {Use(w, e) : e \in On[w.at] \cap Interactable}
             scrolled == IF "SCROLL" \in Plain THEN Move(w, "SCROLL", None, w.at, w.trail) ELSE {}
             back     == IF "BACK" \in Plain THEN Back(w) ELSE {}
  <2>1. v \in used => \E e \in On[w.at] : v \in Use(w, e)
    OBVIOUS
  <2>2. v \in scrolled => v \in Move(w, "SCROLL", None, w.at, w.trail)
    OBVIOUS
  <2>3. v \in back => v \in Back(w)
    OBVIOUS
  <2>4. v \in used \/ v \in scrolled \/ v \in back
    BY DEF Browse
  <2> HIDE DEF used, scrolled, back
  <2> QED BY <2>1, <2>2, <2>3, <2>4
<1> QED BY <1>1, <1>2, <1>3, <1>4

\* No turn.
LEMMA FirstIsGood == GoodWalk(FirstWalk)
<1>1. CASE Start \notin Screens
  BY <1>1, CrashedIsGood DEF FirstWalk
<1>2. CASE Start \in Screens
  <2> DEFINE e == Event("SCREEN_ENTER", Start, None)
  <2>1. e \in Events /\ e.type = "SCREEN_ENTER" /\ e.screen = Start
    BY EventIsEvent DEF Places, Types, Named
  <2> HIDE DEF e
  <2>2. FirstWalk = [at |-> Start, trail |-> <<>>, scans |-> 0, status |-> "IN_PROGRESS", log |-> <<e>>]
    BY <1>2 DEF FirstWalk, e
  <2>3. Start \in Near(0)
    <3>1. Furthest \in Nat
      BY ChainAssumption, FS_CardinalityType DEF Furthest
    <3> QED BY <3>1, WithinDef DEF Near
  <2>4. Steps(FirstWalk, Interactions) = {}
    BY <2>1, <2>2 DEF Steps, Interactions
  <2>5. Enters(FirstWalk) = {1}
    BY <1>2, <2>1, <2>2, ChainAssumption DEF Enters, Steps
  <2>6. Cardinality(Enters(FirstWalk)) = 1 /\ Taken(FirstWalk) = 0
    BY <2>4, <2>5, FS_Singleton, FS_EmptySet DEF Taken
  <2>7. Acted(FirstWalk) = {}
    BY <2>4 DEF Acted
  <2>8. Fits(FirstWalk, 0)
    <3>1. <<e>> \in Seq(Events)
      BY <2>1
    <3> QED BY <1>2, <2>2, <2>3, <2>6, <3>1 DEF Fits, Places
  <2> QED BY <1>2, <2>2, <2>7, <2>8 DEF GoodWalk, NotBeaten, Earned
<1> QED BY <1>1, <1>2

\* A look is the walk with one observation more.
LEMMA LookIsWalk ==
    ASSUME NEW w, NEW k, Fits(w, k), NEW e
    PROVE  LET u == Look(w, e)
           IN  /\ u = [at |-> w.at, trail |-> w.trail, scans |-> u.scans, status |-> w.status,
                       log |-> u.log]
               /\ u.log = w.log \o <<Event("GAZE", w.at, e)>> /\ u.at = w.at /\ u.status = w.status
<1> DEFINE gaze == <<Event("GAZE", w.at, e)>>
           r == [at |-> w.at, trail |-> w.trail, scans |-> w.scans, status |-> w.status,
                 log |-> w.log]
<1>1. w = r
  BY DEF Fits
<1>2. Look(w, e) = [r EXCEPT !.log = @ \o gaze]
  BY <1>1 DEF Look
<1> HIDE DEF gaze
<1>3. Look(w, e) = [at |-> w.at, trail |-> w.trail, scans |-> w.scans, status |-> w.status,
                    log |-> w.log \o gaze]
  BY <1>2
<1> QED BY <1>3 DEF gaze

\* A turn is a look, or a look and a move.
LEMMA TurnsAreGood ==
    ASSUME Start \in Screens, NEW w, GoodWalk(w), NEW v \in Turn(w)
    PROVE  GoodWalk(v)
<1>1. w.status = "IN_PROGRESS" /\ w.at \in Screens /\ NotBeaten(w)
  BY DEF Turn, GoodWalk
<1>2. PICK k \in Nat : Fits(w, k)
  BY <1>1 DEF GoodWalk
<1>3. ASSUME NEW e \in On[w.at]
      PROVE  LET gaze == <<Event("GAZE", w.at, e)>>
             IN  gaze \in Seq(Events) /\ \A j \in 1..Len(gaze) : gaze[j].type \notin Interactions
  <2> DEFINE a == Event("GAZE", w.at, e)
  <2>1. a \in Events /\ a.type = "GAZE"
    <3>1. "GAZE" \in Types /\ w.at \in Places /\ e \in Named
      BY <1>1, <1>3 DEF Types, Places, Named
    <3> QED BY <3>1, EventIsEvent
  <2> HIDE DEF a
  <2>2. /\ <<a>> \in Seq(Events) /\ \A j \in 1..Len(<<a>>) : <<a>>[j].type \notin Interactions
    BY <2>1 DEF Interactions
  <2> QED BY <2>2 DEF a
<1>4. CASE v \in Browse(w)
  BY <1>1, <1>2, <1>4, BrowseIsGood
<1>5. ASSUME NEW e \in On[w.at], v \in Browse(Look(w, e)) PROVE GoodWalk(v)
  <2> DEFINE gaze == <<Event("GAZE", w.at, e)>>
             u == Look(w, e)
  <2>1. gaze \in Seq(Events) /\ \A j \in 1..Len(gaze) : gaze[j].type \notin Interactions
    BY <1>3
  <2>2. /\ u = [at |-> w.at, trail |-> w.trail, scans |-> u.scans, status |-> u.status, log |-> u.log]
        /\ u.log = w.log \o gaze /\ u.at = w.at
    BY <1>2, LookIsWalk
  <2> HIDE DEF gaze, u
  <2>3. Fits(u, k) /\ NotBeaten(u)
    BY <1>1, <1>2, <2>1, <2>2, LookFits
  <2>4. v \in Browse(u) /\ u.at \in Screens
    BY <1>1, <1>5, <2>2 DEF u
  <2> QED BY <1>2, <2>3, <2>4, BrowseIsGood
<1>6. ASSUME NEW e \in On[w.at], v \in Scan(w, e) PROVE GoodWalk(v)
  <2> DEFINE gaze == <<Event("GAZE", w.at, e)>>
             u == [Look(w, e) EXCEPT !.scans = @ + 1]
             x(s) == [u EXCEPT !.status = s]
  <2>1. gaze \in Seq(Events) /\ \A j \in 1..Len(gaze) : gaze[j].type \notin Interactions
    BY <1>3
  <2>2. /\ u = [at |-> w.at, trail |-> w.trail, scans |-> u.scans, status |-> u.status, log |-> u.log]
        /\ u.log = w.log \o gaze /\ u.at = w.at /\ u.status = "IN_PROGRESS"
    <3> DEFINE y == Look(w, e)
    <3>1. /\ y = [at |-> w.at, trail |-> w.trail, scans |-> y.scans, status |-> w.status, log |-> y.log]
          /\ y.log = w.log \o gaze
      BY <1>2, LookIsWalk
    <3> HIDE DEF gaze, y
    <3>2. u = [y EXCEPT !.scans = @ + 1]
      BY DEF y
    <3> HIDE DEF u
    <3> QED BY <1>1, <3>1, <3>2
  <2>3. ASSUME NEW s
        PROVE  /\ x(s) = [at |-> w.at, trail |-> w.trail, scans |-> x(s).scans,
                          status |-> x(s).status, log |-> x(s).log]
               /\ x(s).log = w.log \o gaze /\ x(s).at = w.at /\ x(s).status = s
    <3> HIDE DEF gaze, u
    <3> QED BY <2>2
  <2>4. CASE e = Intended(w.at)
    <3>1. v \in Use(u, e)
      BY <1>6, <2>4 DEF Scan
    <3> HIDE DEF gaze, u
    <3>2. Fits(u, k) /\ NotBeaten(u)
      BY <1>1, <1>2, <2>1, <2>2, LookFits
    <3>3. u.at \in Screens /\ e \in On[u.at]
      BY <1>1, <1>6, <2>2
    <3> QED BY <1>2, <3>1, <3>2, <3>3, UseIsGood
  <2>5. CASE e # Intended(w.at)
    <3>1. PICK s \in {"ABANDONED", "IN_PROGRESS"} : v = x(s)
      BY <1>6, <2>2, <2>5 DEF Scan
    <3> HIDE DEF gaze, u, x
    <3>2. Fits(v, k) /\ NotBeaten(v)
      BY <1>1, <1>2, <2>1, <2>3, <3>1, LookFits
    <3>3. v.at \in Screens /\ v.status # "COMPLETED"
      BY <1>1, <2>3, <3>1
    <3> QED BY <3>2, <3>3 DEF GoodWalk, Earned
  <2> QED BY <2>4, <2>5
<1> QED BY <1>4, <1>5, <1>6 DEF Turn

\* All walks are, however long; without a start on a screen there is none.
LEMMA WalksAreGood == \A w \in Walks[Turns] : GoodWalk(w)
<1> DEFINE Good == {n \in Nat : n <= Turns =>
                      \A w \in Walks[n] : GoodWalk(w) /\ (Start \notin Screens => w = Crashed)}
<1>1. Turns \in Nat
  BY ChainAssumption DEF Turns
<1>2. 0 \in Good
  BY WalksDef, FirstIsGood DEF FirstWalk
<1>3. ASSUME NEW n \in 0..Turns, n \in Good, n < Turns PROVE n + 1 \in Good
  <2>1. Walks[n + 1] = Longer(Walks[n])
    BY <1>1, <1>3, WalksDef
  <2>2. \A w \in Walks[n] : GoodWalk(w) /\ (Start \notin Screens => w = Crashed)
    BY <1>3
  <2>3. Start \notin Screens => \A w \in Walks[n] : Turn(w) = {}
    BY <2>2 DEF Turn, Crashed
  <2>4. \A w \in Walks[n + 1] : GoodWalk(w) /\ (Start \notin Screens => w = Crashed)
    BY <2>1, <2>2, <2>3, TurnsAreGood DEF Longer
  <2> QED BY <2>4
<1> HIDE DEF Good
<1>4. Turns \in Good
  BY <1>1, <1>2, <1>3, Induction
<1> QED BY <1>1, <1>4 DEF Good

\* Participants end with such walks.
LEMMA OutcomesAreGood == outcome \in [People -> Outcomes] => NobodyBeatsTheBaseline
<1> SUFFICES ASSUME outcome \in [People -> Outcomes], NEW p \in People, BelowBaseline(outcome[p])
             PROVE  /\ Acted(outcome[p]) \cap Critical = {}
                    /\ outcome[p].status = "COMPLETED" => HasSuccess
  BY DEF NobodyBeatsTheBaseline
<1>1. PICK w \in Walks[Turns] : outcome[p].status = w.status /\ outcome[p].log = w.log
  BY DEF Outcomes
<1>2. \A types : Steps(outcome[p], types) = Steps(w, types)
  BY <1>1 DEF Steps
<1>3. /\ Acted(outcome[p]) = Acted(w) /\ Taken(outcome[p]) = Taken(w)
      /\ Enters(outcome[p]) = Enters(w)
  BY <1>1, <1>2 DEF Acted, Taken, Enters
<1>4. GoodWalk(w)
  BY WalksAreGood
<1>5. \/ Taken(w) < ShortestPathBaseline.actions
      \/ Cardinality(Enters(w)) <= ShortestPathBaseline.screens
  BY <1>3 DEF BelowBaseline
<1>6. Acted(w) \cap Critical = {}
  <2> SUFFICES ASSUME Acted(w) \cap Critical # {} PROVE FALSE
    OBVIOUS
  <2>1. /\ Taken(w) \in Nat /\ ShortestPathBaseline.actions \in Nat
        /\ Taken(w) >= ShortestPathBaseline.actions
        /\ Cardinality(Enters(w)) \in Nat /\ ShortestPathBaseline.screens \in Nat
        /\ Cardinality(Enters(w)) > ShortestPathBaseline.screens
    BY <1>4 DEF GoodWalk, NotBeaten
  <2> QED BY <1>5, <2>1
<1> QED BY <1>1, <1>3, <1>4, <1>6 DEF GoodWalk, Earned

\* Nobody gets to a critical element in fewer actions, or over fewer screens, than by
\* the shortest path through the screen graph, and who completes the task below it has
\* met a success condition (analytics_engine.py:84-129, simulation_graph.py:506-549).
THEOREM BaselineSafe == Spec => []NobodyBeatsTheBaseline
<1>1. Init => outcome \in [People -> Outcomes]
  BY DEF Init
<1>2. outcome \in [People -> Outcomes] /\ [Next]_vars => (outcome \in [People -> Outcomes])'
  BY DEF Next, vars, Finalize, Claim, HandlerRaises, Aggregate, Evaluate, ReadRuns,
    ReadObservations,
    DeleteMetrics, CommitMetrics, ReadMetrics, ReadSegments, DeleteValidation, CommitValidation,
    WriteInsights, CommitInsights
<1> QED BY <1>1, <1>2, OutcomesAreGood, PTL DEF Spec
==============================================================================
