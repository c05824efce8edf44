--------------------------- MODULE EvidenceEngine ---------------------------
(***************************************************************************)
(* The Validation Engine and the Insight Engine (services/                 *)
(* validation_engine.py, insight_engine.py and the helpers of their jobs): *)
(* how a run compares with a benchmark, with baseline runs and with its    *)
(* repetitions, which drafts of the language model become insights, and    *)
(* how strong their evidence is.                                           *)
(*                                                                         *)
(* metrics and segments are sets of [by, row]: rows of AnalyticsEngine     *)
(* with the job that inserted them, which tells rows apart as ids do.      *)
(* Correlations and divergences are floats: only where they exist, and     *)
(* for how many elements, is modelled, their value is None.                *)
(***************************************************************************)
EXTENDS AnalyticsEngine

CONSTANTS
    MinSample,   \* MIN_SAMPLE_SIZE
    MinRepeats,  \* runs a stability figure needs
    SampleHigh, SampleMedium   \* the sample_size buckets

Same(x, y) == x.num * y.den = y.num * x.den
Less(x, y) == x.num * y.den < y.num * x.den
Size(x)    == [x EXCEPT !.num = IF @ < 0 THEN -@ ELSE @]
Minus(x, y) == Share(x.num * y.den - y.num * x.den, x.den * y.den)
Zero       == Share(0, 1)

-----------------------------------------------------------------------------
(* RunSummary *)

\* Where a dict or a next() meets several rows of one name, one of them counts.
Pick(rows) == (CHOOSE x \in rows : TRUE).row

PerElement(metrics, metric) ==
    LET rows == {x \in metrics : x.row.metric = metric}
    IN  [e \in {x.row.element : x \in rows} |-> Pick({x \in rows : x.row.element = e}).value]

Summary(metrics) ==
    LET found == {x \in metrics : x.row.metric = "completion_rate"}
    IN  [completion |-> IF found = {} THEN None ELSE Pick(found).value,
         size       |-> IF found = {} THEN None ELSE Pick(found).size,
         clicks     |-> PerElement(metrics, "click_rate"),
         attention  |-> PerElement(metrics, "attention_share")]

-----------------------------------------------------------------------------
(* ValidationEngine *)

Fact(metric, comparison, value, size) ==
    [metric |-> metric, comparison |-> comparison, value |-> value, size |-> size]

CompletionAgreement(comparison, a, b) ==
    LET sizes == {a.size, b.size} \ {None}
    IN  IF None \in {a.completion, b.completion} THEN {}
        ELSE {Fact("task_completion_agreement", comparison, Size(Minus(a.completion, b.completion)),
                   IF sizes = {} THEN 0 ELSE Min(sizes))}

\* _pearson is None for a series without variance.
Varies(f(_), S) == \E x, y \in S : ~ Same(f(x), f(y))

ClickAgreement(comparison, a, b) ==
    LET common == DOMAIN a \cap DOMAIN b
    IN  IF /\ Cardinality(common) >= 2
           /\ Varies(LAMBDA e : a[e], common) /\ Varies(LAMBDA e : b[e], common)
        THEN {Fact("click_agreement", comparison, None, Cardinality(common))} ELSE {}

AttentionSimilarity(comparison, a, b) ==
    LET keys == DOMAIN a \cup DOMAIN b
        n    == Cardinality(keys)
        of(f, e) == IF e \in DOMAIN f THEN f[e] ELSE Zero
        any(f)   == \E e \in DOMAIN f : Less(Zero, f[e])
        varied(f) == Varies(LAMBDA e : of(f, e), keys)
    IN  IF n < 2 \/ ~ any(a) \/ ~ any(b) THEN {}
        ELSE {Fact("attention_jsd_similarity", comparison, None, n)}
               \cup IF varied(a) /\ varied(b)
                    THEN {Fact("attention_spatial_correlation", comparison, None, n)} ELSE {}

CompareRuns(comparison, a, b) ==
    CompletionAgreement(comparison, a, b) \cup ClickAgreement(comparison, a.clicks, b.clicks)
      \cup AttentionSimilarity(comparison, a.attention, b.attention)

\* relationships: a set of [low, high, metric, direction].
DirectionalAgreement(relationships, segments) ==
    LET rows(segment, metric) == {x \in segments : x.row.segment = segment /\ x.row.metric = metric}
        known == {r \in relationships : rows(r.low, r.metric) # {} /\ rows(r.high, r.metric) # {}}
        right(r) == LET low == Pick(rows(r.low, r.metric)).value
                        high == Pick(rows(r.high, r.metric)).value
                    IN  IF r.direction = "lower" THEN Less(low, high) ELSE Less(high, low)
        n == Cardinality(known)
    IN  {Fact("segment_directional_agreement", "human_benchmark",
              Share(Cardinality({r \in known : right(r)}), k), k) : k \in {n} \ {0}}

\* rates: a sequence.  The value is the square of stdev / mean.
StabilityCv(rates) ==
    LET n      == Len(rates)
        scale  == FoldFunction(LAMBDA x, y : x.den * y, 1, rates)
        x(i)   == rates[i].num * (scale \div rates[i].den)
        total  == Sum(x, 1..n)
        square == Sum(LAMBDA i : x(i) * x(i), 1..n)
    IN  IF n < MinRepeats \/ total = 0 THEN {}
        ELSE {Fact("run_stability_cv", "stability",
                   Share(n * (n * square - total * total), (n - 1) * total * total), n)}

-----------------------------------------------------------------------------
(* InsightEngine *)

\* A citation is [segment, metric, element, screen, value]; segment is None for a metric.
Cited(ref, metrics, segments) ==
    IF ref.segment # None
    THEN {x \in segments : x.row.segment = ref.segment /\ x.row.metric = ref.metric}
    ELSE {x \in metrics : /\ x.row.metric = ref.metric
                          /\ x.row.element = ref.element /\ x.row.screen = ref.screen}

\* metric_index and segment_index keep one row of a key.
Resolve(ref, metrics, segments) == CHOOSE x \in Cited(ref, metrics, segments) : TRUE

\* Mutant: a citation need only match.
SupportedByAnySample(ref, metrics, segments) ==
    /\ Cited(ref, metrics, segments) # {}
    /\ Same(Resolve(ref, metrics, segments).row.value, ref.value)

Supported(ref, metrics, segments) ==
    /\ Cited(ref, metrics, segments) # {}
    /\ Same(Resolve(ref, metrics, segments).row.value, ref.value)
    /\ Resolve(ref, metrics, segments).row.size >= MinSample

\* The rows a draft links to; none when it is rejected.
Validate(draft, metrics, segments) ==
    IF /\ draft.affected \subseteq {x.row.segment : x \in segments}
       /\ \A ref \in draft.evidence : Supported(ref, metrics, segments)
    THEN {Resolve(ref, metrics, segments) : ref \in draft.evidence} ELSE {}

Bucket(x, high, medium) ==
    IF ~ Less(x, high) THEN "HIGH" ELSE IF ~ Less(x, medium) THEN "MEDIUM" ELSE "LOW"

BucketInverse(x, low, medium) ==
    IF ~ Less(medium, x) THEN "HIGH" ELSE IF ~ Less(low, x) THEN "MEDIUM" ELSE "LOW"

\* The strongest cited value stands for the effect, whatever its metric.
EffectSize(links) ==
    LET values == {Size(x.row.value) : x \in links}
    IN  CHOOSE v \in values : \A w \in values : ~ Less(v, w)

\* The thresholds of run_stability_cv are squared, like its value.
EvidenceStrength(links, facts) ==
    LET named(metric, comparison) ==
            {f \in facts : f.metric = metric /\ f.comparison = comparison}
        size == Share(Min({x.row.size : x \in links}), 1)
        levels == {Bucket(size, Share(SampleHigh, 1), Share(SampleMedium, 1)),
                   Bucket(EffectSize(links), Share(3, 10), Share(1, 10))}
          \cup {Bucket(f.value, Share(7, 10), Share(4, 10)) :
                  f \in named("segment_directional_agreement", "human_benchmark")}
          \cup {BucketInverse(f.value, Share(1225, 10000), Share(225, 10000)) :
                  f \in named("run_stability_cv", "stability")}
    IN  IF "LOW" \in levels THEN "LOW" ELSE IF levels = {"HIGH"} THEN "HIGH" ELSE "MEDIUM"
=============================================================================
