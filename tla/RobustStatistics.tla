-------------------------- MODULE RobustStatistics --------------------------
(***************************************************************************)
(* The shared statistical evaluator of M25: features of a window of        *)
(* telemetry, robust baselines over earlier windows, the choice of a       *)
(* baseline, the robust score and the state of a signal; and the pairing   *)
(* of phone and device points of M23.                                      *)
(* Numbers are integers: a median is kept doubled, a deviation four times, *)
(* a percentile a hundred times, a rate as the pair of its count and total *)
(* and a score as a fraction.                                              *)
(***************************************************************************)
EXTENDS Integers, Sequences, FiniteSets, SequencesExt

Null == "null"

(* The elements of s at the indexes of I, in the order of s. *)
Kept(s, I) ==
    [k \in 1..Cardinality(I) |-> s[CHOOSE i \in I : Cardinality({j \in I : j <= i}) = k]]

(* The elements of s in the order R of its indexes; a sort that is stable  *)
(* puts elements neither of which comes before the other as they stand.    *)
InOrder(s, R) ==
    [k \in DOMAIN s |-> s[CHOOSE i \in DOMAIN s : Cardinality({j \in DOMAIN s : <<j, i>> \in R}) = k]]
StablySorted(s, Before(_, _)) ==
    InOrder(s, {e \in (DOMAIN s) \X (DOMAIN s) :
                   \/ Before(s[e[1]], s[e[2]])
                   \/ ~Before(s[e[2]], s[e[1]]) /\ e[1] <= e[2]})

Sorted(values) == StablySorted(values, LAMBDA v, w : v < w)
Abs(n) == IF n < 0 THEN -n ELSE n

(* Twice the median. *)
Median2(values) ==
    LET sorted == Sorted(values)
        middle == Len(values) \div 2
    IN IF values = <<>> THEN 0
       ELSE IF Len(values) % 2 = 0 THEN sorted[middle] + sorted[middle + 1]
       ELSE 2 * sorted[middle + 1]

(* A hundred times the percentile at the fraction p/100. *)
Percentile100(values, p) ==
    LET sorted   == Sorted(values)
        position == (Len(values) - 1) * p
        lower    == position \div 100 + 1
        rest     == position % 100
    IN IF values = <<>> THEN 0
       ELSE 100 * sorted[lower]
            + (IF rest = 0 THEN 0 ELSE (sorted[lower + 1] - sorted[lower]) * rest)

(* Four times the median absolute deviation. *)
Deviation4(values, center2) ==
    Median2([i \in DOMAIN values |-> Abs(2 * values[i] - center2)])

SupportFor(samples, synthetic) ==
    IF synthetic THEN "synthetic_only"
    ELSE IF samples <= 0 THEN "none"
    ELSE IF samples < 3 THEN "low"
    ELSE IF samples < 20 THEN "moderate" ELSE "strong"

-----------------------------------------------------------------------------
(* Baselines. *)

(* The baseline of a cohort over the observations that belong to it; its   *)
(* statistics are null, and never read, unless it is supported.            *)
RobustBaseline(cohort, observations, minimumSupport) ==
    LET Belongs(o) == /\ o.synthetic = cohort.synthetic
                      /\ o.deviceModel = cohort.deviceModel
                      /\ o.adapterVersion = cohort.adapterVersion
                      /\ o.workCategory = cohort.workCategory
                      /\ cohort.source = "mixed" \/ o.source = cohort.source
        own       == Kept(observations, {i \in DOMAIN observations : Belongs(observations[i])})
        values    == [i \in DOMAIN own |-> own[i].value]
        supported == Len(values) >= minimumSupport
        center2   == Median2(values)
    IN [cohort |-> cohort, sampleCount |-> Len(values), active |-> supported,
        supported |-> supported,
        median2 |-> center2, deviation4 |-> Deviation4(values, center2),
        p25 |-> Percentile100(values, 25), p75 |-> Percentile100(values, 75)]

Broadens(cohort, requested) ==
    LET model   == requested.deviceModel # Null /\ cohort.deviceModel = requested.deviceModel
        adapter == requested.adapterVersion # Null
                   /\ cohort.adapterVersion = requested.adapterVersion
    IN /\ model \/ adapter
       /\ cohort.deviceModel = Null \/ model
       /\ cohort.adapterVersion = Null \/ adapter
       /\ cohort.workCategory \in {Null, requested.workCategory}
       /\ cohort.source = requested.source

IsFleet(cohort, requested) ==
    /\ cohort.deviceModel = Null
    /\ cohort.adapterVersion = Null
    /\ cohort.workCategory = Null
    /\ cohort.source = requested.source

(* The first element that passes, as a sequence that may be empty. *)
FirstOf(s, Test(_)) ==
    LET found == {i \in DOMAIN s : Test(s[i])}
    IN IF found = {} THEN <<>> ELSE <<s[CHOOSE i \in found : \A k \in found : i <= k]>>

Counts(found) == found # <<>> /\ found[1].sampleCount > 0

Used(found, fallback) == [baseline |-> found, fallback |-> fallback]

(* An exact cohort, or a compatible model or adapter cohort (the first one *)
(* of the model if there is one), or the fleet.                            *)
SelectBaseline(baselines, requested) ==
    LET Active(b)  == /\ b.active
                      /\ b.cohort.metric = requested.metric
                      /\ b.cohort.synthetic = requested.synthetic
        Exact(b)   == Active(b) /\ b.sampleCount > 0 /\ b.cohort = requested
        Broader(b) == Active(b) /\ Broadens(b.cohort, requested)
        Model(b)   == Broader(b) /\ requested.deviceModel # Null
                      /\ b.cohort.deviceModel = requested.deviceModel
        Fleet(b)   == Active(b) /\ IsFleet(b.cohort, requested)
        exact      == FirstOf(baselines, Exact)
        model      == FirstOf(baselines, Model)
        broader    == IF model # <<>> THEN model ELSE FirstOf(baselines, Broader)
        fleet      == FirstOf(baselines, Fleet)
    IN IF exact # <<>> THEN Used(exact, "exact_supported_cohort")
       ELSE IF Counts(broader) THEN Used(broader, "broader_model_adapter_cohort")
       ELSE IF Counts(fleet) THEN Used(fleet, "fleet_cohort")
       ELSE Used(<<>>, "insufficient_data")

-----------------------------------------------------------------------------
(* The score: 0.6745 * deviation / scale, where the scale is the median    *)
(* absolute deviation or, when that is zero, the interquartile range over  *)
(* 1.349.                                                                  *)

NoScore(status) == [status |-> status, fallback |-> "none", num |-> 0, den |-> 1]

Directed(num, direction) ==
    CASE direction = "high_bad" -> IF num > 0 THEN num ELSE 0
      [] direction = "low_bad" -> IF num < 0 THEN -num ELSE 0
      [] direction = "two_sided" -> Abs(num)

RobustScore(value, baseline, direction, samples) ==
    IF ~ baseline.supported \/ baseline.sampleCount <= 0 \/ samples <= 0
    THEN NoScore("insufficient_data")
    ELSE LET deviation2 == 2 * value - baseline.median2
             range100   == baseline.p75 - baseline.p25
         IN IF baseline.deviation4 # 0
            THEN [status |-> "scored", fallback |-> "mad",
                  num |-> Directed(6745 * 2 * deviation2, direction),
                  den |-> 10000 * baseline.deviation4]
            ELSE IF range100 > 0
            THEN [status |-> "scored", fallback |-> "iqr",
                  num |-> Directed(9099 * deviation2, direction), den |-> 200 * range100]
            ELSE NoScore("insufficient_variation")

AtLeast(score, threshold) == score.num >= threshold * score.den

SignalStateFromScore(score, definition, previous, consecutive) ==
    IF consecutive < definition.consecutiveWindows
    THEN IF AtLeast(score, definition.clearing) THEN "watch" ELSE "normal"
    ELSE IF AtLeast(score, definition.opening) THEN "investigate"
    ELSE IF previous = "investigate" /\ AtLeast(score, definition.clearing) THEN "watch"
    ELSE "normal"

EvaluateSignal(definition, value, samples, selection, previous, consecutive) ==
    LET supported == /\ samples >= definition.currentSupport
                     /\ selection.baseline # <<>>
                     /\ selection.baseline[1].sampleCount >= definition.baselineSupport
        score     == IF supported
                     THEN RobustScore(value, selection.baseline[1], definition.direction, samples)
                     ELSE NoScore("insufficient_data")
    IN [state |-> IF score.status = "scored"
                  THEN SignalStateFromScore(score, definition, previous, consecutive)
                  ELSE "insufficient_data",
        score |-> score, fallback |-> selection.fallback]

OperationallyActionable(state) == state \in {"investigate", "watch"}

-----------------------------------------------------------------------------
(* Features of a window.  Evidence is a sequence of records; a reading     *)
(* that may be missing is a sequence of at most one number.                *)

Minutes == {"long_stop_minutes", "phone_missing_minutes", "physical_device_missing_minutes"}

Rate(count, total) ==
    IF total <= 0 THEN <<0, 1>> ELSE <<IF count > total THEN total ELSE count, total>>

CountOf(evidence, Test(_)) == Cardinality({i \in DOMAIN evidence : Test(evidence[i])})

SumSeq(values) ==
    LET total[n \in 0..Len(values)] == IF n = 0 THEN 0 ELSE total[n - 1] + values[n]
    IN total[Len(values)]

Clean(evidence) ==
    LET byId == StablySorted(evidence, LAMBDA a, b : a.id < b.id)
    IN [i \in DOMAIN byId |->
          [byId[i] EXCEPT !.minutes = [m \in Minutes |-> IF @[m] < 0 THEN 0 ELSE @[m]]]]

Readings(evidence, field) ==
    SelectSeq(FlattenSeq([i \in DOMAIN evidence |-> evidence[i][field]]), LAMBDA n : n >= 0)

ByTime(points) == StablySorted(points, LAMBDA a, b : a.at < b.at \/ (a.at = b.at /\ a.id < b.id))

(* The fall between the first and the last battery reading, per the time  *)
(* between them; readings of one instant keep the order of their ids.     *)
BatteryDrop(evidence) ==
    LET read   == SelectSeq(evidence, LAMBDA e : e.battery # <<>> /\ e.battery[1] \in 0..100)
        byTime == ByTime(read)
        n      == Len(read)
    IN IF n < 2 THEN <<0, 1>>
       ELSE LET elapsed == byTime[n].at - byTime[1].at
                drop    == byTime[1].battery[1] - byTime[n].battery[1]
            IN IF elapsed > 0 /\ drop > 0 THEN <<drop, elapsed>> ELSE <<0, 1>>

(* Sixtieths of a minute, a minute at least for each event without power. *)
PowerLoss(evidence) ==
    LET unpowered == SelectSeq(evidence, LAMBDA e : "unpowered" \in e.flags)
        gap(e)    == IF e.interarrival = <<>> \/ e.interarrival[1] < 60 THEN 60
                     ELSE e.interarrival[1]
    IN SumSeq([i \in DOMAIN unpowered |-> gap(unpowered[i])])

DispositionRates ==
    [accepted_live_rate |-> "accepted_live", accepted_delayed_rate |-> "accepted_delayed",
     health_only_rate |-> "health_only", rejection_rate |-> "rejected",
     duplicate_rate |-> "duplicate", identity_conflict_rate |-> "duplicate_conflict"]

FlagRates ==
    [sequence_gap_rate |-> "gap", out_of_order_rate |-> "disorder",
     heartbeat_coverage_rate |-> "heartbeat", location_coverage_rate |-> "location",
     comparison_pair_rate |-> "pair", mismatch_candidate_rate |-> "mismatch",
     insufficient_quality_rate |-> "quality"]

FlagCounts == [impossible_speed_count |-> "speed", sustained_mismatch_count |-> "sustained"]

(* The features that are a median, a percentile or a total of their own. *)
OtherFeatures(evidence) ==
    LET accuracy == Readings(evidence, "accuracy")
        gaps     == Readings(evidence, "interarrival")
    IN [event_count |-> <<Len(evidence), 1>>,
        median_accuracy_meters |-> <<Median2(accuracy), 2>>,
        p95_accuracy_meters |-> <<Percentile100(accuracy, 95), 100>>,
        median_interarrival_seconds |-> <<Median2(gaps), 2>>,
        p95_interarrival_seconds |-> <<Percentile100(gaps, 95), 100>>,
        gps_fix_rate |-> Rate(CountOf(evidence, LAMBDA e : e.fix \notin {Null, "none"}),
                              CountOf(evidence, LAMBDA e : e.fix # Null)),
        gsm_healthy_rate |-> Rate(CountOf(evidence, LAMBDA e : e.gsm # <<>> /\ e.gsm[1] >= -90),
                                  CountOf(evidence, LAMBDA e : e.gsm # <<>>)),
        battery_drop_per_hour |-> BatteryDrop(evidence),
        external_power_loss_minutes |-> <<PowerLoss(evidence), 60>>]

FeatureValues(evidence) ==
    LET total == Len(evidence)
        other == OtherFeatures(evidence)
        Having(flag) == CountOf(evidence, LAMBDA e : flag \in e.flags)
    IN [f \in DOMAIN DispositionRates \cup DOMAIN FlagRates \cup DOMAIN FlagCounts \cup Minutes
              \cup DOMAIN other |->
          IF f \in DOMAIN DispositionRates
          THEN Rate(CountOf(evidence, LAMBDA e : e.disposition = DispositionRates[f]), total)
          ELSE IF f \in DOMAIN FlagRates THEN Rate(Having(FlagRates[f]), total)
          ELSE IF f \in DOMAIN FlagCounts THEN <<Having(FlagCounts[f]), 1>>
          ELSE IF f \in Minutes THEN <<SumSeq([i \in DOMAIN evidence |-> evidence[i].minutes[f]]), 1>>
          ELSE other[f]]

(* The reading a feature rests on, if it is not every event. *)
RestsOn ==
    [median_accuracy_meters |-> "accuracy", p95_accuracy_meters |-> "accuracy",
     median_interarrival_seconds |-> "interarrival", p95_interarrival_seconds |-> "interarrival",
     gsm_healthy_rate |-> "gsm", battery_drop_per_hour |-> "battery"]

SampleCount(evidence, feature) ==
    IF feature = "gps_fix_rate" THEN CountOf(evidence, LAMBDA e : e.fix # Null)
    ELSE IF feature \in DOMAIN RestsOn
    THEN CountOf(evidence, LAMBDA e : e[RestsOn[feature]] # <<>>)
    ELSE Len(evidence)

FeatureSource(feature) ==
    CASE feature \in {"comparison_pair_rate", "mismatch_candidate_rate", "sustained_mismatch_count",
                      "phone_missing_minutes", "physical_device_missing_minutes"} ->
           "m23_comparison_snapshot"
      [] feature \in {"sequence_gap_rate", "out_of_order_rate", "long_stop_minutes",
                      "impossible_speed_count", "insufficient_quality_rate"} -> "m22_rule_evidence"
      [] feature \in {"heartbeat_coverage_rate", "battery_drop_per_hour", "gps_fix_rate",
                      "external_power_loss_minutes", "gsm_healthy_rate"} -> "device_health"
      [] feature \in {"location_coverage_rate", "median_accuracy_meters",
                      "p95_accuracy_meters"} -> "location_point"
      [] OTHER -> "telemetry_receipt"

(* A snapshot is refused when evidence of both worlds is mixed. *)
FeatureSnapshot(evidence, synthetic) ==
    LET clean  == Clean(evidence)
        values == FeatureValues(clean)
    IN IF \E i \in DOMAIN evidence : evidence[i].synthetic # synthetic
       THEN [ok |-> FALSE]
       ELSE [ok |-> TRUE, synthetic |-> synthetic,
             values |-> [f \in DOMAIN values |->
               [value |-> values[f], sampleCount |-> SampleCount(clean, f),
                coverage |-> Rate(SampleCount(clean, f), IF clean = <<>> THEN 1 ELSE Len(clean)),
                source |-> FeatureSource(f)]]]

-----------------------------------------------------------------------------
(* M23 pairing: each phone point in time order takes the nearest free      *)
(* device point of the window, the earlier one on a tie.                   *)

WithPairOf(phone, pairs, physicalPoints, window) ==
    LET used == {pairs[i][2] : i \in DOMAIN pairs}
        gap(q) == Abs(q.at - phone.at)
        near == {q \in Range(physicalPoints) : q.id \notin used /\ gap(q) <= window}
        Best(q) == \A r \in near :
            \/ gap(q) < gap(r)
            \/ gap(q) = gap(r) /\ (q.at < r.at \/ (q.at = r.at /\ q.id <= r.id))
    IN IF near = {} THEN pairs
       ELSE LET q == CHOOSE c \in near : Best(c)
            IN Append(pairs, <<phone.id, q.id, gap(q)>>)

PairPoints(phonePoints, physicalPoints, window) ==
    LET phones == ByTime(phonePoints)
        taken[n \in 0..Len(phones)] ==
          IF n = 0 THEN <<>> ELSE WithPairOf(phones[n], taken[n - 1], physicalPoints, window)
    IN taken[Len(phones)]

-----------------------------------------------------------------------------
(* A snapshot does not depend on the order in which the evidence was read, *)
(* its rates stay within one, and one synthetic event is never averaged    *)
(* with physical ones.                                                     *)
SnapshotsAreStable(evidence) ==
    LET Of(sequence) == FeatureSnapshot(sequence, FALSE)
        rates == DOMAIN DispositionRates \cup DOMAIN FlagRates
                 \cup {"gps_fix_rate", "gsm_healthy_rate"}
    IN /\ \A order \in Bijection(DOMAIN evidence, DOMAIN evidence) :
             Of([i \in DOMAIN evidence |-> evidence[order[i]]]) = Of(evidence)
       /\ Of(evidence).ok <=> \A i \in DOMAIN evidence : ~ evidence[i].synthetic
       /\ Of(evidence).ok =>
            \A f \in DOMAIN Of(evidence).values :
              LET feature == Of(evidence).values[f] IN
              /\ feature.coverage[1] \in 0..feature.coverage[2]
              /\ f \in rates => feature.value[1] \in 0..feature.value[2]

(* No point is in two pairs, no pair is further apart than the window, no  *)
(* phone point is left out beside a free device point, and the order in    *)
(* which the points arrive does not matter.                                *)
PairingIsComplete(phonePoints, physicalPoints, window) ==
    LET pairs  == PairPoints(phonePoints, physicalPoints, window)
        Ids(n) == {pairs[i][n] : i \in DOMAIN pairs}
    IN /\ Cardinality(Ids(1)) = Len(pairs) /\ Cardinality(Ids(2)) = Len(pairs)
       /\ \A i \in DOMAIN pairs : pairs[i][3] <= window
       /\ \A p \in Range(phonePoints), q \in Range(physicalPoints) :
            p.id \in Ids(1) \/ q.id \in Ids(2) \/ Abs(p.at - q.at) > window
       /\ pairs = PairPoints(Reverse(phonePoints), Reverse(physicalPoints), window)
=============================================================================
