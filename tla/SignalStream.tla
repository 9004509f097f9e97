---------------------------- MODULE SignalStream ----------------------------
(***************************************************************************)
(* The statistical signal of one device as its windows close in order: the *)
(* database evaluates each window (M25 queue function) and the shared      *)
(* evaluator, which the migrations call the deterministic one, evaluates   *)
(* the same windows.  Windows of the device's model and of the fleet give  *)
(* the broader baselines.                                                  *)
(***************************************************************************)
EXTENDS RobustStatistics

CONSTANTS DeviceValues,   \* values a window of the device may have
          OtherValues,    \* values of the windows of the model and the fleet
          Samples,        \* events behind a window's value
          BaselineSupport,\* windows a baseline needs (8)
          CurrentSupport, \* events the window needs (3)
          MaxWindows,     \* bound: windows of the device
          MaxOther        \* bound: windows of the model, and of the fleet

VARIABLES windows,     \* the values of the closed windows, per scope
          evaluations, \* what the database stored for each window of the device
          shared       \* what the shared evaluator says of each

streamVars == <<windows, evaluations, shared>>

Definition == [opening |-> 3, clearing |-> 2, consecutiveWindows |-> 2,
               direction |-> "high_bad", baselineSupport |-> BaselineSupport,
               currentSupport |-> CurrentSupport]

Cohort(model, adapter) ==
    [metric |-> "rejection_rate", deviceModel |-> model, adapterVersion |-> adapter,
     workCategory |-> Null, source |-> "physical_device", synthetic |-> FALSE]

Cohorts == [device |-> Cohort("m", "a"), model |-> Cohort("m", Null), fleet |-> Cohort(Null, Null)]

-----------------------------------------------------------------------------
(* The database. *)

Tiers == <<"device", "model", "fleet">>

TierName == [device |-> "exact_supported_cohort", model |-> "broader_model_adapter_cohort",
             fleet |-> "fleet_cohort"]

(* The first tier with enough windows, or the windows of the device. *)
PriorBaseline ==
    LET supported == {i \in DOMAIN Tiers : Len(windows[Tiers[i]]) >= BaselineSupport}
        tier      == IF supported = {} THEN "device"
                     ELSE Tiers[CHOOSE i \in supported : \A k \in supported : i <= k]
        values    == windows[tier]
    IN [fallback |-> IF supported = {} THEN "insufficient_data" ELSE TierName[tier],
        sampleCount |-> Len(values), median2 |-> Median2(values),
        deviation4 |-> Deviation4(values, Median2(values)),
        p25 |-> Percentile100(values, 25), p75 |-> Percentile100(values, 75)]

FallbackStatistic(b) == IF b.deviation4 > 0 THEN "mad"
                        ELSE IF b.p75 - b.p25 > 0 THEN "iqr" ELSE "none"

DatabaseScore(value, b) ==
    LET d == 2 * value - b.median2
    IN CASE FallbackStatistic(b) = "mad" ->
              [num |-> Directed(6745 * 2 * d, Definition.direction), den |-> 10000 * b.deviation4]
         [] FallbackStatistic(b) = "iqr" ->
              [num |-> Directed(9099 * d, Definition.direction), den |-> 200 * (b.p75 - b.p25)]
         [] OTHER -> [num |-> 0, den |-> 1]

DatabaseState(score, previous, consecutive, supported) ==
    IF ~ supported THEN "insufficient_data"
    ELSE IF consecutive < Definition.consecutiveWindows
    THEN IF AtLeast(score, Definition.clearing) THEN "watch" ELSE "normal"
    ELSE IF AtLeast(score, Definition.opening) THEN "investigate"
    ELSE IF previous = "investigate" /\ AtLeast(score, Definition.clearing) THEN "watch"
    ELSE "normal"

Previous == IF evaluations = <<>> THEN "none" ELSE Last(evaluations).state

(* A mutated form: one window more is looked at. *)
LooksTooFar(anomalous) ==
    LET needed == Definition.consecutiveWindows
        first  == IF Len(evaluations) < needed THEN 1 ELSE Len(evaluations) - needed + 1
    IN IF anomalous THEN 1 + Cardinality({i \in first..Len(evaluations) : evaluations[i].anomalous})
       ELSE needed

(* An anomalous window counts the anomalous ones just before it. *)
Consecutive(anomalous) ==
    LET needed == Definition.consecutiveWindows
        first  == IF Len(evaluations) < needed THEN 1 ELSE Len(evaluations) - needed + 2
    IN IF anomalous THEN 1 + Cardinality({i \in first..Len(evaluations) : evaluations[i].anomalous})
       ELSE needed

DatabaseEvaluation(value, samples) ==
    LET b         == PriorBaseline
        supported == /\ b.sampleCount >= BaselineSupport
                     /\ samples >= CurrentSupport
                     /\ FallbackStatistic(b) # "none"
        score     == DatabaseScore(value, b)
        anomalous == supported /\ AtLeast(score, Definition.opening)
    IN [anomalous |-> anomalous, fallback |-> b.fallback,
        state |-> DatabaseState(score, Previous, Consecutive(anomalous), supported)]

-----------------------------------------------------------------------------
(* The shared evaluator on the same windows. *)

Observations(scope) ==
    [i \in DOMAIN windows[scope] |->
       [value |-> windows[scope][i], deviceModel |-> Cohorts[scope].deviceModel,
        adapterVersion |-> Cohorts[scope].adapterVersion, workCategory |-> Null,
        source |-> "physical_device", synthetic |-> FALSE]]

Baselines ==
    LET observations == Observations("device") \o Observations("model") \o Observations("fleet")
    IN [i \in DOMAIN Tiers |-> RobustBaseline(Cohorts[Tiers[i]], observations, BaselineSupport)]

SharedEvaluation(value, samples) ==
    LET selection == SelectBaseline(Baselines, Cohorts["device"])
        previous  == IF shared = <<>> THEN "none" ELSE Last(shared).state
        Judge(n)  == EvaluateSignal(Definition, value, samples, selection, previous, n)
        alone     == Judge(Definition.consecutiveWindows)
        opens     == alone.score.status = "scored" /\ AtLeast(alone.score, Definition.opening)
        run       == IF ~ opens THEN Definition.consecutiveWindows
                     ELSE IF shared # <<>> /\ Last(shared).opens THEN 2 ELSE 1
    IN [state |-> Judge(run).state, fallback |-> selection.fallback, opens |-> opens]

-----------------------------------------------------------------------------
StreamInit ==
    /\ windows = [scope \in DOMAIN Cohorts |-> <<>>]
    /\ evaluations = <<>>
    /\ shared = <<>>

(* The baseline of a window rests on the windows before it. *)
DeviceWindowCloses(value, samples) ==
    /\ Len(windows["device"]) < MaxWindows
    /\ evaluations' = Append(evaluations, DatabaseEvaluation(value, samples))
    /\ shared' = Append(shared, SharedEvaluation(value, samples))
    /\ windows' = [windows EXCEPT !["device"] = Append(@, value)]

OtherWindowCloses(scope, value) ==
    /\ Len(windows[scope]) < MaxOther
    /\ windows' = [windows EXCEPT ![scope] = Append(@, value)]
    /\ UNCHANGED <<evaluations, shared>>

StreamNext ==
    \/ \E value \in DeviceValues, samples \in Samples : DeviceWindowCloses(value, samples)
    \/ \E scope \in {"model", "fleet"}, value \in OtherValues : OtherWindowCloses(scope, value)
-----------------------------------------------------------------------------
(* The database and the shared evaluator give every window the same state, *)
(* from the same kind of baseline when it decides.                         *)
EvaluatorsAgree ==
    \A i \in DOMAIN evaluations :
       /\ evaluations[i].state = shared[i].state
       /\ OperationallyActionable(evaluations[i].state) =>
            evaluations[i].fallback = shared[i].fallback

(* A device is under investigation only after as many anomalous windows in *)
(* a row as the signal asks for, and the window before was already shown.  *)
InvestigationNeedsARun ==
    \A i \in DOMAIN evaluations :
       evaluations[i].state = "investigate" =>
         /\ i >= Definition.consecutiveWindows
         /\ \A k \in (i - Definition.consecutiveWindows + 1)..i : evaluations[k].anomalous
         /\ OperationallyActionable(evaluations[i - 1].state)
=============================================================================
