-------------------------- MODULE TelemetryScenarios --------------------------
(***************************************************************************)
(* The synthetic telemetry scenarios of scenarios.ts with what they expect, *)
(* the meanings M22 and M23 give them (m22ScenarioSemantics.ts,             *)
(* m23ScenarioSemantics.ts) and the identities of contentIdentity.ts.       *)
(* The events of a scenario are delivered in any order and any number of    *)
(* times; each goes through validation, duplicate classification and the    *)
(* event time decision, as a consumer of the shared package composes them.  *)
(* Instants are milliseconds after StartAt, the start of work; coordinates  *)
(* are whole degrees.                                                      *)
(***************************************************************************)
EXTENDS TelemetryContracts, TLC

CONSTANT MaxDeliveries   \* how often events are delivered

VARIABLES scenario, deliveries, stored, eligible
scenarioVars == <<scenario, deliveries, stored, eligible>>

Window == INSTANCE CaptureWindow

(* The factory of events. *)
StartAt == 4000000
WorkEnd == 600000
Policy == [live |-> 120000, backfill |-> 86400000, skew |-> 30000]

Event(n) == [n |-> n, captured |-> 15000 * n, received |-> 15000 * n, latitude |-> 1, speed |-> 6,
             accuracy |-> 8, satellites |-> 9, battery |-> 88, gsm |-> -72, fix |-> "three_dimensional",
             sensors |-> FALSE]
Received(n, at) == [Event(n) EXCEPT !.received = at]
CapturedNow(n, at) == [Event(n) EXCEPT !.captured = at, !.received = at]

Device == Txt("synthetic-device", 40)
Observation(metric, value, unit, captured) ==
    Rec([contractVersion |-> Txt("1", 1), metric |-> Txt(metric, 20), value |-> value,
         unit |-> Txt(unit, 20), capturedAt |-> captured, deviceExternalId |-> Device,
         source |-> Txt("simulator", 9), quality |-> Txt("good", 4),
         normalizationVersion |-> Txt("1", 1), synthetic |-> Bool(TRUE)])

CanonicalEvent(e) ==
    LET captured == Stamp(StartAt + e.captured)
        Id(kind) == Txt(<<kind, e.n>>, 60)
        event == [contractVersion |-> Txt("1", 1), canonicalEventId |-> Id("canonical"),
            vendorEventId |-> Id("vendor"), idempotencyIdentity |-> Id("idempotency"),
            deviceExternalId |-> Device, authenticatedDeviceExternalId |-> Device,
            adapter |-> Rec([id |-> Txt("deterministic_simulator", 23), version |-> Txt("1.0.0", 5)]),
            stream |-> Rec([epoch |-> Txt("synthetic-epoch", 40), sequence |-> Num(e.n)]),
            capturedAt |-> captured, receivedAt |-> Stamp(StartAt + e.received),
            normalizedAt |-> Stamp(StartAt + e.received), observedClockOffsetMs |-> Num(0),
            position |-> Rec([latitude |-> Fraction(e.latitude), longitude |-> Fraction(2),
                accuracyMeters |-> Num(e.accuracy), speedMetersPerSecond |-> Fraction(e.speed),
                headingDegrees |-> Num(45), satellites |-> Num(e.satellites)]),
            health |-> Rec([heartbeat |-> Bool(TRUE), externalPower |-> Bool(TRUE),
                batteryPercent |-> Num(e.battery), gsmSignalDbm |-> Num(e.gsm), gpsFix |-> Txt(e.fix, 4)]),
            quality |-> Txt("valid", 5),
            provenance |-> Rec([source |-> Txt("simulator", 9), normalizationVersion |-> Txt("1", 1),
                synthetic |-> Bool(TRUE), rawPayloadHash |-> Id("raw"), canonicalPayloadHash |-> Id("payload")])]
    IN  Rec(IF ~e.sensors THEN event
            ELSE event @@ [observations |-> List(<<Observation("fuel_level", Num(64), "percentage", captured),
                                                   Observation("ignition", Bool(TRUE), "boolean", captured)>>)])

(* What a scenario expects, unless it says otherwise. *)
Base == [events |-> <<>>, valid |-> TRUE, window |-> "not_applicable", reason |-> "not_applicable",
         duplicates |-> "not_applicable", eligible |-> 1, relation |-> "not_applicable",
         rejectedSensor |-> FALSE]
Fixture(events, changes) == changes @@ [events |-> events] @@ Base
Rejection(why) == [window |-> "rejected", reason |-> why, eligible |-> 0]

MovementScenarios == [
    healthy_movement |-> Fixture(<<Event(1), Event(2), Event(3)>>,
        [window |-> "accepted_live", reason |-> "inside_live_freshness_window", eligible |-> 3]),
    long_stop |-> Fixture(<<[Event(1) EXCEPT !.speed = 0], [CapturedNow(2, 315000) EXCEPT !.speed = 0]>>,
        [eligible |-> 2]),
    missing_heartbeat |-> Fixture(<<Event(1), Event(30)>>, [eligible |-> 2]),
    duplicate_retry |-> Fixture(<<Event(1), Event(1)>>, [duplicates |-> "duplicate_identical_content"]),
    changed_content_duplicate |-> Fixture(<<Event(1), [Event(1) EXCEPT !.battery = 4]>>,
        [duplicates |-> "duplicate_conflict"]),
    sequence_gap |-> Fixture(<<Event(1), Event(3)>>, [eligible |-> 2]),
    out_of_order_event |-> Fixture(<<Event(3), Received(2, 60000)>>, [eligible |-> 2])]

ArrivalScenarios == [
    delayed_offline_backfill |-> Fixture(<<Received(1, 721000)>>,
        [window |-> "accepted_delayed", reason |-> "inside_delayed_backfill_window"]),
    expired_delayed_backfill |-> Fixture(<<Received(1, WorkEnd + Policy.backfill + 1)>>,
        Rejection("delayed_backfill_expired")),
    invalid_coordinate |-> Fixture(<<[Event(1) EXCEPT !.latitude = 91]>>, [valid |-> FALSE, eligible |-> 0]),
    impossible_speed |-> Fixture(<<Event(1), [Event(2) EXCEPT !.latitude = 2]>>, [eligible |-> 2]),
    low_battery |-> Fixture(<<[Event(1) EXCEPT !.battery = 5]>>, [eligible |-> 1]),
    poor_gps |-> Fixture(<<[Event(1) EXCEPT !.accuracy = 750, !.satellites = 1, !.fix = "none"]>>, [eligible |-> 1]),
    poor_gsm |-> Fixture(<<[Event(1) EXCEPT !.gsm = -120]>>, [eligible |-> 1])]

WorkScenarios == [
    offline_reconnect |-> Fixture(<<Event(1), Received(2, 242000), Received(3, 242000)>>, [eligible |-> 3]),
    telemetry_before_start_work |-> Fixture(<<[Event(1) EXCEPT !.captured = -1]>>,
        Rejection("captured_before_work_start")),
    telemetry_after_end_work |-> Fixture(<<CapturedNow(1, WorkEnd + 1)>>, Rejection("captured_after_work_end")),
    phone_and_physical_device_together |-> Fixture(<<Event(1), Event(2)>>,
        [eligible |-> 2, relation |-> "paired_match"]),
    phone_device_mismatch |-> Fixture(<<Event(1), CapturedNow(2, 165000), CapturedNow(3, 315000)>>,
        [eligible |-> 3, relation |-> "sustained_mismatch"]),
    approved_sensor_observations |-> Fixture(<<[Event(1) EXCEPT !.sensors = TRUE]>>, [eligible |-> 1]),
    unsupported_sensor_metric |-> Fixture(<<>>, [eligible |-> 0, rejectedSensor |-> TRUE])]

Scenarios == MovementScenarios @@ ArrivalScenarios @@ WorkScenarios
UnsupportedObservation == Observation("vendor_free_form", Txt("arbitrary", 9), "vendor_unit", Stamp(StartAt))

(* What M22 makes of a scenario: how fresh it is, the rule it opens ("" for *)
(* none), whether it clears missing conditions.                            *)
Opens(rule, freshness) == [freshness |-> freshness, opens |-> rule, clears |-> FALSE, forM23 |-> FALSE]
Quiet == Opens("", "live")
AlertMeanings == [
    long_stop |-> Opens("long_stop", "live"),
    missing_heartbeat |-> Opens("heartbeat_missing", "not_applicable"),
    changed_content_duplicate |-> Opens("identity_conflict", "not_applicable"),
    sequence_gap |-> Opens("sequence_gap", "live"),
    out_of_order_event |-> Opens("out_of_order", "live"),
    delayed_offline_backfill |-> Opens("", "delayed_historical"),
    expired_delayed_backfill |-> Opens("delayed_backfill_expired", "delayed_historical"),
    invalid_coordinate |-> Opens("invalid_coordinate", "not_applicable"),
    impossible_speed |-> Opens("impossible_speed", "live"),
    low_battery |-> Opens("battery_low", "live"),
    poor_gps |-> Opens("gps_fix_missing", "live"),
    poor_gsm |-> Opens("gsm_signal_weak", "live"),
    offline_reconnect |-> [Quiet EXCEPT !.clears = TRUE],
    telemetry_before_start_work |-> Opens("off_work_location_attempt", "not_applicable"),
    telemetry_after_end_work |-> Opens("captured_after_end_work", "not_applicable"),
    phone_device_mismatch |-> [Quiet EXCEPT !.forM23 = TRUE],
    unsupported_sensor_metric |-> Opens("unsupported_sensor_observation", "not_applicable")]
RuleMeaning(s) == IF s \in DOMAIN AlertMeanings THEN AlertMeanings[s] ELSE Quiet

(* What M23 makes of it: only a sustained mismatch is an alert. *)
Matched == {"healthy_movement", "long_stop", "duplicate_retry", "delayed_offline_backfill",
            "offline_reconnect", "phone_and_physical_device_together", "approved_sensor_observations"}
Comparison(s) == IF s \in Matched THEN "paired_match"
                 ELSE IF s = "phone_device_mismatch" THEN "sustained_mismatch"
                 ELSE "comparison_unavailable"

(* contentIdentity.ts: what a repetition must not change. *)
ContentWithoutHealth == EventFields \ {"canonicalEventId", "idempotencyIdentity", "receivedAt", "normalizedAt", "health"}
ContentFields == EventFields \ {"canonicalEventId", "idempotencyIdentity", "receivedAt", "normalizedAt"}
ContentIdentity(event) == [f \in ContentFields |-> Get(event, f)]

Classify(knownId, incomingId, knownContent, incomingContent) ==
    IF knownId # incomingId THEN "not_duplicate"
    ELSE IF knownContent = incomingContent THEN "duplicate_identical_content"
    ELSE "duplicate_conflict"

(* The event time decision of one event of a scenario: all evidence is good. *)
Decision(e) ==
    Window!Decide([captured |-> StartAt + e.captured, received |-> StartAt + e.received,
                   started |-> StartAt, ended |-> TRUE, end |-> StartAt + WorkEnd,
                   identified |-> TRUE, evidence |-> [k \in Window!EvidenceKinds |-> "valid"]], Policy)

Events(s) == Scenarios[s].events
Valid(e) == EventIssues(CanonicalEvent(e)) = {}

ScenarioInit ==
    /\ scenario \in DOMAIN Scenarios
    /\ deliveries = <<>> /\ stored = {} /\ eligible = 0

\* An event is answered by what is known under its identity; only a valid
\* event that is new is stored, and counts when its time is accepted.
Answer(e) ==
    LET event == CanonicalEvent(e)
        id == Get(event, "idempotencyIdentity")
        known == {x \in stored : x.id = id}
    IN  IF ~Valid(e) THEN "invalid"
        ELSE IF known = {} THEN "new"
        ELSE LET x == CHOOSE x \in known : TRUE
             IN  Classify(x.id, id, x.content, ContentIdentity(event))

Deliver(i) ==
    LET e == Events(scenario)[i]
        event == CanonicalEvent(e)
        new == Answer(e) = "new"
    IN  /\ Len(deliveries) < MaxDeliveries
        /\ deliveries' = Append(deliveries, [event |-> i, answer |-> Answer(e)])
        /\ stored' = IF new THEN stored \cup {[id |-> Get(event, "idempotencyIdentity"),
                                               content |-> ContentIdentity(event)]} ELSE stored
        /\ eligible' = IF new /\ Decision(e).disposition # "rejected" THEN eligible + 1 ELSE eligible
        /\ UNCHANGED scenario

ScenarioNext == \E i \in 1..Len(Events(scenario)) : Deliver(i)

(***************************************************************************)
(* Properties.                                                             *)
(***************************************************************************)
Delivered == {deliveries[i].event : i \in DOMAIN deliveries}
Answers == {deliveries[i].answer : i \in DOMAIN deliveries}

\* Whatever the order and however often its events are delivered, a scenario
\* ends with the points, the validation and the duplicates it declares, and
\* the time of each event is decided as it declares.
ScenariosMeetExpectations ==
    LET expected == Scenarios[scenario]
    IN  /\ eligible <= expected.eligible
        /\ Delivered = 1..Len(expected.events) => eligible = expected.eligible
        /\ deliveries # <<>> => (expected.valid <=> "invalid" \notin Answers)
        /\ "duplicate_conflict" \in Answers => expected.duplicates = "duplicate_conflict"
        /\ (expected.duplicates # "not_applicable" /\ Delivered = 1..Len(expected.events))
              => expected.duplicates \in Answers
        /\ \A i \in 1..Len(expected.events) :
               expected.window # "not_applicable" =>
                   LET decision == Decision(expected.events[i])
                   IN  decision.disposition = expected.window /\ decision.reasonCode = expected.reason
        /\ expected.rejectedSensor => ObservationIssues(UnsupportedObservation) # {}

\* M22 and M23 read a scenario as its evidence allows: live evidence is not
\* called historical nor the reverse, delayed evidence clears nothing, and
\* what M22 leaves to the comparison is what M23 alerts on.
MeaningsAgree ==
    LET expected == Scenarios[scenario]
        meaning == RuleMeaning(scenario)
        delayed == \E i \in 1..Len(expected.events) :
                      Decision(expected.events[i]).disposition = "accepted_delayed"
    IN  /\ expected.window = "accepted_live" => meaning.freshness = "live"
        /\ expected.window = "accepted_delayed" => meaning.freshness = "delayed_historical"
        /\ ~expected.valid \/ (expected.eligible = 0 /\ ~delayed) => meaning.freshness # "live"
        /\ meaning.freshness = "delayed_historical" => ~meaning.clears
        /\ meaning.forM23 <=> Comparison(scenario) = "sustained_mismatch"
        /\ expected.relation # "not_applicable" => Comparison(scenario) = expected.relation
=============================================================================
