----------------------------- MODULE MCTelemetry -----------------------------
(***************************************************************************)
(* The telemetry modules for TLC.  A behaviour is of one part: the          *)
(* ingestion, one vendor event in the adapter, one scenario, the simulator  *)
(* or the alerts; the others stay where they begin.                        *)
(***************************************************************************)
EXTENDS TelemetryIngest, AlertEpisodes, TLC

CONSTANTS MaxEvents, MaxObservations, MaxDeliveries, Interval, NetworkDelay, Limit, MaxNow
ClockOffset == -1

VARIABLES part, sample, scenario, deliveries, stored, eligible, sim, flushed

\* The adapter with what is proved of it.
Adapter == INSTANCE SharedTelemetryProofs
Scenario == INSTANCE TelemetryScenarios
Simulator == INSTANCE TelemetrySimulator

(* The instance of the ingestion. *)
Event(id, content, sequence, captured, location, healthy, fix, normal) ==
    [id |-> id, content |-> content, epoch |-> "s", sequence |-> sequence, captured |-> captured,
     location |-> location, health |-> healthy, fix |-> fix, normal |-> normal]
First == Event("a", "x", 1, 1, TRUE, FALSE, "absent", TRUE)
SamePlace == Event("b", "y", 2, 2, TRUE, FALSE, "absent", TRUE)
WithoutFix == Event("c", "z", 3, 2, TRUE, TRUE, "none", TRUE)
NotNormal == Event("d", "z", NoSequence, 2, FALSE, TRUE, "absent", FALSE)
Between == Event("e", "w", 2, 2, TRUE, FALSE, "absent", TRUE)
MCCatalog == {First, SamePlace, WithoutFix, NotNormal, Between}
Batch(presented, body, events) == [presented |-> presented, body |-> body, events |-> events]
MCBatches == {Batch("right", "json", <<WithoutFix, First>>), Batch("right", "json", <<Between, SamePlace>>),
              Batch("right", "json", <<NotNormal>>), Batch("wrong", "json", <<First>>)}
Symmetry == Permutations(Request)

(* Vendor events: one that is good, and at each field values around every *)
(* limit, so that each check has an event on either side.                 *)
Txt(name, length) == Adapter!Txt(name, length)
Num(n) == Adapter!Num(n)
Odds == {Adapter!Odd(Txt(kind, 5), {kind}) : kind \in {"outer", "control", "nul", "surrogate"}}
Seconds == [Adapter!Stamp(5) EXCEPT !.millis = FALSE]
Position(changes) == Adapter!Rec(changes @@ [latitude |-> Num(10), longitude |-> Num(20)])
Health(changes) == Adapter!Rec(changes @@ [heartbeat |-> Adapter!Bool(TRUE)])
Sensor(metric, value, unit) == Adapter!Rec([metric |-> Txt(metric, 12), value |-> value, unit |-> Txt(unit, 12)])
Fuel(n) == Sensor("fuel_level", Num(n), "percentage")
Sensors(observations) == [observations |-> Adapter!List(observations)]

Good == [capturedAt |-> Adapter!Stamp(5), sourceEventId |-> Txt("s", 8), position |-> Position(<<>>),
         health |-> Health(<<>>)]

Times == {[capturedAt |-> v] : v \in {Adapter!Stamp(4), Adapter!Stamp(Adapter!YearOne - 1), Seconds, Txt("soon", 10), Txt("long", 41), Num(5), Adapter!Absent}}
Ids == {[sourceEventId |-> v] : v \in {Txt("s2", 128), Txt("s2", 129), Txt("s2", 0), Num(1), Adapter!Absent} \cup Odds}
       \cup {[sourceEventId |-> Adapter!Absent, clientEventId |-> v] : v \in {Txt("s", 8), Txt("c", 128), Txt("c", 129)}}
       \cup {[sourceEventId |-> v, clientEventId |-> Txt("c", 8)] : v \in Odds}
Streams == {[streamEpoch |-> e, sequence |-> n] :
               e \in {Txt("e", 128), Txt("e", 129), Adapter!Odd(Txt("e2", 8), {"surrogate"}), Adapter!Absent},
               n \in {Num(0), Num(-1), Adapter!Fraction(1), Adapter!Absent}}
Around(range) == {Num(range[1] - 1), Num(range[1]), Num(range[2]), Num(range[2] + 1), Txt("1", 1), Adapter!Absent,
                  Adapter!Fraction(range[1] + 1)}
Placed(f) == {[position |-> Position(f :> v)] : v \in Around(Adapter!PositionRanges[f])}
Positions == (UNION {Placed(f) : f \in DOMAIN Adapter!PositionRanges})
             \cup {[position |-> v] : v \in {Position([unknown |-> Num(1)]), Num(1), Adapter!Absent}}
Healths == {[health |-> Health(c)] : c \in
               {[batteryPercent |-> v] : v \in Around(<<0, 100>>)} \cup {[gsmSignalDbm |-> v] : v \in Around(<<-200, 0>>)}
               \cup {[firmwareVersion |-> v] : v \in Odds \cup {Txt("f", n) : n \in {0, 64, 65}}}
               \cup {[gpsFix |-> Txt(f, 10)] : f \in {"none", "two_dimensional", "unknown"}}
               \cup {[heartbeat |-> Adapter!Absent], [externalPower |-> Num(1)], [unknown |-> Num(1)]}}
           \cup {[health |-> Adapter!Absent]}
Measurements(m) ==
    CASE m = "door_state" -> {Txt("open", 4), Txt("ajar", 4)}
      [] m = "ignition" -> {Adapter!Bool(TRUE), Num(1)}
      [] OTHER -> Around(Adapter!Measured[m])
Alone(m) == {<<Sensor(m, v, Adapter!Units[m])>> : v \in Measurements(m)}
SensorChanges == {Sensors(o) : o \in
                (UNION {Alone(m) : m \in DOMAIN Adapter!Measured \cup {"door_state", "ignition"}})
                \cup {<<>>, <<Fuel(1), Fuel(2)>>, <<Sensor("fuel_level", Num(1), "celsius")>>,
                      <<Sensor("mood", Num(1), "percentage")>>,
                      [i \in 1..MaxObservations |-> Fuel(1)], [i \in 1..(MaxObservations + 1) |-> Fuel(1)]}}
Unnamed == [sourceEventId |-> Adapter!Absent]

Vendor(changes) ==
    LET all == changes @@ Good
    IN  Adapter!Rec([f \in {g \in DOMAIN all : all[g] # Adapter!Absent} |-> all[f]])
Varied == Times \cup Ids \cup Streams \cup Positions \cup Healths \cup SensorChanges
VendorEvents ==
    {Vendor(c) : c \in Varied} \cup {Vendor(c @@ Unnamed) : c \in Streams \cup Positions \cup SensorChanges}
    \cup {Vendor([unknown |-> Num(1)])}

Dispositions == {"accepted_live", "accepted_delayed", "health_only", "duplicate", "duplicate_conflict", "rejected"}
Device == Txt("device", 10)
Versioned(fields) == Adapter!Rec(fields @@ [contractVersion |-> Txt("1", 1)])
Receipt1 == Versioned([correlationId |-> Txt("c", 36), hostReceivedAt |-> Adapter!Stamp(5)])

(* One record of every contract, with all its fields. *)
Full == Vendor([streamEpoch |-> Txt("e", 8), sequence |-> Num(1)] @@ Sensors(<<Fuel(1)>>)
               @@ [position |-> Position([f \in DOMAIN Adapter!PositionRanges |-> Num(1)]),
                   health |-> Health([batteryPercent |-> Num(1), externalPower |-> Adapter!Bool(TRUE),
                                      firmwareVersion |-> Txt("f", 4), gpsFix |-> Txt("none", 4),
                                      gsmSignalDbm |-> Num(-1)])])
Context(released, started, over, end) ==
    Adapter!Rec([f \in Adapter!ContextNames |-> Txt(f, 36)]
        @@ [driverAuthority |-> Txt("ad_work_assignment", 18), releasedAt |-> Adapter!Stamp(released),
            actualWorkStartedAt |-> Adapter!Stamp(started), physicalTrackingSessionId |-> Txt("s", 36)]
        @@ (IF over THEN [actualWorkEndedAt |-> Adapter!Stamp(end)] ELSE <<>>))
Policy1 == Versioned([f \in DOMAIN Adapter!HostPromises |-> Txt(Adapter!HostPromises[f], 32)]
    @@ [hostKind |-> Txt("serverless_http", 15), transport |-> Txt("http", 4),
        maximumMessageBytes |-> Num(256), maximumEventsPerMessage |-> Num(100)])
Records == [
    event |-> Adapter!Normalize(Full, Device, 6).event,
    observation |-> Adapter!Observations(Full, Device)[1],
    receipt |-> Receipt1,
    policy |-> Policy1,
    message |-> Versioned([receipt |-> Receipt1, transport |-> Txt("http", 4), contentLengthBytes |-> Num(256)]),
    acknowledgement |-> Adapter!Acknowledge(<<"rejected", "duplicate">>, Receipt1),
    request |-> Versioned([authenticatedDeviceExternalId |-> Device, capturedAt |-> Adapter!Stamp(5)]),
    resolution |-> Versioned([outcome |-> Txt("resolved", 8), reasonCode |-> Txt("unique_event_time_match", 23),
                              context |-> Context(1, 2, TRUE, 3)]),
    no_match |-> Versioned([outcome |-> Txt("no_match", 8), reasonCode |-> Txt("work_not_started", 16)])]
IssuesOf(kind, r) ==
    CASE kind = "event" -> Adapter!EventIssues(r)
      [] kind = "observation" -> Adapter!ObservationIssues(r)
      [] kind = "receipt" -> Adapter!ReceiptIssues(r)
      [] kind = "policy" -> Adapter!HostPolicyIssues(r)
      [] kind = "message" -> Adapter!IngressMessageIssues(r, Policy1)
      [] kind = "acknowledgement" -> Adapter!AcknowledgementIssues(r)
      [] kind = "request" -> Adapter!ResolutionRequestIssues(r)
      [] OTHER -> Adapter!ResolutionResultIssues(r)

(* Inputs of the event time decision around every boundary, with at most one *)
(* kind of evidence that is not valid.                                      *)
AllValid == [k \in Capture!EvidenceKinds |-> "valid"]
Evidences == {AllValid} \cup {[AllValid EXCEPT ![k] = s] : k \in Capture!EvidenceKinds, s \in {"invalid", "ambiguous"}}
Inputs == [captured : {NoTime, 1, 2, 4}, received : {NoTime, 1, 3, 4}, started : {NoTime, 2}, ended : BOOLEAN,
           end : {NoTime, 1, 2}, identified : BOOLEAN, evidence : Evidences]
Decided(input) == Capture!Decide(input, [live |-> 1, backfill |-> 0, skew |-> 1])

NoSample == [kind |-> "none"]
Samples ==
    {[kind |-> "event", event |-> e] : e \in VendorEvents}
    \cup {[kind |-> "results", results |-> r] : r \in UNION {[1..n -> Dispositions] : n \in 1..3}}
    \cup {[kind |-> "record", of |-> k] : k \in DOMAIN Records}
    \cup {[kind |-> "decision", input |-> i] : i \in Inputs}

(* A device that is not at work reports its battery; one at work reports its *)
(* position, with gaps in its sequence, in time or late.                     *)
Battery(n, lateness) ==
    [position |-> FALSE, heartbeat |-> TRUE, readings |-> [battery_low |-> n], gap |-> FALSE, lateness |-> lateness]
AtPlace(readings, lateness) ==
    [position |-> TRUE, heartbeat |-> FALSE, readings |-> readings, gap |-> TRUE, lateness |-> lateness]
OfHealth == {Battery(60, 0), Battery(60, 1), Battery(23, 0), Battery(5, 0)}
OfWork == {AtPlace([battery_low |-> 60], 0), AtPlace(<<>>, 1)}
MCReceipts == OfHealth \cup OfWork
Reviewed == {<<"battery_low", "live">>, <<"location_update_missing", "sweep">>}

(* The alerts of a device.  Where it reports its health, jobs fail and       *)
(* receipts commit late, too; where it is at work, it is from the first       *)
(* minute.                                                                  *)
AlertsNext ==
    \/ MinutePasses \/ HealthSweep
    \/ sample.kind = "off" /\ \E r \in OfHealth, at \in 0..LastMinute : ReceiptCommits(r, at)
    \/ sample.kind = "at work" /\ \E r \in OfWork : ReceiptCommits(r, clock)
    \/ \E i \in DOMAIN jobs : JobCompletes(i) \/ (sample.kind = "off" /\ JobFails(i))
    \/ sample.kind = "at work" /\ ((clock = 0 /\ WorkStarts) \/ WorkEnds)
    \/ \E key \in Reviewed : \E i \in DOMAIN episodes[key], to \in Decisions : TransitionAlert(key, i, to)

MCInit ==
    /\ Init /\ Simulator!SimulatorInit /\ deliveries = <<>> /\ stored = {} /\ eligible = 0 /\ AlertInit
    /\ \/ part = "alerts" /\ sample \in {[kind |-> "off"], [kind |-> "at work"]} /\ scenario = "none"
       \/ part \in {"ingest", "simulator"} /\ sample = NoSample /\ scenario = "none"
       \/ part = "adapter" /\ sample \in Samples /\ scenario = "none"
       \/ part = "scenario" /\ sample = NoSample /\ Scenario!ScenarioInit

MCNext ==
    \/ /\ part = "ingest" /\ Next
       /\ UNCHANGED <<part, sample, scenario, deliveries, stored, eligible, sim, flushed, alertVars>>
    \/ /\ part = "scenario" /\ Scenario!ScenarioNext
       /\ UNCHANGED <<part, sample, vars, sim, flushed, alertVars>>
    \/ /\ part = "simulator" /\ Simulator!SimulatorNext
       /\ UNCHANGED <<part, sample, vars, scenario, deliveries, stored, eligible, alertVars>>
    \/ /\ part = "alerts" /\ AlertsNext
       /\ UNCHANGED <<part, sample, vars, scenario, deliveries, stored, eligible, sim, flushed>>

MCSpec == MCInit /\ [][MCNext]_<<part, sample, vars, scenario, deliveries, stored, eligible, sim, flushed, alertVars>>

(***************************************************************************)
(* The properties of the other parts.                                      *)
(***************************************************************************)

\* An event that passes the adapter is stored, unless PostgreSQL has no value for
\* its instant or for one of its texts (then every attempt is answered 503); a
\* retry of it is recognised whatever its time, and different events are told
\* apart.
AdapterEventsAreStorable ==
    sample.kind = "event" =>
        /\ Adapter!Storable(sample.event, Device, 6)
        /\ Adapter!RetryIsTheSame(sample.event, Device, 6, 9)
        /\ \A change \in SensorChanges \cup Streams :
               Adapter!IdentitiesTellApart(sample.event, Vendor(change @@ Unnamed), Device)

\* Every validator looks at every field of its record and at no other; what
\* the host acknowledges and what the event time decides keep their
\* contracts, and a context that the contract lets through never makes the
\* decision refuse the time for it.
ContractsAreKept ==
    /\ sample.kind = "record" =>
           LET Issues(r) == IssuesOf(sample.of, r)
           IN  Adapter!EveryFieldCounts(Records[sample.of], Issues)
    /\ sample.kind = "results" => Adapter!AcknowledgementIsValid(sample.results, Receipt1)
    /\ sample.kind = "decision" =>
           LET i == sample.input
           IN  /\ Adapter!DecisionIsAResult(Decided(i))
               /\ /\ Adapter!ContextIssues(Context(0, i.started, i.ended, i.end)) = {}
                  /\ i.captured # NoTime /\ i.received # NoTime /\ i.identified /\ i.evidence = AllValid
                  => Decided(i).reasonCode # "captured_time_invalid"

\* Scenarios end as they declare in every order of delivery, and M22 and M23
\* read them as their evidence allows; the stream the simulator makes of one
\* is whole, however its time is cut; and the reference vendor's adapter passes
\* the scenarios of its certification.
ScenariosMeetExpectations ==
    /\ part = "scenario" => Scenario!ScenariosMeetExpectations /\ Scenario!MeaningsAgree
    /\ part = "simulator" => Simulator!StreamIsWhole /\ Simulator!TimeCutsDoNotMatter
    /\ part = "scenario" /\ deliveries = <<>> => Adapter!runM24fAdapterCertificationV1 = "passed"
=============================================================================
