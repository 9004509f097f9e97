------------------------- MODULE SharedTelemetryProofs -------------------------
(***************************************************************************)
(* The shared telemetry code and the reference vendor.  Whatever JSON a     *)
(* device or the vendor sends, an event that is let through is stored if    *)
(* and only if PostgreSQL has values for its texts and its instant, a retry *)
(* is the same event, and two events that say different things are told     *)
(* apart; only a signed request of the vendor is taken.  What the host      *)
(* acknowledges and what the event time decides keep their contracts.  The  *)
(* stream of the simulator is whole, however its time is cut, for any       *)
(* interval, delay and limit.                                               *)
(***************************************************************************)
EXTENDS VendorWebhook, TelemetrySimulator, FiniteSetTheorems, WellFoundedInduction, TLAPS

Window == INSTANCE CaptureWindow

(***************************************************************************)
(* Values of JSON.                                                         *)
(***************************************************************************)
IsText(v) == v.type = "text" /\ v.length \in Nat /\ v.at \in Int
IsNumber(v) == v.type = "number" /\ v.num \in Int
IsRecord(v) == v = Rec(v.fields) /\ v.fields = [f \in DOMAIN v.fields |-> v.fields[f]]
IsList(v) == v = List(v.items) /\ \E S : v.items \in Seq(S)

\* What a value may be, and what is in it.
Shape(v) == v = Absent \/ IsText(v) \/ IsNumber(v) \/ v.type = "boolean" \/ IsRecord(v) \/ IsList(v)
Inside(v) == IF v.type = "record" THEN {v.fields[f] : f \in DOMAIN v.fields}
             ELSE IF v.type = "list" THEN {v.items[i] : i \in DOMAIN v.items} ELSE {}

\* A value of JSON, down to the fields of an observation of an event.
Json(e) == \A a \in Inside(e) : /\ Shape(a)
                                /\ \A b \in Inside(a) : Shape(b) /\ \A c \in Inside(b) : Shape(c)

LEMMA ShapeFields ==
    ASSUME NEW v, Shape(v)
    PROVE  /\ v.type = "text" => v.length \in Nat /\ v.at \in Int
           /\ v.type = "number" => v.num \in Int
           /\ v.type = "list" => Len(v.items) \in Nat /\ DOMAIN v.items = 1..Len(v.items)
<1>1. v = Absent => v.type = "absent"
  BY DEF Absent
<1>2. IsRecord(v) => v.type = "record"
  <2>1. \A f : Rec(f).type = "record"
    BY DEF Rec
  <2> QED
    BY <2>1 DEF IsRecord
<1>3. IsList(v) => v.type = "list" /\ Len(v.items) \in Nat /\ DOMAIN v.items = 1..Len(v.items)
  <2> SUFFICES ASSUME IsList(v) PROVE v.type = "list" /\ Len(v.items) \in Nat /\ DOMAIN v.items = 1..Len(v.items)
    OBVIOUS
  <2>1. \A s : List(s).type = "list"
    BY DEF List
  <2>2. v.type = "list"
    BY <2>1 DEF IsList
  <2>3. PICK S : v.items \in Seq(S)
    BY DEF IsList
  <2> QED
    BY <2>2, <2>3
<1> QED
  BY <1>1, <1>2, <1>3 DEF Shape, IsText, IsNumber

\* What a record has in a field is inside it.
LEMMA GetIsInside ==
    ASSUME NEW r, NEW f, r.type = "record"
    PROVE  Get(r, f) = Absent \/ Get(r, f) \in Inside(r)
BY DEF Get, Inside

LEMMA GetOfRec ==
    ASSUME NEW fields, NEW f
    PROVE  /\ f \in DOMAIN fields => Get(Rec(fields), f) = fields[f]
           /\ f \notin DOMAIN fields => Get(Rec(fields), f) = Absent
           /\ Rec(fields).type = "record" /\ Rec(fields).fields = fields
BY DEF Get, Rec

LEMMA AbsentIsAbsent == Absent.type = "absent"
  BY DEF Absent

(***************************************************************************)
(* What it means that a validator finds no issue.                          *)
(***************************************************************************)
LEMMA NoIssue ==
    ASSUME NEW wrong, NEW path, NEW code, Issue(wrong, path, code) = {}
    PROVE  ~wrong
BY DEF Issue

LEMMA NothingBelow ==
    ASSUME NEW path, NEW issues, Below(path, issues) = {}
    PROVE  issues = {}
BY DEF Below

LEMMA InRange ==
    ASSUME NEW v, NEW path, NEW least \in Int, NEW most \in Int, v.type = "number" => v.num \in Int,
           RangeIssues(v, path, <<least, most>>) = {}
    PROVE  v.type = "number" /\ v.num \in least..most
<1>1. v.type = "number"
  BY DEF RangeIssues
<1>2. Issue(v.num < least \/ v.num > most, path, "out_of_range") = {}
  BY <1>1 DEF RangeIssues
<1>3. ~(v.num < least \/ v.num > most)
  BY <1>2, NoIssue
<1> QED
  BY <1>1, <1>3

LEMMA InText ==
    ASSUME NEW v, NEW path, NEW maximum \in Nat, v.type = "text" => v.length \in Nat,
           TextIssues(v, path, maximum) = {}
    PROVE  v.type = "text" /\ v.length \in 1..maximum
<1>1. v.type = "text" /\ v.length # 0
  BY DEF TextIssues
<1>2. Issue(v.length > maximum, path, "too_long") = {}
  BY <1>1 DEF TextIssues
<1>3. ~(v.length > maximum)
  BY <1>2, NoIssue
<1> QED
  BY <1>1, <1>3

LEMMA CleanPosition ==
    ASSUME NEW p, \A f : Get(p, f).type = "number" => Get(p, f).num \in Int, PositionIssues(p) = {}
    PROVE  /\ p.type = "record"
           /\ Get(p, "latitude").type = "number" /\ Get(p, "longitude").type = "number"
           /\ \A f \in DOMAIN StoreRanges : Within(Get(p, f), StoreRanges[f])
<1>1. p.type = "record"
  BY DEF PositionIssues
<1> DEFINE Ranges(f) == RangeIssues(Get(p, f), <<f>>, PositionRanges[f])
<1>2. \A f \in DOMAIN PositionRanges :
          (IF f \in {"latitude", "longitude"} THEN Ranges(f) ELSE Optional(Get(p, f), Ranges(f))) = {}
  <2>1. UNION {IF f \in {"latitude", "longitude"} THEN Ranges(f) ELSE Optional(Get(p, f), Ranges(f)) :
                   f \in DOMAIN PositionRanges} = {}
    BY <1>1, Zenon DEF PositionIssues
  <2> HIDE DEF Ranges
  <2> QED
    BY <2>1
<1>3. \A f \in DOMAIN PositionRanges : (Get(p, f).type = "absent" /\ f \notin {"latitude", "longitude"}) \/ Ranges(f) = {}
  BY <1>2 DEF Optional
<1>4. DOMAIN PositionRanges = {"latitude", "longitude", "altitudeMeters", "accuracyMeters", "speedMetersPerSecond",
                               "headingDegrees", "satellites"}
  BY DEF PositionRanges
<1>5. ASSUME NEW f \in DOMAIN PositionRanges, NEW least \in Int, NEW most \in Int,
             PositionRanges[f] = <<least, most>>, StoreRanges[f] = <<least, most>>
      PROVE  /\ Within(Get(p, f), StoreRanges[f])
             /\ f \in {"latitude", "longitude"} => Get(p, f).type = "number"
  <2>1. CASE Ranges(f) = {}
    <3>1. RangeIssues(Get(p, f), <<f>>, <<least, most>>) = {}
      BY <1>5, <2>1
    <3>2. Get(p, f).type = "number" /\ Get(p, f).num \in least..most
      BY <3>1, InRange
    <3> QED
      BY <1>5, <3>2 DEF Within
  <2>2. CASE Get(p, f).type = "absent" /\ f \notin {"latitude", "longitude"}
    BY <2>2 DEF Within
  <2> QED
    BY <1>3, <2>1, <2>2
<1> HIDE DEF Ranges
<1>6. /\ PositionRanges["latitude"] = <<-90, 90>> /\ StoreRanges["latitude"] = <<-90, 90>>
      /\ PositionRanges["longitude"] = <<-180, 180>> /\ StoreRanges["longitude"] = <<-180, 180>>
      /\ PositionRanges["altitudeMeters"] = <<-1000, 20000>> /\ StoreRanges["altitudeMeters"] = <<-1000, 20000>>
      /\ PositionRanges["accuracyMeters"] = <<0, 100000>> /\ StoreRanges["accuracyMeters"] = <<0, 100000>>
      /\ PositionRanges["speedMetersPerSecond"] = <<0, 200>> /\ StoreRanges["speedMetersPerSecond"] = <<0, 200>>
      /\ PositionRanges["headingDegrees"] = <<0, 360>> /\ StoreRanges["headingDegrees"] = <<0, 360>>
      /\ PositionRanges["satellites"] = <<0, 256>> /\ StoreRanges["satellites"] = <<0, 256>>
      /\ DOMAIN StoreRanges = DOMAIN PositionRanges
  BY DEF PositionRanges, StoreRanges
<1>7. Within(Get(p, "latitude"), StoreRanges["latitude"]) /\ Get(p, "latitude").type = "number"
  BY <1>4, <1>5, <1>6
<1>8. Within(Get(p, "longitude"), StoreRanges["longitude"]) /\ Get(p, "longitude").type = "number"
  BY <1>4, <1>5, <1>6
<1>9. Within(Get(p, "altitudeMeters"), StoreRanges["altitudeMeters"])
  BY <1>4, <1>5, <1>6
<1>10. Within(Get(p, "accuracyMeters"), StoreRanges["accuracyMeters"])
  BY <1>4, <1>5, <1>6
<1>11. Within(Get(p, "speedMetersPerSecond"), StoreRanges["speedMetersPerSecond"])
  BY <1>4, <1>5, <1>6
<1>12. Within(Get(p, "headingDegrees"), StoreRanges["headingDegrees"])
  BY <1>4, <1>5, <1>6
<1>13. Within(Get(p, "satellites"), StoreRanges["satellites"])
  BY <1>4, <1>5, <1>6
<1> QED
  BY <1>1, <1>4, <1>6, <1>7, <1>8, <1>9, <1>10, <1>11, <1>12, <1>13

LEMMA CleanHealth ==
    ASSUME NEW h, \A f : Get(h, f).type = "number" => Get(h, f).num \in Int,
           \A f : Get(h, f).type = "text" => Get(h, f).length \in Nat, HealthIssues(h) = {}
    PROVE  /\ h.type = "record"
           /\ Within(Get(h, "batteryPercent"), <<0, 100>>) /\ Within(Get(h, "gsmSignalDbm"), <<-200, 0>>)
           /\ TextWithin(Get(h, "firmwareVersion"), 0, 64)
           /\ Get(h, "gpsFix").type = "absent" \/ OneOf(Get(h, "gpsFix"), GpsFixes)
<1>1. h.type = "record"
  BY DEF HealthIssues
<1>2. /\ Optional(Get(h, "batteryPercent"), RangeIssues(Get(h, "batteryPercent"), <<"batteryPercent">>, <<0, 100>>)) = {}
      /\ Optional(Get(h, "gsmSignalDbm"), RangeIssues(Get(h, "gsmSignalDbm"), <<"gsmSignalDbm">>, <<-200, 0>>)) = {}
      /\ Optional(Get(h, "firmwareVersion"), TextIssues(Get(h, "firmwareVersion"), <<"firmwareVersion">>, 64)) = {}
      /\ Optional(Get(h, "gpsFix"), Issue(~OneOf(Get(h, "gpsFix"), GpsFixes), <<"gpsFix">>, "unsupported")) = {}
  BY <1>1, ZenonT(60) DEF HealthIssues
<1>3. Within(Get(h, "batteryPercent"), <<0, 100>>)
  BY <1>2, InRange DEF Optional, Within
<1>4. Within(Get(h, "gsmSignalDbm"), <<-200, 0>>)
  BY <1>2, InRange DEF Optional, Within
<1>5. TextWithin(Get(h, "firmwareVersion"), 0, 64)
  BY <1>2, InText DEF Optional, TextWithin
<1>6. Get(h, "gpsFix").type = "absent" \/ OneOf(Get(h, "gpsFix"), GpsFixes)
  BY <1>2, NoIssue DEF Optional
<1> QED
  BY <1>1, <1>3, <1>4, <1>5, <1>6

\* An observation that has no issue is one the tables take.
LEMMA CleanObservation ==
    ASSUME NEW o, NEW p, p.captured_at = Get(o, "capturedAt").at, o.type = "record",
           OneOf(Get(o, "metric"), DOMAIN Units), ObservationIssues(o) = {},
           Get(o, "value").type = "number" => Get(o, "value").num \in Int
    PROVE  StoresObservation(o, p)
<1> DEFINE metric == Get(o, "metric")
           unit == Get(o, "unit")
           value == Get(o, "value")
           name == metric.name
<1>1. MetricIssues(name, unit, value) = {}
  BY Zenon DEF ObservationIssues
<1>2. /\ OneOf(unit, {Units[name]})
      /\ IF name \in DOMAIN Measured THEN value.type = "number"
         ELSE IF name = "door_state" THEN OneOf(value, DoorStates) ELSE value.type = "boolean"
  <2>1. /\ Issue(~OneOf(unit, {Units[name]}), <<"unit">>, "unsupported") = {}
        /\ IF name \in DOMAIN Measured THEN RangeIssues(value, <<"value">>, Measured[name]) = {}
           ELSE IF name = "door_state" THEN Issue(~OneOf(value, DoorStates), <<"value">>, "unsupported") = {}
           ELSE Issue(value.type # "boolean", <<"value">>, "invalid_type") = {}
    <3> HIDE DEF name, unit, value
    <3> QED
      BY <1>1, Zenon DEF MetricIssues
  <2>2. name \in DOMAIN Measured => value.type = "number"
    <3> HIDE DEF name, unit, value
    <3> QED
      BY <2>1 DEF RangeIssues
  <2> HIDE DEF name, unit, value
  <2> QED
    BY <2>1, <2>2, NoIssue
<1>3. name \in DOMAIN Measured => RangeIssues(value, <<"value">>, Measured[name]) = {}
  BY <1>1, Zenon DEF MetricIssues
<1>4. DOMAIN Measured = {"fuel_level", "temperature", "vibration"}
  BY DEF Measured
<1>5. ASSUME name \in DOMAIN Measured, NEW least \in Int, NEW most \in Int, Measured[name] = <<least, most>>
      PROVE  value.num \in least..most
  <2>1. RangeIssues(value, <<"value">>, <<least, most>>) = {}
    BY <1>3, <1>5
  <2> HIDE DEF value
  <2> QED
    BY <2>1, InRange DEF value
<1>6. name \in DOMAIN Measured => Within(value, StoredNumbers[name])
  <2>1. CASE name = "fuel_level"
    <3>1. Measured[name] = <<0, 100>> /\ StoredNumbers[name] = <<0, 100>> /\ name \in DOMAIN Measured
      BY <1>4, <2>1 DEF Measured, StoredNumbers
    <3>2. 0 \in Int /\ 100 \in Int
      OBVIOUS
    <3>3. value.num \in 0..100
      BY <1>5, <3>1, <3>2
    <3> QED
      BY <1>2, <3>1, <3>3 DEF Within
  <2>2. CASE name = "temperature"
    <3>1. Measured[name] = <<-100, 200>> /\ StoredNumbers[name] = <<-100, 250>> /\ name \in DOMAIN Measured
      BY <1>4, <2>2 DEF Measured, StoredNumbers
    <3>2. -100 \in Int /\ 200 \in Int
      OBVIOUS
    <3>3. value.num \in -100..200
      BY <1>5, <3>1, <3>2
    <3>4. value.num \in -100..250
      BY <3>3
    <3> QED
      BY <1>2, <3>1, <3>4 DEF Within
  <2>3. CASE name = "vibration"
    <3>1. Measured[name] = <<0, 1000>> /\ StoredNumbers[name] = <<0, 1000>> /\ name \in DOMAIN Measured
      BY <1>4, <2>3 DEF Measured, StoredNumbers
    <3>2. 0 \in Int /\ 1000 \in Int
      OBVIOUS
    <3>3. value.num \in 0..1000
      BY <1>5, <3>1, <3>2
    <3> QED
      BY <1>2, <3>1, <3>3 DEF Within
  <2> QED
    BY <1>4, <2>1, <2>2, <2>3
<1> HIDE DEF metric, unit, value
<1>7. StoresObservation(o, p)
  BY <1>2, <1>6 DEF StoresObservation, metric, unit, value, name
<1> QED
  BY <1>7

\* An observation that normalises keeps what was measured and when.
LEMMA NormalObservationFields ==
    ASSUME NEW raw, NEW capturedAt, NEW device, NormalObservation(raw, capturedAt, device) # Absent
    PROVE  LET o == NormalObservation(raw, capturedAt, device)
           IN  /\ o.type = "record" /\ OneOf(Get(o, "metric"), DOMAIN Units)
               /\ Get(o, "value") = Get(raw, "value") /\ Get(o, "capturedAt") = capturedAt
<1> DEFINE o == NormalObservation(raw, capturedAt, device)
           metric == Get(raw, "metric")
           unit == Get(raw, "unit")
           value == Get(raw, "value")
           fields == [contractVersion |-> Txt("1", 1), capturedAt |-> capturedAt,
                      deviceExternalId |-> device, source |-> Txt("physical_device", 15),
                      normalizationVersion |-> NormalizationVersion, quality |-> Txt("good", 4),
                      synthetic |-> Bool(FALSE), metric |-> metric, value |-> value, unit |-> unit]
<1>1. OneOf(metric, DOMAIN Units) /\ o = Rec(fields)
  BY DEF NormalObservation
<1>2. /\ {"metric", "value", "capturedAt"} \subseteq DOMAIN fields
      /\ fields["metric"] = metric /\ fields["value"] = value /\ fields["capturedAt"] = capturedAt
  OBVIOUS
<1> HIDE DEF fields, metric, unit, value, o
<1>3. /\ Get(o, "metric") = metric /\ Get(o, "value") = value /\ Get(o, "capturedAt") = capturedAt
      /\ o.type = "record"
  BY <1>1, <1>2, GetOfRec
<1> QED
  BY <1>1, <1>3 DEF o, metric, value

(***************************************************************************)
(* The canonical event.                                                    *)
(***************************************************************************)

\* Each field of the canonical event of a vendor event.
LEMMA CanonicalFields ==
    ASSUME NEW e, NEW device, NEW receivedAt
    PROVE  LET event == Canonical(e, device, receivedAt)
               content == Content(e, device)
               provenance == Get(event, "provenance")
           IN  /\ event.type = "record"
               /\ Get(event, "idempotencyIdentity") = Digest(IdentityMaterial(e, device, content))
               /\ Get(event, "capturedAt") = Get(e, "capturedAt")
               /\ Get(event, "receivedAt") = Stamp(receivedAt) /\ Get(event, "normalizedAt") = Stamp(receivedAt)
               /\ Get(event, "quality") = Txt("valid", 5)
               /\ Get(provenance, "normalizationVersion") = NormalizationVersion
               /\ Get(provenance, "canonicalPayloadHash") = Digest(content)
               /\ Get(event, "clientEventId") = (IF Get(e, "clientEventId").type # "absent" THEN Get(e, "clientEventId") ELSE Absent)
               /\ Get(event, "position") = (IF Get(e, "position").type # "absent" THEN Get(e, "position") ELSE Absent)
               /\ Get(event, "health") = (IF Get(e, "health").type # "absent" THEN Get(e, "health") ELSE Absent)
               /\ IF Get(e, "sourceEventId").type # "absent" THEN Get(event, "vendorEventId") = Get(e, "sourceEventId")
                  ELSE Get(event, "vendorEventId") = Absent
               /\ Get(event, "stream") = IF Get(e, "streamEpoch").type = "absent" THEN Absent
                                         ELSE Rec([epoch |-> Get(e, "streamEpoch"), sequence |-> Get(e, "sequence")])
               /\ Get(event, "observations") = IF Observations(e, device) = <<>> THEN Absent
                                               ELSE List(Observations(e, device))
<1> DEFINE content == Content(e, device)
           identity == IdentityMaterial(e, device, content)
           about == [source |-> Txt("physical_device", 15),
                     normalizationVersion |-> NormalizationVersion, synthetic |-> Bool(FALSE),
                     rawPayloadHash |-> Digest(e), canonicalPayloadHash |-> Digest(content)]
           fixed == [contractVersion |-> Txt("1", 1), canonicalEventId |-> Digest(identity),
                     idempotencyIdentity |-> Digest(identity), deviceExternalId |-> device,
                     authenticatedDeviceExternalId |-> device,
                     adapter |-> Rec([id |-> AdapterId, version |-> AdapterVersion]),
                     capturedAt |-> Get(e, "capturedAt"), receivedAt |-> Stamp(receivedAt),
                     normalizedAt |-> Stamp(receivedAt),
                     observedClockOffsetMs |-> Num(receivedAt - Get(e, "capturedAt").at),
                     quality |-> Txt("valid", 5), provenance |-> Rec(about)]
           stream == IF Get(e, "streamEpoch").type = "absent" THEN Absent
                     ELSE Rec([epoch |-> Get(e, "streamEpoch"), sequence |-> Get(e, "sequence")])
           observed == IF Observations(e, device) = <<>> THEN Absent ELSE List(Observations(e, device))
           copied == [vendorEventId |-> Get(e, "sourceEventId"), clientEventId |-> Get(e, "clientEventId"),
                      position |-> Get(e, "position"), health |-> Get(e, "health"),
                      stream |-> stream, observations |-> observed]
           present == {f \in DOMAIN copied : copied[f].type # "absent"}
           all == [f \in DOMAIN fixed \cup present |-> IF f \in present THEN copied[f] ELSE fixed[f]]
           event == Canonical(e, device, receivedAt)
<1>1. event = Rec(all)
  BY Zenon DEF Canonical
<1>2. /\ DOMAIN fixed = {"contractVersion", "canonicalEventId", "idempotencyIdentity", "deviceExternalId",
                         "authenticatedDeviceExternalId", "adapter", "capturedAt", "receivedAt", "normalizedAt",
                         "observedClockOffsetMs", "quality", "provenance"}
      /\ DOMAIN copied = {"vendorEventId", "clientEventId", "position", "health", "stream", "observations"}
      /\ fixed["idempotencyIdentity"] = Digest(identity) /\ fixed["capturedAt"] = Get(e, "capturedAt")
      /\ fixed["receivedAt"] = Stamp(receivedAt) /\ fixed["normalizedAt"] = Stamp(receivedAt)
      /\ fixed["quality"] = Txt("valid", 5) /\ fixed["provenance"] = Rec(about)
      /\ copied["vendorEventId"] = Get(e, "sourceEventId") /\ copied["clientEventId"] = Get(e, "clientEventId")
      /\ copied["position"] = Get(e, "position") /\ copied["health"] = Get(e, "health")
      /\ copied["stream"] = stream /\ copied["observations"] = observed
  OBVIOUS
<1>3. /\ Get(Rec(about), "normalizationVersion") = NormalizationVersion
      /\ Get(Rec(about), "canonicalPayloadHash") = Digest(content)
  <2>1. /\ "normalizationVersion" \in DOMAIN about /\ "canonicalPayloadHash" \in DOMAIN about
        /\ about["normalizationVersion"] = NormalizationVersion /\ about["canonicalPayloadHash"] = Digest(content)
    OBVIOUS
  <2> HIDE DEF about, content
  <2> QED
    BY <2>1, GetOfRec
<1> HIDE DEF about, fixed, copied, stream, observed, content, identity, event
<1>4. \A f \in DOMAIN fixed \ DOMAIN copied : Get(event, f) = fixed[f]
  <2> SUFFICES ASSUME NEW f \in DOMAIN fixed \ DOMAIN copied PROVE Get(event, f) = fixed[f]
    OBVIOUS
  <2>1. f \in DOMAIN all /\ all[f] = fixed[f]
    OBVIOUS
  <2> HIDE DEF all
  <2> QED
    BY <1>1, <2>1, GetOfRec
<1>5. \A f \in DOMAIN copied \ DOMAIN fixed :
          Get(event, f) = IF copied[f].type # "absent" THEN copied[f] ELSE Absent
  <2> SUFFICES ASSUME NEW f \in DOMAIN copied \ DOMAIN fixed
               PROVE  Get(event, f) = IF copied[f].type # "absent" THEN copied[f] ELSE Absent
    OBVIOUS
  <2>1. /\ copied[f].type # "absent" => f \in DOMAIN all /\ all[f] = copied[f]
        /\ copied[f].type = "absent" => f \notin DOMAIN all
    OBVIOUS
  <2> HIDE DEF all
  <2> QED
    BY <1>1, <2>1, GetOfRec
<1>6. event.type = "record"
  BY <1>1, GetOfRec
<1>7. (stream.type = "absent" => stream = Absent) /\ (observed.type = "absent" => observed = Absent)
  <2>1. \A f : Rec(f).type = "record" /\ List(f).type = "list"
    BY DEF Rec, List
  <2> QED
    BY <2>1 DEF stream, observed
<1>8. Get(event, "stream") = stream /\ Get(event, "observations") = observed
  BY <1>2, <1>5, <1>7
<1>9. /\ Get(event, "idempotencyIdentity") = Digest(identity) /\ Get(event, "capturedAt") = Get(e, "capturedAt")
      /\ Get(event, "receivedAt") = Stamp(receivedAt) /\ Get(event, "normalizedAt") = Stamp(receivedAt)
      /\ Get(event, "quality") = Txt("valid", 5) /\ Get(event, "provenance") = Rec(about)
  BY <1>2, <1>4
<1>10. /\ Get(event, "clientEventId") = (IF Get(e, "clientEventId").type # "absent" THEN Get(e, "clientEventId") ELSE Absent)
       /\ Get(event, "position") = (IF Get(e, "position").type # "absent" THEN Get(e, "position") ELSE Absent)
       /\ Get(event, "health") = (IF Get(e, "health").type # "absent" THEN Get(e, "health") ELSE Absent)
       /\ IF Get(e, "sourceEventId").type # "absent" THEN Get(event, "vendorEventId") = Get(e, "sourceEventId")
          ELSE Get(event, "vendorEventId") = Absent
  BY <1>2, <1>5
<1> QED
  BY <1>3, <1>6, <1>8, <1>9, <1>10 DEF event, stream, observed, content, identity

\* Its identity and the hash of what it says.
LEMMA CanonicalIdentity ==
    ASSUME NEW e, NEW device, NEW receivedAt
    PROVE  /\ Get(Canonical(e, device, receivedAt), "idempotencyIdentity")
              = Digest(IdentityMaterial(e, device, Content(e, device)))
           /\ Get(Get(Canonical(e, device, receivedAt), "provenance"), "canonicalPayloadHash")
              = Digest(Content(e, device))
BY CanonicalFields, ZenonT(90)

\* The answer of normalize, and what held when it was "ok".
LEMMA Normalized ==
    ASSUME NEW e, NEW device, NEW receivedAt, Normalize(e, device, receivedAt).reason = "ok"
    PROVE  /\ ValidInput(e) /\ Get(e, "capturedAt").at # NoTime
           /\ \A i \in 1..Len(Observations(e, device)) : Observations(e, device)[i] # Absent
           /\ EventIssues(Canonical(e, device, receivedAt)) = {}
           /\ Normalize(e, device, receivedAt).event = Canonical(e, device, receivedAt)
<1> DEFINE Refused(reason) == [reason |-> reason, event |-> Absent]
<1>1. \A reason \in {"canonical_event_invalid", "captured_time_invalid", "sensor_observation_unsupported"} :
          Refused(reason).reason # "ok"
  OBVIOUS
<1> HIDE DEF Refused
<1>2. /\ ValidInput(e)
      /\ ~(Get(e, "capturedAt").at = NoTime \/ ~Get(e, "capturedAt").millis)
      /\ ~\E i \in 1..Len(Observations(e, device)) : Observations(e, device)[i] = Absent
      /\ ~(~Canonicalizes(e) \/ ~Canonicalizes(Content(e, device)))
      /\ EventIssues(Canonical(e, device, receivedAt)) = {}
  BY <1>1, Zenon DEF Normalize, Refused
<1>3. Normalize(e, device, receivedAt) = [reason |-> "ok", event |-> Canonical(e, device, receivedAt)]
  BY <1>2 DEF Normalize
<1> QED
  BY <1>2, <1>3

\* The parts of an event without issues.
LEMMA CleanEvent ==
    ASSUME NEW event, event.type = "record", EventIssues(event) = {}
    PROVE  /\ Get(event, "position").type # "absent" => PositionIssues(Get(event, "position")) = {}
           /\ Get(event, "health").type # "absent" => HealthIssues(Get(event, "health")) = {}
           /\ Get(event, "observations").type # "absent" => ObservationListIssues(Get(event, "observations")) = {}
<1>1. \A f \in {"position", "health", "observations"} : \A issues :
          Optional(Get(event, f), Below(<<f>>, issues)) = {} /\ Get(event, f).type # "absent" => issues = {}
  BY NothingBelow DEF Optional
<1> DEFINE V(f) == Get(event, f)
           Part(f, issues) == Optional(V(f), Below(<<f>>, issues))
           position == Part("position", PositionIssues(V("position")))
           health == Part("health", HealthIssues(V("health")))
           observations == Part("observations", ObservationListIssues(V("observations")))
           before ==
             Unexpected(event, EventFields)
             \cup Issue(~OneOf(V("contractVersion"), {"1"}), <<"contractVersion">>, "unsupported")
             \cup (UNION {TextIssues(V(f), <<f>>, 256) : f \in {"canonicalEventId", "idempotencyIdentity"}})
             \cup (UNION {Optional(V(f), TextIssues(V(f), <<f>>, 128)) : f \in {"vendorEventId", "clientEventId"}})
             \cup (UNION {TextIssues(V(f), <<f>>, 128) :
                         f \in {"deviceExternalId", "authenticatedDeviceExternalId"}})
             \cup Issue(V("deviceExternalId") # V("authenticatedDeviceExternalId"),
                        <<"authenticatedDeviceExternalId">>, "invalid_value")
             \cup Below(<<"adapter">>, AdapterIssues(V("adapter")))
             \cup Part("stream", StreamIssues(V("stream")))
             \cup (UNION {TimeIssues(V(f), <<f>>) : f \in {"capturedAt", "receivedAt", "normalizedAt"}})
             \cup Optional(V("observedClockOffsetMs"),
                    Issue(V("observedClockOffsetMs").type # "number",
                          <<"observedClockOffsetMs">>, "invalid_type"))
           quality == Issue(~OneOf(V("quality"), {"valid", "degraded", "suspect"}), <<"quality">>, "unsupported")
           provenance == Below(<<"provenance">>, ProvenanceIssues(V("provenance")))
           binding == BindingIssues(event)
<1>2. EventIssues(event) = before \cup position \cup health \cup observations \cup quality \cup provenance \cup binding
  BY Zenon DEF EventIssues
<1>3. position = {} /\ health = {} /\ observations = {}
  <2> HIDE DEF before, position, health, observations, quality, provenance, binding
  <2> QED
    BY <1>2
<1> QED
  BY <1>1, <1>3

\* The parameters of the database call.
LEMMA Parameters ==
    ASSUME NEW event
    PROVE  LET p == StoreParameters(event)
               Part(field, part) == IF Get(event, field).type = "absent" THEN Absent
                                    ELSE Get(Get(event, field), part)
           IN  /\ \A f \in DOMAIN PositionRanges : p[f] = Part("position", f)
               /\ p.batteryPercent = Part("health", "batteryPercent")
               /\ p.gsmSignalDbm = Part("health", "gsmSignalDbm")
               /\ p.firmwareVersion = Part("health", "firmwareVersion")
               /\ p.gpsFix = Part("health", "gpsFix")
               /\ p.stream_epoch = Part("stream", "epoch") /\ p.sequence = Part("stream", "sequence")
               /\ p.idempotency_identity = Get(event, "idempotencyIdentity")
               /\ p.content_hash = Get(Get(event, "provenance"), "canonicalPayloadHash")
               /\ p.client_event_id = IF Get(event, "clientEventId").type # "absent"
                                      THEN Get(event, "clientEventId") ELSE Get(event, "vendorEventId")
               /\ p.received_at = Get(event, "receivedAt").at /\ p.normalized_at = Get(event, "normalizedAt").at
               /\ p.captured_at = Get(event, "capturedAt").at /\ p.quality = Get(event, "quality").name
               /\ p.processing_version = Get(Get(event, "provenance"), "normalizationVersion")
               /\ p.observations = IF Get(event, "observations").type = "absent" THEN <<>>
                                   ELSE Get(event, "observations").items
<1> DEFINE Part(field, part) == IF Get(event, field).type = "absent" THEN Absent
                                ELSE Get(Get(event, field), part)
           others ==
             [idempotency_identity |-> Get(event, "idempotencyIdentity"),
              content_hash |-> Get(Get(event, "provenance"), "canonicalPayloadHash"),
              raw_payload_hash |-> Get(Get(event, "provenance"), "rawPayloadHash"),
              client_event_id |-> IF Get(event, "clientEventId").type # "absent"
                                  THEN Get(event, "clientEventId") ELSE Get(event, "vendorEventId"),
              stream_epoch |-> Part("stream", "epoch"), sequence |-> Part("stream", "sequence"),
              captured_at |-> Get(event, "capturedAt").at, received_at |-> Get(event, "receivedAt").at,
              normalized_at |-> Get(event, "normalizedAt").at,
              observations |-> IF Get(event, "observations").type = "absent" THEN <<>>
                               ELSE Get(event, "observations").items,
              quality |-> Get(event, "quality").name,
              processing_version |-> Get(Get(event, "provenance"), "normalizationVersion")]
           p == [f \in DOMAIN PositionRanges \cup HealthFields \cup DOMAIN others |->
                    IF f \in DOMAIN PositionRanges THEN Part("position", f)
                    ELSE IF f \in HealthFields THEN Part("health", f) ELSE others[f]]
           named == {"idempotency_identity", "content_hash", "raw_payload_hash", "client_event_id", "stream_epoch",
                     "sequence", "captured_at", "received_at", "normalized_at", "observations", "quality",
                     "processing_version"}
<1>1. StoreParameters(event) = p
  BY Zenon DEF StoreParameters
<1>2. /\ DOMAIN others = named
      /\ others["idempotency_identity"] = Get(event, "idempotencyIdentity")
      /\ others["content_hash"] = Get(Get(event, "provenance"), "canonicalPayloadHash")
      /\ others["client_event_id"] = IF Get(event, "clientEventId").type # "absent"
                                     THEN Get(event, "clientEventId") ELSE Get(event, "vendorEventId")
      /\ others["stream_epoch"] = Part("stream", "epoch") /\ others["sequence"] = Part("stream", "sequence")
      /\ others["received_at"] = Get(event, "receivedAt").at
      /\ others["normalized_at"] = Get(event, "normalizedAt").at
      /\ others["captured_at"] = Get(event, "capturedAt").at /\ others["quality"] = Get(event, "quality").name
      /\ others["processing_version"] = Get(Get(event, "provenance"), "normalizationVersion")
      /\ others["observations"] = IF Get(event, "observations").type = "absent" THEN <<>>
                                  ELSE Get(event, "observations").items
  OBVIOUS
<1>3. DOMAIN PositionRanges = {"latitude", "longitude", "altitudeMeters", "accuracyMeters", "speedMetersPerSecond",
                               "headingDegrees", "satellites"}
  BY DEF PositionRanges
<1> HIDE DEF others, Part
<1>4. \A f \in DOMAIN PositionRanges : p[f] = Part("position", f)
  OBVIOUS
<1>5. \A f \in HealthFields : p[f] = Part("health", f)
  BY <1>3 DEF HealthFields
<1>6. \A f \in named : p[f] = others[f]
  BY <1>2, <1>3 DEF HealthFields
<1>7. {"batteryPercent", "gsmSignalDbm", "firmwareVersion", "gpsFix"} \subseteq HealthFields
  BY DEF HealthFields
<1> HIDE DEF p
<1>8. /\ p.batteryPercent = Part("health", "batteryPercent") /\ p.gsmSignalDbm = Part("health", "gsmSignalDbm")
      /\ p.firmwareVersion = Part("health", "firmwareVersion") /\ p.gpsFix = Part("health", "gpsFix")
  BY <1>5, <1>7
<1>9. /\ p.stream_epoch = Part("stream", "epoch") /\ p.sequence = Part("stream", "sequence")
      /\ p.idempotency_identity = Get(event, "idempotencyIdentity")
      /\ p.content_hash = Get(Get(event, "provenance"), "canonicalPayloadHash")
      /\ p.client_event_id = IF Get(event, "clientEventId").type # "absent"
                             THEN Get(event, "clientEventId") ELSE Get(event, "vendorEventId")
      /\ p.received_at = Get(event, "receivedAt").at /\ p.normalized_at = Get(event, "normalizedAt").at
      /\ p.captured_at = Get(event, "capturedAt").at /\ p.quality = Get(event, "quality").name
      /\ p.processing_version = Get(Get(event, "provenance"), "normalizationVersion")
      /\ p.observations = IF Get(event, "observations").type = "absent" THEN <<>>
                          ELSE Get(event, "observations").items
  BY <1>2, <1>6
<1> QED
  BY <1>1, <1>4, <1>8, <1>9 DEF Part

\* What is in a JSON value has a shape.
LEMMA JsonShapes ==
    ASSUME NEW e, Json(e), e.type = "record"
    PROVE  /\ \A f : Shape(Get(e, f))
           /\ \A f, g : Get(e, f).type = "record" => Shape(Get(Get(e, f), g))
           /\ \A f, g, i : /\ Get(e, f).type = "list" /\ i \in DOMAIN Get(e, f).items
                           /\ Get(e, f).items[i].type = "record"
                           => Shape(Get(Get(e, f).items[i], g))
<1>1. Shape(Absent) /\ Absent.type = "absent"
  BY DEF Shape, Absent
<1>2. \A f : Get(e, f) = Absent \/ Get(e, f) \in Inside(e)
  BY GetIsInside
<1>3. \A a \in Inside(e) : /\ Shape(a)
                           /\ \A b \in Inside(a) : Shape(b) /\ \A c \in Inside(b) : Shape(c)
  BY DEF Json
<1>4. \A f : Shape(Get(e, f))
  BY <1>1, <1>2, <1>3
<1>5. ASSUME NEW f, NEW g, Get(e, f).type = "record"
      PROVE  Shape(Get(Get(e, f), g))
  <2>1. Get(e, f) \in Inside(e)
    BY <1>1, <1>2, <1>5
  <2>2. Get(Get(e, f), g) = Absent \/ Get(Get(e, f), g) \in Inside(Get(e, f))
    BY <1>5, GetIsInside
  <2> QED
    BY <1>1, <1>3, <2>1, <2>2
<1>6. ASSUME NEW f, NEW g, NEW i, Get(e, f).type = "list", i \in DOMAIN Get(e, f).items,
             Get(e, f).items[i].type = "record"
      PROVE  Shape(Get(Get(e, f).items[i], g))
  <2>1. Get(e, f) \in Inside(e)
    BY <1>1, <1>2, <1>6
  <2>2. Get(e, f).items[i] \in Inside(Get(e, f))
    BY <1>6 DEF Inside
  <2>3. Get(Get(e, f).items[i], g) = Absent \/ Get(Get(e, f).items[i], g) \in Inside(Get(e, f).items[i])
    BY <1>6, GetIsInside
  <2> QED
    BY <1>1, <1>3, <2>1, <2>2, <2>3
<1> QED
  BY <1>4, <1>5, <1>6

(***************************************************************************)
(* Theorems.                                                               *)
(***************************************************************************)

\* What it takes that the parameters of a call convert, when they are given.
LEMMA ConvertsIs ==
    ASSUME NEW p, NEW receivedAt \in Nat, NEW capturedAt, NEW clientEventId, NEW streamEpoch, NEW firmwareVersion,
           p.client_event_id = clientEventId, p.stream_epoch = streamEpoch, p.firmwareVersion = firmwareVersion,
           p.captured_at = capturedAt, p.received_at = receivedAt, p.normalized_at = receivedAt
    PROVE  Converts(p) <=> /\ capturedAt >= YearOne /\ HoldsText(clientEventId) /\ HoldsText(streamEpoch)
                           /\ HoldsText(firmwareVersion)
<1>1. receivedAt >= YearOne
  BY DEF YearOne
<1>2. (\A f \in DeviceTexts : HoldsText(p[f]))
      <=> HoldsText(p["client_event_id"]) /\ HoldsText(p["stream_epoch"]) /\ HoldsText(p["firmwareVersion"])
  BY DEF DeviceTexts
<1>3. (\A f \in Instants : p[f] >= YearOne)
      <=> p["captured_at"] >= YearOne /\ p["received_at"] >= YearOne /\ p["normalized_at"] >= YearOne
  BY DEF Instants
<1> QED
  BY <1>1, <1>2, <1>3 DEF Converts

\* Whatever JSON a device sends, an event that the adapter lets through is one
\* that the database function and its tables take, if and only if PostgreSQL has
\* values for its instant and its texts: the request is never answered 503, again
\* and again, for the ranges and lengths that are stated in three places, and
\* always for \u0000, half a surrogate pair or the year 0.
THEOREM LetThroughIsStorable ==
    ASSUME NEW e, Json(e), NEW device, NEW receivedAt \in Nat
    PROVE  Storable(e, device, receivedAt)
<1> SUFFICES ASSUME Normalize(e, device, receivedAt).reason = "ok"
             PROVE  StoreAccepts(StoreParameters(Normalize(e, device, receivedAt).event)) <=> HoldsEvent(e)
  BY DEF Storable
<1> DEFINE event == Canonical(e, device, receivedAt)
           p == StoreParameters(event)
           os == Observations(e, device)
<1>1. /\ ValidInput(e) /\ EventIssues(event) = {}
      /\ \A i \in 1..Len(os) : os[i] # Absent
      /\ Normalize(e, device, receivedAt).event = event
  BY Normalized
<1>2. e.type = "record"
  BY <1>1 DEF ValidInput, Exact
<1>3. /\ \A f : Shape(Get(e, f))
      /\ \A f, g : Get(e, f).type = "record" => Shape(Get(Get(e, f), g))
      /\ \A f, g, i : /\ Get(e, f).type = "list" /\ i \in DOMAIN Get(e, f).items
                      /\ Get(e, f).items[i].type = "record"
                      => Shape(Get(Get(e, f).items[i], g))
  BY <1>2, JsonShapes
<1>5. /\ event.type = "record"
      /\ Get(event, "idempotencyIdentity") = Digest(IdentityMaterial(e, device, Content(e, device)))
      /\ Get(event, "capturedAt") = Get(e, "capturedAt") /\ Get(event, "quality") = Txt("valid", 5)
      /\ Get(event, "receivedAt") = Stamp(receivedAt) /\ Get(event, "normalizedAt") = Stamp(receivedAt)
      /\ Get(Get(event, "provenance"), "normalizationVersion") = NormalizationVersion
      /\ IF Get(e, "sourceEventId").type # "absent" THEN Get(event, "vendorEventId") = Get(e, "sourceEventId")
         ELSE Get(event, "vendorEventId") = Absent
      /\ Get(event, "stream") = IF Get(e, "streamEpoch").type = "absent" THEN Absent
                                ELSE Rec([epoch |-> Get(e, "streamEpoch"), sequence |-> Get(e, "sequence")])
      /\ Get(event, "observations") = IF os = <<>> THEN Absent ELSE List(os)
      /\ Get(event, "clientEventId") = (IF Get(e, "clientEventId").type # "absent" THEN Get(e, "clientEventId") ELSE Absent)
      /\ Get(event, "position") = (IF Get(e, "position").type # "absent" THEN Get(e, "position") ELSE Absent)
      /\ Get(event, "health") = (IF Get(e, "health").type # "absent" THEN Get(e, "health") ELSE Absent)
  BY CanonicalFields
<1> HIDE DEF event, os
<1>4. \A f \in {"clientEventId", "position", "health"} :
          Get(event, f) = IF Get(e, f).type # "absent" THEN Get(e, f) ELSE Absent
  BY <1>5
<1>6. /\ Get(event, "position").type # "absent" => PositionIssues(Get(event, "position")) = {}
      /\ Get(event, "health").type # "absent" => HealthIssues(Get(event, "health")) = {}
      /\ Get(event, "observations").type # "absent" => ObservationListIssues(Get(event, "observations")) = {}
  BY <1>1, <1>5, CleanEvent
<1>7. /\ \A f \in DOMAIN PositionRanges : p[f] = IF Get(event, "position").type = "absent" THEN Absent
                                                 ELSE Get(Get(event, "position"), f)
      /\ \A f \in {"batteryPercent", "gsmSignalDbm", "firmwareVersion", "gpsFix"} :
             p[f] = IF Get(event, "health").type = "absent" THEN Absent ELSE Get(Get(event, "health"), f)
  <2>1. /\ p.batteryPercent = (IF Get(event, "health").type = "absent" THEN Absent ELSE Get(Get(event, "health"), "batteryPercent"))
        /\ p.gsmSignalDbm = (IF Get(event, "health").type = "absent" THEN Absent ELSE Get(Get(event, "health"), "gsmSignalDbm"))
        /\ p.firmwareVersion = (IF Get(event, "health").type = "absent" THEN Absent ELSE Get(Get(event, "health"), "firmwareVersion"))
        /\ p.gpsFix = (IF Get(event, "health").type = "absent" THEN Absent ELSE Get(Get(event, "health"), "gpsFix"))
    BY Parameters, Zenon
  <2>2. \A f \in DOMAIN PositionRanges : p[f] = IF Get(event, "position").type = "absent" THEN Absent
                                                ELSE Get(Get(event, "position"), f)
    BY Parameters, Zenon
  <2> HIDE DEF p
  <2> QED
    BY <2>1, <2>2
<1>8. /\ p.stream_epoch = (IF Get(event, "stream").type = "absent" THEN Absent ELSE Get(Get(event, "stream"), "epoch"))
      /\ p.sequence = (IF Get(event, "stream").type = "absent" THEN Absent ELSE Get(Get(event, "stream"), "sequence"))
      /\ p.idempotency_identity = Get(event, "idempotencyIdentity")
      /\ p.client_event_id = (IF Get(event, "clientEventId").type # "absent"
                              THEN Get(event, "clientEventId") ELSE Get(event, "vendorEventId"))
      /\ p.captured_at = Get(event, "capturedAt").at /\ p.quality = Get(event, "quality").name
      /\ p.received_at = Get(event, "receivedAt").at /\ p.normalized_at = Get(event, "normalizedAt").at
      /\ p.processing_version = Get(Get(event, "provenance"), "normalizationVersion")
      /\ p.observations = (IF Get(event, "observations").type = "absent" THEN <<>> ELSE Get(event, "observations").items)
  BY Parameters, Zenon
<1> HIDE DEF p
<1>9. Absent.type = "absent"
  BY AbsentIsAbsent
<1>10. \A n, m : Txt(n, m).type = "text" /\ Txt(n, m).length = m /\ Txt(n, m).name = n
  BY DEF Txt
<1>11. TextWithin(p.idempotency_identity, 1, 256)
  BY <1>5, <1>8, <1>10 DEF TextWithin, Digest
<1>12. TextWithin(p.client_event_id, 1, 128)
  <2>1. \A f \in {"clientEventId", "sourceEventId"} : OptionalText(Get(e, f), 128)
    BY <1>1, Zenon DEF ValidInput
  <2>2. p.client_event_id = Absent \/ p.client_event_id = Get(e, "clientEventId") \/ p.client_event_id = Get(e, "sourceEventId")
    BY <1>4, <1>5, <1>8, <1>9
  <2> QED
    BY <1>9, <2>1, <2>2 DEF OptionalText, BoundedText, TextWithin
<1>13. /\ TextWithin(p.stream_epoch, 1, 128)
       /\ (p.stream_epoch.type = "absent") <=> (p.sequence.type = "absent")
       /\ p.sequence.type = "absent" \/ p.sequence.num >= 0
  <2>1. /\ OptionalText(Get(e, "streamEpoch"), 128)
        /\ Get(e, "sequence").type = "absent" \/ Natural(Get(e, "sequence"))
        /\ (Get(e, "streamEpoch").type = "absent") <=> (Get(e, "sequence").type = "absent")
    BY <1>1, Zenon DEF ValidInput
  <2>2. CASE Get(e, "streamEpoch").type = "absent"
    BY <1>5, <1>8, <1>9, <2>2 DEF TextWithin
  <2>3. CASE Get(e, "streamEpoch").type # "absent"
    <3> DEFINE fields == [epoch |-> Get(e, "streamEpoch"), sequence |-> Get(e, "sequence")]
    <3>1. Get(event, "stream") = Rec(fields)
      BY <1>5, <2>3
    <3>2. "epoch" \in DOMAIN fields /\ fields["epoch"] = Get(e, "streamEpoch")
          /\ "sequence" \in DOMAIN fields /\ fields["sequence"] = Get(e, "sequence")
      OBVIOUS
    <3> HIDE DEF fields
    <3>3. p.stream_epoch = Get(e, "streamEpoch") /\ p.sequence = Get(e, "sequence")
      BY <1>8, <3>1, <3>2, GetOfRec
    <3> QED
      BY <2>1, <2>3, <3>3 DEF TextWithin, OptionalText, BoundedText, Natural
  <2> QED
    BY <2>2, <2>3
<1>14. p.quality \in {"valid", "degraded", "suspect"} /\ TextWithin(p.processing_version, 1, 32)
  BY <1>5, <1>8, <1>10 DEF TextWithin, NormalizationVersion
<1>15. /\ (p.latitude.type = "absent") <=> (p.longitude.type = "absent")
       /\ \A f \in DOMAIN StoreRanges : Within(p[f], StoreRanges[f])
  <2>1. /\ DOMAIN StoreRanges = DOMAIN PositionRanges /\ "latitude" \in DOMAIN PositionRanges
        /\ "longitude" \in DOMAIN PositionRanges
    BY DEF PositionRanges, StoreRanges
  <2>2. CASE Get(event, "position").type = "absent"
    <3>1. \A f \in DOMAIN PositionRanges : p[f] = Absent
      BY <1>7, <2>2
    <3> QED
      BY <1>9, <2>1, <3>1 DEF Within
  <2>3. CASE Get(event, "position").type # "absent"
    <3> DEFINE position == Get(e, "position")
    <3>1. Get(event, "position") = position /\ PositionIssues(position) = {}
      BY <1>4, <1>6, <1>9, <2>3
    <3>2. position.type = "record"
      BY <3>1 DEF PositionIssues
    <3>3. \A f : Get(position, f).type = "number" => Get(position, f).num \in Int
      BY <1>3, <3>2, ShapeFields
    <3> HIDE DEF position
    <3>4. /\ Get(position, "latitude").type = "number" /\ Get(position, "longitude").type = "number"
          /\ \A f \in DOMAIN StoreRanges : Within(Get(position, f), StoreRanges[f])
      BY <3>1, <3>3, CleanPosition, Zenon
    <3>5. \A f \in DOMAIN PositionRanges : p[f] = Get(position, f)
      BY <1>7, <2>3, <3>1
    <3> QED
      BY <2>1, <3>4, <3>5
  <2> QED
    BY <2>2, <2>3
<1>16. /\ Within(p.batteryPercent, <<0, 100>>) /\ Within(p.gsmSignalDbm, <<-200, 0>>)
       /\ TextWithin(p.firmwareVersion, 0, 64)
       /\ p.gpsFix.type = "absent" \/ OneOf(p.gpsFix, GpsFixes)
  <2> DEFINE Fields == {"batteryPercent", "gsmSignalDbm", "firmwareVersion", "gpsFix"}
  <2>1. CASE Get(event, "health").type = "absent"
    <3>1. \A f \in Fields : p[f] = Absent
      BY <1>7, <2>1
    <3> QED
      BY <1>9, <3>1 DEF Within, TextWithin
  <2>2. CASE Get(event, "health").type # "absent"
    <3> DEFINE health == Get(e, "health")
    <3>1. Get(event, "health") = health /\ HealthIssues(health) = {}
      BY <1>4, <1>6, <1>9, <2>2
    <3>2. health.type = "record"
      BY <3>1 DEF HealthIssues
    <3>3. /\ \A f : Get(health, f).type = "number" => Get(health, f).num \in Int
          /\ \A f : Get(health, f).type = "text" => Get(health, f).length \in Nat
      BY <1>3, <3>2, ShapeFields
    <3> HIDE DEF health
    <3>4. /\ Within(Get(health, "batteryPercent"), <<0, 100>>) /\ Within(Get(health, "gsmSignalDbm"), <<-200, 0>>)
          /\ TextWithin(Get(health, "firmwareVersion"), 0, 64)
          /\ Get(health, "gpsFix").type = "absent" \/ OneOf(Get(health, "gpsFix"), GpsFixes)
      BY <3>1, <3>3, CleanHealth, Zenon
    <3>5. \A f \in Fields : p[f] = Get(health, f)
      BY <1>7, <2>2, <3>1
    <3>6. /\ p.batteryPercent = Get(health, "batteryPercent") /\ p.gsmSignalDbm = Get(health, "gsmSignalDbm")
          /\ p.firmwareVersion = Get(health, "firmwareVersion") /\ p.gpsFix = Get(health, "gpsFix")
      BY <3>5
    <3> QED
      BY <3>4, <3>6, Zenon
  <2> QED
    BY <2>1, <2>2
<1>17. Len(p.observations) <= 32 /\ \A i \in 1..Len(p.observations) : StoresObservation(p.observations[i], p)
  <2> DEFINE raw == IF Get(e, "observations").type = "absent" THEN <<>> ELSE Get(e, "observations").items
             n == Len(raw)
  <2>1. n \in Nat /\ DOMAIN raw = 1..n
    <3>1. CASE Get(e, "observations").type = "absent"
      BY <3>1
    <3>2. CASE Get(e, "observations").type # "absent"
      <4>1. Get(e, "observations").type = "list"
        BY <1>1, <3>2, Zenon DEF ValidInput
      <4> QED
        BY <1>3, <3>2, <4>1, ShapeFields
    <3> QED
      BY <3>1, <3>2
  <2>2. os = [i \in 1..n |-> NormalObservation(raw[i], Get(e, "capturedAt"), device)]
    BY Zenon DEF os, Observations
  <2>3. \A i \in 1..n : Get(raw[i], "value").type = "number" => Get(raw[i], "value").num \in Int
    <3>1. CASE Get(e, "observations").type = "absent"
      <4>1. n = 0
        BY <3>1
      <4> QED
        BY <4>1
    <3>2. CASE Get(e, "observations").type # "absent"
      <4>1. /\ Get(e, "observations").type = "list"
            /\ \A i \in 1..Len(Get(e, "observations").items) :
                   Exact(Get(e, "observations").items[i], {"metric", "value", "unit"})
        BY <1>1, <3>2, Zenon DEF ValidInput
      <4>2. raw = Get(e, "observations").items
        BY <3>2
      <4>3. \A i \in 1..n : raw[i].type = "record"
        BY <4>1, <4>2 DEF Exact
      <4>4. \A i \in 1..n : Shape(Get(raw[i], "value"))
        BY <1>3, <2>1, <4>1, <4>2, <4>3
      <4> QED
        BY <4>4, ShapeFields
    <3> QED
      BY <3>1, <3>2
  <2> HIDE DEF raw, n
  <2>4. os \in Seq({os[i] : i \in 1..n}) /\ Len(os) = n /\ \A i \in 1..n : os[i] = NormalObservation(raw[i], Get(e, "capturedAt"), device)
    BY <2>1, <2>2
  <2>5. List(os).type = "list" /\ List(os).items = os
    BY DEF List
  <2>6. CASE os = <<>>
    BY <1>5, <1>8, <1>9, <2>6
  <2>7. CASE os # <<>>
    <3>1. ObservationListIssues(List(os)) = {} /\ p.observations = os
      BY <1>5, <1>6, <1>8, <2>5, <2>7
    <3>2. ~(Len(os) > 32) /\ (UNION {Below(<<i>>, ObservationIssues(os[i])) : i \in 1..Len(os)}) = {}
      BY <2>5, <3>1 DEF ObservationListIssues
    <3>3. \A i \in 1..n : ObservationIssues(os[i]) = {}
      <4>1. \A i \in 1..n : Below(<<i>>, ObservationIssues(os[i])) = {}
        BY <2>4, <3>2
      <4> QED
        BY <4>1, NothingBelow
    <3>4. ASSUME NEW i \in 1..n PROVE StoresObservation(os[i], p)
      <4>1. p.captured_at = Get(e, "capturedAt").at
        BY <1>5, <1>8
      <4>2. NormalObservation(raw[i], Get(e, "capturedAt"), device) # Absent
        BY <1>1, <2>4
      <4>3. ObservationIssues(NormalObservation(raw[i], Get(e, "capturedAt"), device)) = {}
        BY <2>4, <3>3
      <4>4. StoresObservation(NormalObservation(raw[i], Get(e, "capturedAt"), device), p)
        <5> DEFINE o == NormalObservation(raw[i], Get(e, "capturedAt"), device)
        <5>1. /\ o.type = "record" /\ OneOf(Get(o, "metric"), DOMAIN Units)
              /\ Get(o, "value") = Get(raw[i], "value") /\ Get(o, "capturedAt") = Get(e, "capturedAt")
          BY <4>2, NormalObservationFields
        <5> HIDE DEF o
        <5>2. StoresObservation(o, p)
          BY <2>3, <4>1, <4>3, <5>1, CleanObservation DEF o
        <5> QED
          BY <5>2 DEF o
      <4> QED
        BY <2>4, <4>4
    <3> QED
      BY <2>1, <2>4, <3>1, <3>2, <3>4
  <2> QED
    BY <2>6, <2>7
<1>18. Converts(p) <=> HoldsEvent(e)
  <2> DEFINE given == Get(e, IF Get(e, "clientEventId").type # "absent" THEN "clientEventId" ELSE "sourceEventId")
             firmware == IF Get(e, "health").type = "absent" THEN Absent ELSE Get(Get(e, "health"), "firmwareVersion")
             Shown(v) == IF v.type = "absent" THEN Absent ELSE v
  <2>1. \A v : HoldsText(Shown(v)) <=> HoldsText(v)
    BY <1>9 DEF HoldsText
  <2>2. p.client_event_id = Shown(given) /\ p.firmwareVersion = firmware
    BY <1>4, <1>5, <1>7, <1>8, <1>9
  <2>3. p.stream_epoch = Shown(Get(e, "streamEpoch"))
    <3> DEFINE fields == [epoch |-> Get(e, "streamEpoch"), sequence |-> Get(e, "sequence")]
    <3>1. "epoch" \in DOMAIN fields /\ fields["epoch"] = Get(e, "streamEpoch")
      OBVIOUS
    <3> HIDE DEF fields
    <3>2. Rec(fields).type = "record" /\ Get(Rec(fields), "epoch") = Get(e, "streamEpoch")
      BY <3>1, GetOfRec
    <3>3. Get(event, "stream") = IF Get(e, "streamEpoch").type = "absent" THEN Absent ELSE Rec(fields)
      BY <1>5 DEF fields
    <3> QED
      BY <1>8, <1>9, <3>2, <3>3
  <2>4. Stamp(receivedAt).at = receivedAt
    BY DEF Stamp, Txt
  <2>5. p.captured_at = Get(e, "capturedAt").at /\ p.received_at = receivedAt /\ p.normalized_at = receivedAt
    BY <1>5, <1>8, <2>4
  <2>6. HoldsText(firmware) <=> (Get(e, "health").type # "absent" => HoldsText(Get(Get(e, "health"), "firmwareVersion")))
    BY <1>9 DEF HoldsText
  <2> HIDE DEF given, firmware, Shown
  <2>7. Converts(p) <=> /\ Get(e, "capturedAt").at >= YearOne /\ HoldsText(Shown(given))
                        /\ HoldsText(Shown(Get(e, "streamEpoch"))) /\ HoldsText(firmware)
    BY <2>2, <2>3, <2>5, ConvertsIs
  <2> QED
    BY <2>1, <2>6, <2>7 DEF HoldsEvent, given
<1>19. StoreAccepts(p) <=> Converts(p)
  BY <1>11, <1>12, <1>13, <1>14, <1>15, <1>16, <1>17, Zenon DEF StoreAccepts
<1> QED
  BY <1>1, <1>18, <1>19 DEF p

\* A time at which the host receives something is a valid time.
LEMMA StampsAreTimes ==
    ASSUME NEW n \in Nat, NEW path
    PROVE  TimeIssues(Stamp(n), path) = {}
<1>1. Stamp(n).type = "text" /\ Stamp(n).length = 24 /\ Stamp(n).at = n
  BY DEF Stamp, Txt
<1>2. TextIssues(Stamp(n), path, 40) = {}
  BY <1>1 DEF TextIssues, Issue
<1>3. ParseStrictUtc(Stamp(n)) # NoTime
  BY <1>1 DEF ParseStrictUtc, NoTime
<1> HIDE DEF Stamp
<1> QED
  BY <1>2, <1>3 DEF TimeIssues, Issue

\* The validator takes two events alike that differ in nothing but when the
\* host received them.
LEMMA AlikeButForTimes ==
    ASSUME NEW a, NEW b, a.type = "record", b.type = "record", DOMAIN a.fields = DOMAIN b.fields,
           \A f \in EventFields \ {"receivedAt", "normalizedAt", "observedClockOffsetMs"} : Get(a, f) = Get(b, f),
           \A f \in {"receivedAt", "normalizedAt"} : /\ TimeIssues(Get(a, f), <<f>>) = {}
                                                     /\ TimeIssues(Get(b, f), <<f>>) = {},
           Get(a, "observedClockOffsetMs").type = "number", Get(b, "observedClockOffsetMs").type = "number"
    PROVE  EventIssues(a) = EventIssues(b)
<1>1. /\ Get(a, "contractVersion") = Get(b, "contractVersion")
      /\ Get(a, "canonicalEventId") = Get(b, "canonicalEventId")
      /\ Get(a, "idempotencyIdentity") = Get(b, "idempotencyIdentity")
      /\ Get(a, "vendorEventId") = Get(b, "vendorEventId") /\ Get(a, "clientEventId") = Get(b, "clientEventId")
      /\ Get(a, "deviceExternalId") = Get(b, "deviceExternalId")
      /\ Get(a, "authenticatedDeviceExternalId") = Get(b, "authenticatedDeviceExternalId")
      /\ Get(a, "adapter") = Get(b, "adapter") /\ Get(a, "stream") = Get(b, "stream")
      /\ Get(a, "capturedAt") = Get(b, "capturedAt") /\ Get(a, "position") = Get(b, "position")
      /\ Get(a, "health") = Get(b, "health") /\ Get(a, "observations") = Get(b, "observations")
      /\ Get(a, "quality") = Get(b, "quality") /\ Get(a, "provenance") = Get(b, "provenance")
  BY DEF EventFields
<1> DEFINE Identities(x) == UNION {TextIssues(Get(x, f), <<f>>, 256) : f \in {"canonicalEventId", "idempotencyIdentity"}}
           Optionals(x) == UNION {Optional(Get(x, f), TextIssues(Get(x, f), <<f>>, 128)) :
                                  f \in {"vendorEventId", "clientEventId"}}
           DeviceNames(x) == UNION {TextIssues(Get(x, f), <<f>>, 128) :
                                    f \in {"deviceExternalId", "authenticatedDeviceExternalId"}}
           Times(x) == UNION {TimeIssues(Get(x, f), <<f>>) : f \in {"capturedAt", "receivedAt", "normalizedAt"}}
           Offset(x) == Optional(Get(x, "observedClockOffsetMs"),
                                 Issue(Get(x, "observedClockOffsetMs").type # "number",
                                       <<"observedClockOffsetMs">>, "invalid_type"))
<1>2. Identities(a) = Identities(b) /\ Optionals(a) = Optionals(b) /\ DeviceNames(a) = DeviceNames(b)
  BY <1>1
<1>3. Times(a) = Times(b)
  BY <1>1
<1>4. Offset(a) = Offset(b)
  BY DEF Issue, Optional
<1>5. BindingIssues(a) = BindingIssues(b)
  <2> DEFINE Binding(observations, provenance, device, capturedAt) ==
                 IF observations.type # "list" \/ provenance.type # "record" THEN {}
                 ELSE UNION {LET o == observations.items[i]
                                 Bound(field, value) ==
                                     Issue(Get(o, field) # value, <<"observations", i, field>>, "invalid_value")
                             IN  IF o.type # "record" THEN {}
                                 ELSE Bound("deviceExternalId", device) \cup Bound("capturedAt", capturedAt)
                                      \cup (UNION {Bound(f, Get(provenance, f)) :
                                                   f \in {"source", "synthetic", "normalizationVersion"}}) :
                             i \in 1..Len(observations.items)}
  <2>1. \A x : BindingIssues(x) = Binding(Get(x, "observations"), Get(x, "provenance"),
                                          Get(x, "deviceExternalId"), Get(x, "capturedAt"))
    BY Zenon DEF BindingIssues
  <2> HIDE DEF Binding
  <2> QED
    BY <1>1, <2>1
<1>6. Unexpected(a, EventFields) = Unexpected(b, EventFields)
  BY DEF Unexpected
<1> DEFINE All(unexpected, contract, identities, device, authenticated, adapter, stream, times, position, health,
               observations, quality, provenance, binding) ==
               unexpected \cup Issue(~OneOf(contract, {"1"}), <<"contractVersion">>, "unsupported")
               \cup identities[1] \cup identities[2] \cup identities[3]
               \cup Issue(device # authenticated, <<"authenticatedDeviceExternalId">>, "invalid_value")
               \cup Below(<<"adapter">>, AdapterIssues(adapter))
               \cup Optional(stream, Below(<<"stream">>, StreamIssues(stream)))
               \cup times[1] \cup times[2]
               \cup Optional(position, Below(<<"position">>, PositionIssues(position)))
               \cup Optional(health, Below(<<"health">>, HealthIssues(health)))
               \cup Optional(observations, Below(<<"observations">>, ObservationListIssues(observations)))
               \cup Issue(~OneOf(quality, {"valid", "degraded", "suspect"}), <<"quality">>, "unsupported")
               \cup Below(<<"provenance">>, ProvenanceIssues(provenance))
               \cup binding
           AllOf(x) == All(Unexpected(x, EventFields), Get(x, "contractVersion"),
                           <<Identities(x), Optionals(x), DeviceNames(x)>>, Get(x, "deviceExternalId"),
                           Get(x, "authenticatedDeviceExternalId"), Get(x, "adapter"), Get(x, "stream"),
                           <<Times(x), Offset(x)>>, Get(x, "position"), Get(x, "health"), Get(x, "observations"),
                           Get(x, "quality"), Get(x, "provenance"), BindingIssues(x))
<1>7. ASSUME NEW x, x.type = "record"
      PROVE  EventIssues(x) = AllOf(x)
  BY <1>7, Zenon DEF EventIssues
<1> HIDE DEF Identities, Optionals, DeviceNames, Times, Offset, All
<1>8. AllOf(a) = AllOf(b)
  BY <1>1, <1>2, <1>3, <1>4, <1>5, <1>6
<1> QED
  BY <1>7, <1>8

\* The events of one vendor event, received at two times, are valid or not together.
LEMMA RetriesAreAlike ==
    ASSUME NEW e, NEW device, NEW first \in Nat, NEW again \in Nat
    PROVE  EventIssues(Canonical(e, device, first)) = EventIssues(Canonical(e, device, again))
<1> DEFINE content == Content(e, device)
           identity == IdentityMaterial(e, device, content)
           about == Rec([source |-> Txt("physical_device", 15),
                         normalizationVersion |-> NormalizationVersion, synthetic |-> Bool(FALSE),
                         rawPayloadHash |-> Digest(e), canonicalPayloadHash |-> Digest(content)])
           Fixed(t) == [contractVersion |-> Txt("1", 1), canonicalEventId |-> Digest(identity),
                        idempotencyIdentity |-> Digest(identity), deviceExternalId |-> device,
                        authenticatedDeviceExternalId |-> device,
                        adapter |-> Rec([id |-> AdapterId, version |-> AdapterVersion]),
                        capturedAt |-> Get(e, "capturedAt"), receivedAt |-> Stamp(t), normalizedAt |-> Stamp(t),
                        observedClockOffsetMs |-> Num(t - Get(e, "capturedAt").at),
                        quality |-> Txt("valid", 5), provenance |-> about]
           copied == [vendorEventId |-> Get(e, "sourceEventId"), clientEventId |-> Get(e, "clientEventId"),
                      position |-> Get(e, "position"), health |-> Get(e, "health"),
                      stream |-> IF Get(e, "streamEpoch").type = "absent" THEN Absent
                                 ELSE Rec([epoch |-> Get(e, "streamEpoch"), sequence |-> Get(e, "sequence")]),
                      observations |-> IF Observations(e, device) = <<>> THEN Absent
                                       ELSE List(Observations(e, device))]
           present == {f \in DOMAIN copied : copied[f].type # "absent"}
           All(t) == [f \in DOMAIN Fixed(t) \cup present |-> IF f \in present THEN copied[f] ELSE Fixed(t)[f]]
           times == {"receivedAt", "normalizedAt", "observedClockOffsetMs"}
<1>1. \A t : Canonical(e, device, t) = Rec(All(t))
  BY Zenon DEF Canonical
<1>2. \A t : /\ times \subseteq DOMAIN Fixed(t)
             /\ Fixed(t)["receivedAt"] = Stamp(t) /\ Fixed(t)["normalizedAt"] = Stamp(t)
             /\ Fixed(t)["observedClockOffsetMs"] = Num(t - Get(e, "capturedAt").at)
  OBVIOUS
<1>3. \A t, u : DOMAIN Fixed(t) = DOMAIN Fixed(u)
  OBVIOUS
<1>4. \A t, u : \A f \in DOMAIN Fixed(t) \ times : Fixed(t)[f] = Fixed(u)[f]
  OBVIOUS
<1>5. times \cap present = {}
  OBVIOUS
<1> HIDE DEF Fixed, copied, present, about, identity, content
<1>6. \A t, u : DOMAIN All(t) = DOMAIN All(u) /\ \A f \in DOMAIN All(t) \ times : All(t)[f] = All(u)[f]
  BY <1>3, <1>4
<1>7. \A t : times \subseteq DOMAIN All(t) /\ \A f \in times : All(t)[f] = Fixed(t)[f]
  BY <1>2, <1>5
<1> HIDE DEF All
<1> DEFINE a == Canonical(e, device, first)
           b == Canonical(e, device, again)
<1>8. /\ a.type = "record" /\ b.type = "record" /\ a.fields = All(first) /\ b.fields = All(again)
  BY <1>1, GetOfRec
<1>9. \A f \in EventFields \ times : Get(a, f) = Get(b, f)
  BY <1>6, <1>8 DEF Get
<1>10. \A t : /\ Get(Rec(All(t)), "receivedAt") = Stamp(t) /\ Get(Rec(All(t)), "normalizedAt") = Stamp(t)
              /\ Get(Rec(All(t)), "observedClockOffsetMs") = Num(t - Get(e, "capturedAt").at)
  BY <1>2, <1>7, GetOfRec
<1>11. \A n : Num(n).type = "number"
  BY DEF Num
<1> HIDE DEF a, b
<1>12. /\ \A f \in {"receivedAt", "normalizedAt"} : /\ TimeIssues(Get(a, f), <<f>>) = {}
                                                    /\ TimeIssues(Get(b, f), <<f>>) = {}
       /\ Get(a, "observedClockOffsetMs").type = "number" /\ Get(b, "observedClockOffsetMs").type = "number"
  BY <1>1, <1>10, <1>11, StampsAreTimes DEF a, b
<1>13. DOMAIN a.fields = DOMAIN b.fields
  BY <1>6, <1>8
<1>14. EventIssues(a) = EventIssues(b)
  BY <1>8, <1>9, <1>12, <1>13, AlikeButForTimes
<1> QED
  BY <1>14 DEF a, b

\* What the database is called with about content is what the event says.
LEMMA ContentHashOf ==
    ASSUME NEW event
    PROVE  StoreParameters(event).content_hash = Get(Get(event, "provenance"), "canonicalPayloadHash")
BY Parameters, Zenon

\* A retry of a vendor event is refused for the same reason or let through with
\* the same identity and the same content, whenever the host receives it.
THEOREM RetryAlwaysTheSame ==
    ASSUME NEW e, NEW device, NEW first \in Nat, NEW again \in Nat
    PROVE  RetryIsTheSame(e, device, first, again)
<1> DEFINE a == Canonical(e, device, first)
           b == Canonical(e, device, again)
           Refused(reason) == [reason |-> reason, event |-> Absent]
           Outcome(event, issues) ==
               IF ~ValidInput(e) THEN Refused("canonical_event_invalid")
               ELSE IF Get(e, "capturedAt").at = NoTime \/ ~Get(e, "capturedAt").millis
               THEN Refused("captured_time_invalid")
               ELSE IF \E i \in 1..Len(Observations(e, device)) : Observations(e, device)[i] = Absent
               THEN Refused("sensor_observation_unsupported")
               ELSE IF ~Canonicalizes(e) \/ ~Canonicalizes(Content(e, device))
               THEN Refused("canonical_event_invalid")
               ELSE IF issues # {} THEN Refused("canonical_event_invalid")
               ELSE [reason |-> "ok", event |-> event]
<1>1. /\ Normalize(e, device, first) = Outcome(a, EventIssues(a))
      /\ Normalize(e, device, again) = Outcome(b, EventIssues(b))
  BY Zenon DEF Normalize
<1>2. \A x, y, issues : Outcome(x, issues).reason = Outcome(y, issues).reason
  <2> SUFFICES ASSUME NEW x, NEW y, NEW issues PROVE Outcome(x, issues).reason = Outcome(y, issues).reason
    OBVIOUS
  <2> HIDE DEF a, b
  <2> QED
    OBVIOUS
<1> HIDE DEF Outcome
<1>3. Normalize(e, device, first).reason = Normalize(e, device, again).reason
  BY <1>1, <1>2, RetriesAreAlike
<1>4. ASSUME Normalize(e, device, first).reason = "ok"
      PROVE  /\ Get(Normalize(e, device, first).event, "idempotencyIdentity")
                = Get(Normalize(e, device, again).event, "idempotencyIdentity")
             /\ StoreParameters(Normalize(e, device, first).event).content_hash
                = StoreParameters(Normalize(e, device, again).event).content_hash
  <2>1. Normalize(e, device, first).event = a /\ Normalize(e, device, again).event = b
    BY <1>3, <1>4, Normalized
  <2>2. /\ Get(a, "idempotencyIdentity") = Digest(IdentityMaterial(e, device, Content(e, device)))
        /\ Get(b, "idempotencyIdentity") = Digest(IdentityMaterial(e, device, Content(e, device)))
        /\ Get(Get(a, "provenance"), "canonicalPayloadHash") = Digest(Content(e, device))
        /\ Get(Get(b, "provenance"), "canonicalPayloadHash") = Digest(Content(e, device))
    BY CanonicalIdentity
  <2> HIDE DEF a, b
  <2> QED
    BY <2>1, <2>2, ContentHashOf
<1> QED
  BY <1>3, <1>4 DEF RetryIsTheSame

\* The digest is that of one material.
LEMMA DigestsTellApart ==
    ASSUME NEW m, NEW n, Digest(m) = Digest(n)
    PROVE  m = n
BY DEF Digest, Txt

\* Two vendor events of a device that share an identity say the same when the
\* first has no identifier, and one has an identifier of the vendor when the
\* other has.
THEOREM IdentitiesAlwaysTellApart ==
    ASSUME NEW e, NEW f, NEW device
    PROVE  IdentitiesTellApart(e, f, device)
<1> DEFINE a == Normalize(e, device, Get(e, "capturedAt").at)
           b == Normalize(f, device, Get(f, "capturedAt").at)
           M(x) == IdentityMaterial(x, device, Content(x, device))
<1> SUFFICES ASSUME a.reason = "ok", b.reason = "ok",
                    Get(a.event, "idempotencyIdentity") = Get(b.event, "idempotencyIdentity")
             PROVE  /\ Get(e, "sourceEventId").type = "absent" /\ Get(e, "clientEventId").type = "absent"
                       => Content(e, device) = Content(f, device)
                    /\ (Get(e, "sourceEventId").type # "absent") <=> (Get(f, "sourceEventId").type # "absent")
  BY Zenon DEF IdentitiesTellApart
<1>1. /\ a.event = Canonical(e, device, Get(e, "capturedAt").at)
      /\ b.event = Canonical(f, device, Get(f, "capturedAt").at)
  BY Normalized
<1>2. Get(a.event, "idempotencyIdentity") = Digest(M(e)) /\ Get(b.event, "idempotencyIdentity") = Digest(M(f))
  <2>1. /\ Get(Canonical(e, device, Get(e, "capturedAt").at), "idempotencyIdentity") = Digest(M(e))
        /\ Get(Canonical(f, device, Get(f, "capturedAt").at), "idempotencyIdentity") = Digest(M(f))
    BY CanonicalIdentity
  <2> QED
    BY <1>1, <2>1
<1> HIDE DEF a, b
<1>3. M(e) = M(f)
  <2> HIDE DEF M
  <2> QED
    BY <1>2, DigestsTellApart
<1>4. \A x : /\ Get(x, "sourceEventId").type # "absent" => M(x)[1] = "vendor_event_id"
             /\ Get(x, "sourceEventId").type = "absent" => M(x)[1] # "vendor_event_id"
             /\ Get(x, "sourceEventId").type = "absent" /\ Get(x, "clientEventId").type # "absent"
                => M(x)[1] = "client_event_id"
             /\ Get(x, "sourceEventId").type = "absent" /\ Get(x, "clientEventId").type = "absent"
                => M(x)[1] = "derived_payload" /\ M(x)[6] = Content(x, device)
  BY DEF IdentityMaterial
<1> HIDE DEF M
<1> QED
  BY <1>3, <1>4

(***************************************************************************)
(* The reference vendor.                                                   *)
(***************************************************************************)

\* A signature is that of one instant, one body and one secret.
LEMMA SignaturesTellApart ==
    ASSUME NEW body, NEW timestamp, NEW secret, NEW otherBody, NEW otherTimestamp, NEW otherSecret,
           createReferenceVendorSignatureV1(body, timestamp, secret)
           = createReferenceVendorSignatureV1(otherBody, otherTimestamp, otherSecret)
    PROVE  body = otherBody /\ timestamp = otherTimestamp /\ secret = otherSecret
BY DEF createReferenceVendorSignatureV1

\* What held of a request that is accepted.
LEMMA AcceptedRequest ==
    ASSUME NEW request, NEW options, Accepts(request, options)
    PROVE  /\ Header(request, "signature") /\ Header(request, "timestamp") /\ Header(request, "keyId")
           /\ options.deviceStatus \notin {"unknown", "inactive"}
           /\ options.keys[request.keyId].status # "revoked" /\ ~TooOld(options, request.timestamp)
           /\ request.signature.wellFormed
           /\ request.signature = createReferenceVendorSignatureV1(
                                      request.body, request.timestamp, options.keys[request.keyId].secret)
BY Zenon DEF Accepts, authenticateReferenceVendorRequestV1

\* A request that is accepted is one that the holder of the key signed, less
\* than five minutes away, for an active device; with another body, instant or
\* signature, or the key of another secret, it is refused: for any bodies,
\* instants, keys and secrets.
THEOREM OnlyTheSignedRequestPasses ==
    ASSUME NEW request, NEW options, NEW bodies, NEW times, NEW keyIds,
           request = [x \in DOMAIN request |-> request[x]],
           Header(request, "timestamp") => request.timestamp \in Int, options.receivedAt \in Int,
           options.deviceStatus \in {"unknown", "inactive", "active"}
    PROVE  OnlyTheSignedRequest(request, options, bodies, times, keyIds)
<1> DEFINE Signature(r) ==
               createReferenceVendorSignatureV1(r.body, r.timestamp, options.keys[r.keyId].secret)
           WithBody(b) == [request EXCEPT !.body = b]
           At(t) == [request EXCEPT !.timestamp = t]
           Unsigned == [request EXCEPT !.signature = Malformed]
           Named(k) == [request EXCEPT !.keyId = k]
           changed == {WithBody(b) : b \in bodies} \cup {At(t) : t \in times} \cup {Unsigned}
<1> SUFFICES ASSUME Accepts(request, options)
             PROVE  /\ options.deviceStatus = "active" /\ options.keys[request.keyId].status # "revoked"
                    /\ request.signature = Signature(request)
                    /\ request.timestamp - options.receivedAt \in -300..300
                    /\ \A r \in changed \ {request} : ~Accepts(r, options)
                    /\ \A k \in keyIds : Accepts(Named(k), options) =>
                            options.keys[k].secret = options.keys[request.keyId].secret
  BY Zenon DEF OnlyTheSignedRequest
<1>1. /\ Header(request, "signature") /\ Header(request, "timestamp") /\ Header(request, "keyId")
      /\ options.deviceStatus \notin {"unknown", "inactive"}
      /\ options.keys[request.keyId].status # "revoked" /\ ~TooOld(options, request.timestamp)
      /\ request.signature.wellFormed /\ request.signature = Signature(request)
  BY AcceptedRequest
<1>2. request.timestamp - options.receivedAt \in -300..300
  <2>1. request.timestamp \in Int /\ options.receivedAt \in Int
    BY <1>1
  <2>2. ~(Distance(options.receivedAt, request.timestamp) > 300)
    BY <1>1 DEF TooOld, REFERENCE_VENDOR_SIGNATURE_MAX_AGE_SECONDS
  <2> QED
    BY <2>1, <2>2 DEF Distance
<1>3. \A r : Accepts(r, options) => r.signature = Signature(r) /\ r.signature.wellFormed
  BY AcceptedRequest
<1> HIDE DEF Signature
<1>4. ASSUME NEW b \in bodies, Accepts(WithBody(b), options)
      PROVE  WithBody(b) = request
  <2>1. WithBody(b).signature = request.signature
    OBVIOUS
  <2>2. Signature(WithBody(b)) = Signature(request)
    BY <1>1, <1>3, <1>4, <2>1
  <2>3. WithBody(b).body = request.body
    BY <2>2, SignaturesTellApart DEF Signature
  <2>4. "body" \in DOMAIN request => b = request.body
    BY <2>3
  <2> QED
    BY <2>4
<1>5. ASSUME NEW t \in times, Accepts(At(t), options)
      PROVE  At(t) = request
  <2>1. At(t).signature = request.signature
    OBVIOUS
  <2>2. Signature(At(t)) = Signature(request)
    BY <1>1, <1>3, <1>5, <2>1
  <2>3. At(t).timestamp = request.timestamp
    BY <2>2, SignaturesTellApart DEF Signature
  <2>4. "timestamp" \in DOMAIN request => t = request.timestamp
    BY <2>3
  <2> QED
    BY <2>4
<1>6. ~Accepts(Unsigned, options)
  <2>1. Unsigned.signature = Malformed
    BY <1>1 DEF Header
  <2>2. ~Unsigned.signature.wellFormed
    BY <2>1 DEF Malformed
  <2> HIDE DEF Unsigned
  <2> QED
    BY <1>3, <2>2
<1>7. ASSUME NEW k \in keyIds, Accepts(Named(k), options)
      PROVE  options.keys[k].secret = options.keys[request.keyId].secret
  <2>1. Named(k).signature = request.signature /\ Named(k).keyId = k
    BY <1>1 DEF Header
  <2>2. Signature(Named(k)) = Signature(request)
    BY <1>1, <1>3, <1>7, <2>1
  <2> QED
    BY <2>1, <2>2, SignaturesTellApart DEF Signature
<1>8. \A r \in changed \ {request} : ~Accepts(r, options)
  <2> HIDE DEF WithBody, At, Unsigned
  <2> QED
    BY <1>4, <1>5, <1>6
<1> HIDE DEF changed
<1> QED
  BY <1>1, <1>2, <1>7, <1>8

\* The parts of the canonical event of a vendor: those that are copied from the
\* event when it has them, and those that are always there.
VendorPosition(e) ==
    [f \in {"latitude", "longitude", "accuracyMeters", "speedMetersPerSecond", "headingDegrees"} |->
        Get(Get(e, "location"), f)]
NamedHealth(e) ==
    [f \in {"heartbeat", "batteryPercent", "externalPower", "gpsFix", "gsmSignalDbm"} |-> Get(Get(e, "health"), f)]
VendorHealth(e) == [NamedHealth(e) EXCEPT !.heartbeat = IF Missing(@) THEN Bool(TRUE) ELSE @]
VendorCopied(e, device) ==
    [stream |-> IF Missing(Get(e, "streamEpoch")) THEN Absent
                ELSE Rec([epoch |-> Get(e, "streamEpoch"), sequence |-> Get(e, "sequence")]),
     position |-> IF Missing(Get(e, "location")) THEN Absent ELSE Rec(VendorPosition(e)),
     health |-> IF Missing(Get(e, "health")) THEN Absent ELSE Rec(VendorHealth(e)),
     observations |-> IF Missing(Get(e, "observations")) THEN Absent ELSE List(VendorObservations(e, device))]
VendorIdentity(e, device) == Digest(<<"vendor_event_id", device, Get(e, "eventId").name>>)
VendorProvenance(e, device) ==
    [source |-> Txt("simulator", 9), synthetic |-> Bool(TRUE),
     normalizationVersion |-> REFERENCE_VENDOR_ADAPTER_VERSION,
     rawPayloadHash |-> Digest(e), canonicalPayloadHash |-> Digest(Hashed(e, device))]
VendorAlways(e, device, receivedAt) ==
    [contractVersion |-> Txt("1", 1), canonicalEventId |-> VendorIdentity(e, device),
     idempotencyIdentity |-> VendorIdentity(e, device),
     vendorEventId |-> Get(e, "eventId"), deviceExternalId |-> device,
     authenticatedDeviceExternalId |-> device,
     adapter |-> Rec([id |-> REFERENCE_VENDOR_ADAPTER_ID, version |-> REFERENCE_VENDOR_ADAPTER_VERSION]),
     capturedAt |-> Get(e, "capturedAt"), receivedAt |-> Stamp(receivedAt), normalizedAt |-> Stamp(receivedAt),
     observedClockOffsetMs |-> Num(receivedAt - Get(e, "capturedAt").at),
     quality |-> IF Missing(Get(e, "location")) THEN Txt("degraded", 8) ELSE Txt("valid", 5),
     provenance |-> Rec(VendorProvenance(e, device))]
VendorPresent(e, device) == {f \in DOMAIN VendorCopied(e, device) : ~Missing(VendorCopied(e, device)[f])}
VendorFields(e, device, receivedAt) ==
    [f \in DOMAIN VendorAlways(e, device, receivedAt) \cup VendorPresent(e, device) |->
        IF f \in VendorPresent(e, device) THEN VendorCopied(e, device)[f]
        ELSE VendorAlways(e, device, receivedAt)[f]]

LEMMA VendorEventIs ==
    ASSUME NEW e, NEW device, NEW receivedAt
    PROVE  CanonicalVendorEvent(e, device, receivedAt) = Rec(VendorFields(e, device, receivedAt))
<1> DEFINE always == VendorAlways(e, device, receivedAt)
           copied == VendorCopied(e, device)
           present == {f \in DOMAIN copied : ~Missing(copied[f])}
<1>1. CanonicalVendorEvent(e, device, receivedAt) = Rec(Spread(always, [f \in present |-> copied[f]]))
  BY Zenon DEF CanonicalVendorEvent, VendorAlways, VendorCopied, VendorIdentity, VendorProvenance, VendorPosition,
     VendorHealth, NamedHealth
<1> HIDE DEF always, copied
<1>2. Spread(always, [f \in present |-> copied[f]])
      = [f \in DOMAIN always \cup present |-> IF f \in present THEN copied[f] ELSE always[f]]
  BY DEF Spread
<1>3. VendorFields(e, device, receivedAt)
      = [f \in DOMAIN always \cup present |-> IF f \in present THEN copied[f] ELSE always[f]]
  BY Zenon DEF VendorFields, VendorPresent, always, copied
<1> QED
  BY <1>1, <1>2, <1>3

LEMMA VendorPartNames ==
    ASSUME NEW e, NEW device, NEW receivedAt
    PROVE  /\ DOMAIN VendorAlways(e, device, receivedAt)
              = {"contractVersion", "canonicalEventId", "idempotencyIdentity", "vendorEventId", "deviceExternalId",
                 "authenticatedDeviceExternalId", "adapter", "capturedAt", "receivedAt", "normalizedAt",
                 "observedClockOffsetMs", "quality", "provenance"}
           /\ DOMAIN VendorCopied(e, device) = {"stream", "position", "health", "observations"}
BY DEF VendorAlways, VendorCopied

\* Each field of the canonical event.
LEMMA VendorEventHas ==
    ASSUME NEW e, NEW device, NEW receivedAt, NEW event, event = CanonicalVendorEvent(e, device, receivedAt)
    PROVE  /\ event.type = "record" /\ event.fields = VendorFields(e, device, receivedAt)
           /\ \A f \in DOMAIN VendorAlways(e, device, receivedAt) :
                  Get(event, f) = VendorAlways(e, device, receivedAt)[f]
           /\ \A f \in DOMAIN VendorCopied(e, device) : Get(event, f) = VendorCopied(e, device)[f]
           /\ \A f : f \notin DOMAIN VendorAlways(e, device, receivedAt) \cup DOMAIN VendorCopied(e, device) =>
                  Get(event, f) = Absent
<1> DEFINE always == VendorAlways(e, device, receivedAt)
           copied == VendorCopied(e, device)
           present == VendorPresent(e, device)
           fields == VendorFields(e, device, receivedAt)
<1>1. event = Rec(fields)
  BY VendorEventIs
<1>2. DOMAIN always \cap DOMAIN copied = {}
  BY VendorPartNames
<1>3. present = {f \in DOMAIN copied : ~Missing(copied[f])}
  BY DEF VendorPresent
<1>4. fields = [f \in DOMAIN always \cup present |-> IF f \in present THEN copied[f] ELSE always[f]]
  BY Zenon DEF VendorFields
<1>5. \A f \in DOMAIN copied : Missing(copied[f]) => copied[f] = Absent
  <2>1. \A r : Rec(r).type = "record" /\ List(r).type = "list"
    BY DEF Rec, List
  <2>2. /\ copied["stream"] = Absent \/ \E r : copied["stream"] = Rec(r)
        /\ copied["position"] = Absent \/ \E r : copied["position"] = Rec(r)
        /\ copied["health"] = Absent \/ \E r : copied["health"] = Rec(r)
        /\ copied["observations"] = Absent \/ \E r : copied["observations"] = List(r)
    BY DEF VendorCopied
  <2>3. DOMAIN copied = {"stream", "position", "health", "observations"}
    BY VendorPartNames
  <2> HIDE DEF copied
  <2> QED
    BY <2>1, <2>2, <2>3 DEF Missing
<1> HIDE DEF always, copied, present, fields
<1>6. event.type = "record" /\ event.fields = fields
  BY <1>1, GetOfRec
<1>7. \A f \in DOMAIN always : Get(event, f) = always[f]
  BY <1>2, <1>3, <1>4, <1>6 DEF Get
<1>8. \A f \in DOMAIN copied : Get(event, f) = copied[f]
  BY <1>2, <1>3, <1>4, <1>5, <1>6 DEF Get
<1>9. \A f : f \notin DOMAIN always \cup DOMAIN copied => Get(event, f) = Absent
  BY <1>3, <1>4, <1>6 DEF Get
<1> QED
  BY <1>6, <1>7, <1>8, <1>9 DEF always, copied, fields

\* The answer of normalize, and what held when it was "ok".
LEMMA VendorNormalized ==
    ASSUME NEW e, NEW device, NEW receivedAt, normalize(e, device, receivedAt).reason = "ok"
    PROVE  /\ validateReferenceVendorEventV1(e) /\ Get(e, "deviceId") = device
           /\ Identifiable(e) /\ EventIssues(CanonicalVendorEvent(e, device, receivedAt)) = {}
           /\ normalize(e, device, receivedAt).event = CanonicalVendorEvent(e, device, receivedAt)
<1>1. \A reason \in {"canonical_event_invalid", "device_vehicle_link_invalid", "event_identity_invalid"} :
          Rejected(reason).reason # "ok"
  BY DEF Rejected
<1>2. /\ validateReferenceVendorEventV1(e) /\ Get(e, "deviceId") = device
      /\ ~(~Canonicalizes(e) \/ ~Canonicalizes(Hashed(e, device))) /\ Identifiable(e)
      /\ EventIssues(CanonicalVendorEvent(e, device, receivedAt)) = {}
  BY <1>1, Zenon DEF normalize
<1>3. normalize(e, device, receivedAt) = [reason |-> "ok", event |-> CanonicalVendorEvent(e, device, receivedAt)]
  BY <1>2, Zenon DEF normalize
<1> QED
  BY <1>2, <1>3

\* What was observed keeps its metric, value and unit, and the time of the event.
LEMMA VendorObservationFields ==
    ASSUME NEW raw, NEW capturedAt, NEW device, NEW o, o = normalizeObservation(raw, capturedAt, device)
    PROVE  /\ o.type = "record" /\ Get(o, "metric") = Get(raw, "metric") /\ Get(o, "value") = Get(raw, "value")
           /\ Get(o, "unit") = Get(raw, "unit") /\ Get(o, "capturedAt") = capturedAt
<1> DEFINE metric == Get(raw, "metric")
           unit == Get(raw, "unit")
           value == Get(raw, "value")
           fields == [contractVersion |-> Txt("1", 1), capturedAt |-> capturedAt, deviceExternalId |-> device,
                      source |-> Txt("simulator", 9), normalizationVersion |-> REFERENCE_VENDOR_ADAPTER_VERSION,
                      quality |-> Txt("good", 4), synthetic |-> Bool(TRUE),
                      metric |-> metric, value |-> value, unit |-> unit]
<1>1. o = Rec(fields)
  BY Zenon DEF normalizeObservation
<1>2. /\ {"metric", "value", "unit", "capturedAt"} \subseteq DOMAIN fields
      /\ fields["metric"] = metric /\ fields["value"] = value /\ fields["unit"] = unit
      /\ fields["capturedAt"] = capturedAt
  OBVIOUS
<1> HIDE DEF fields, metric, unit, value
<1>3. /\ Get(o, "metric") = metric /\ Get(o, "value") = value /\ Get(o, "unit") = unit
      /\ Get(o, "capturedAt") = capturedAt /\ o.type = "record"
  BY <1>1, <1>2, GetOfRec
<1> QED
  BY <1>3 DEF metric, unit, value

\* The observations of a valid event are a sequence, one for each that was sent.
LEMMA VendorObservationsOf ==
    ASSUME NEW e, NEW device, Json(e), validateReferenceVendorEventV1(e), ~Missing(Get(e, "observations"))
    PROVE  LET raw == Get(e, "observations").items
               os == VendorObservations(e, device)
           IN  /\ Get(e, "observations").type = "list" /\ IsList(Get(e, "observations"))
               /\ Len(raw) \in 0..16 /\ DOMAIN raw = 1..Len(raw) /\ Len(os) = Len(raw) /\ DOMAIN os = 1..Len(raw)
               /\ \A i \in 1..Len(raw) : /\ validObservation(raw[i]) /\ Shape(raw[i])
                                         /\ Shape(Get(raw[i], "value"))
                                         /\ os[i] = normalizeObservation(raw[i], Get(e, "capturedAt"), device)
<1> DEFINE l == Get(e, "observations")
           raw == l.items
           os == VendorObservations(e, device)
<1>1. /\ l.type = "list" /\ Len(raw) <= REFERENCE_VENDOR_MAX_OBSERVATIONS
      /\ \A i \in 1..Len(raw) : validObservation(raw[i])
  BY Zenon DEF validateReferenceVendorEventV1
<1>2. e.type = "record"
  BY DEF validateReferenceVendorEventV1, Exact
<1>3. l \in Inside(e)
  BY <1>2, GetIsInside, AbsentIsAbsent DEF Missing
<1>4. Shape(l)
  BY <1>3 DEF Json
<1>5. Len(raw) \in Nat /\ DOMAIN raw = 1..Len(raw)
  BY <1>1, <1>4, ShapeFields
<1>6. IsList(l)
  <2>1. \A f : Rec(f).type = "record"
    BY DEF Rec
  <2> QED
    BY <1>1, <1>4, <2>1, AbsentIsAbsent DEF Shape, IsText, IsNumber, IsRecord
<1>7. ASSUME NEW i \in 1..Len(raw)
      PROVE  Shape(raw[i]) /\ Shape(Get(raw[i], "value"))
  <2>1. raw[i] \in Inside(l)
    BY <1>1, <1>5 DEF Inside
  <2>2. Shape(raw[i]) /\ raw[i].type = "record"
    BY <1>1, <1>3, <2>1 DEF Json, validObservation, Exact
  <2>3. Get(raw[i], "value") = Absent \/ Get(raw[i], "value") \in Inside(raw[i])
    BY <2>2, GetIsInside
  <2> HIDE DEF raw, l
  <2> QED
    BY <1>3, <2>1, <2>2, <2>3 DEF Json, Shape
<1>8. os = [i \in 1..Len(raw) |-> normalizeObservation(raw[i], Get(e, "capturedAt"), device)]
  BY Zenon DEF VendorObservations
<1>9. Len(os) = Len(raw) /\ DOMAIN os = 1..Len(raw)
  <2> HIDE DEF raw, os
  <2> QED
    BY <1>5, <1>8
<1>10. \A i \in 1..Len(raw) : os[i] = normalizeObservation(raw[i], Get(e, "capturedAt"), device)
  BY <1>8
<1> HIDE DEF l, raw, os
<1>11. Len(raw) \in 0..16
  <2>1. Len(raw) <= 16
    BY <1>1 DEF REFERENCE_VENDOR_MAX_OBSERVATIONS
  <2>2. \A n \in Nat : n <= 16 => n \in 0..16
    OBVIOUS
  <2> QED
    BY <1>5, <2>1, <2>2, Zenon
<1> QED
  BY <1>1, <1>5, <1>6, <1>7, <1>9, <1>10, <1>11 DEF l, raw, os

\* Whatever JSON the vendor sends, an event that normalises is one that the
\* database function and its tables take, if and only if PostgreSQL has values
\* for its instant and its texts.
LEMMA VendorEventIsStorable ==
    ASSUME NEW e, Json(e), NEW device, NEW receivedAt \in Nat, normalize(e, device, receivedAt).reason = "ok"
    PROVE  StoreAccepts(StoreParameters(CanonicalVendorEvent(e, device, receivedAt))) <=> HoldsVendorEvent(e)
<1> DEFINE event == CanonicalVendorEvent(e, device, receivedAt)
           p == StoreParameters(event)
           location == Get(e, "location")
           health == Get(e, "health")
<1>1. validateReferenceVendorEventV1(e) /\ Identifiable(e) /\ EventIssues(event) = {}
  BY VendorNormalized
<1>2. e.type = "record"
  BY <1>1 DEF validateReferenceVendorEventV1, Exact
<1>3. /\ \A f : Shape(Get(e, f))
      /\ \A f, g : Get(e, f).type = "record" => Shape(Get(Get(e, f), g))
  BY <1>2, JsonShapes
<1>4. /\ safeText(Get(e, "eventId"), 128)
      /\ Missing(Get(e, "sequence")) \/ Natural(Get(e, "sequence"))
      /\ Missing(Get(e, "streamEpoch")) \/ (safeText(Get(e, "streamEpoch"), 128) /\ ~Missing(Get(e, "sequence")))
      /\ Missing(location) \/ validPosition(location)
      /\ Missing(health) \/ validHealth(health)
  BY <1>1, Zenon DEF validateReferenceVendorEventV1
<1>5. /\ event.type = "record"
      /\ \A f \in DOMAIN VendorAlways(e, device, receivedAt) : Get(event, f) = VendorAlways(e, device, receivedAt)[f]
      /\ \A f \in DOMAIN VendorCopied(e, device) : Get(event, f) = VendorCopied(e, device)[f]
      /\ \A f : f \notin DOMAIN VendorAlways(e, device, receivedAt) \cup DOMAIN VendorCopied(e, device) =>
             Get(event, f) = Absent
  BY VendorEventHas
<1> HIDE DEF event
<1>6. /\ Get(event, "idempotencyIdentity") = VendorIdentity(e, device)
      /\ Get(event, "vendorEventId") = Get(e, "eventId") /\ Get(event, "capturedAt") = Get(e, "capturedAt")
      /\ Get(event, "quality") = (IF Missing(location) THEN Txt("degraded", 8) ELSE Txt("valid", 5))
      /\ Get(event, "provenance") = Rec(VendorProvenance(e, device))
      /\ Get(event, "clientEventId") = Absent
      /\ Get(event, "receivedAt") = Stamp(receivedAt) /\ Get(event, "normalizedAt") = Stamp(receivedAt)
  <2>1. /\ VendorAlways(e, device, receivedAt)["idempotencyIdentity"] = VendorIdentity(e, device)
        /\ VendorAlways(e, device, receivedAt)["receivedAt"] = Stamp(receivedAt)
        /\ VendorAlways(e, device, receivedAt)["normalizedAt"] = Stamp(receivedAt)
        /\ VendorAlways(e, device, receivedAt)["vendorEventId"] = Get(e, "eventId")
        /\ VendorAlways(e, device, receivedAt)["capturedAt"] = Get(e, "capturedAt")
        /\ VendorAlways(e, device, receivedAt)["quality"]
           = (IF Missing(location) THEN Txt("degraded", 8) ELSE Txt("valid", 5))
        /\ VendorAlways(e, device, receivedAt)["provenance"] = Rec(VendorProvenance(e, device))
    BY DEF VendorAlways
  <2> QED
    BY <1>5, <2>1, VendorPartNames
<1>7. /\ Get(event, "stream") = (IF Missing(Get(e, "streamEpoch")) THEN Absent
                                 ELSE Rec([epoch |-> Get(e, "streamEpoch"), sequence |-> Get(e, "sequence")]))
      /\ Get(event, "position") = (IF Missing(location) THEN Absent ELSE Rec(VendorPosition(e)))
      /\ Get(event, "health") = (IF Missing(health) THEN Absent ELSE Rec(VendorHealth(e)))
      /\ Get(event, "observations") = (IF Missing(Get(e, "observations")) THEN Absent
                                       ELSE List(VendorObservations(e, device)))
  <2>1. /\ VendorCopied(e, device)["stream"]
           = (IF Missing(Get(e, "streamEpoch")) THEN Absent
              ELSE Rec([epoch |-> Get(e, "streamEpoch"), sequence |-> Get(e, "sequence")]))
        /\ VendorCopied(e, device)["position"] = (IF Missing(location) THEN Absent ELSE Rec(VendorPosition(e)))
        /\ VendorCopied(e, device)["health"] = (IF Missing(health) THEN Absent ELSE Rec(VendorHealth(e)))
        /\ VendorCopied(e, device)["observations"]
           = (IF Missing(Get(e, "observations")) THEN Absent ELSE List(VendorObservations(e, device)))
    BY DEF VendorCopied
  <2> QED
    BY <1>5, <2>1, VendorPartNames
<1>8. Get(Get(event, "provenance"), "normalizationVersion") = REFERENCE_VENDOR_ADAPTER_VERSION
  <2>1. /\ "normalizationVersion" \in DOMAIN VendorProvenance(e, device)
        /\ VendorProvenance(e, device)["normalizationVersion"] = REFERENCE_VENDOR_ADAPTER_VERSION
    BY DEF VendorProvenance
  <2> QED
    BY <1>6, <2>1, GetOfRec
<1>9. /\ Get(event, "position").type # "absent" => PositionIssues(Get(event, "position")) = {}
      /\ Get(event, "health").type # "absent" => HealthIssues(Get(event, "health")) = {}
      /\ Get(event, "observations").type # "absent" => ObservationListIssues(Get(event, "observations")) = {}
  BY <1>1, <1>5, CleanEvent
<1>10. /\ \A f \in DOMAIN PositionRanges :
              p[f] = IF Get(event, "position").type = "absent" THEN Absent ELSE Get(Get(event, "position"), f)
       /\ p.batteryPercent = (IF Get(event, "health").type = "absent" THEN Absent
                              ELSE Get(Get(event, "health"), "batteryPercent"))
       /\ p.gsmSignalDbm = (IF Get(event, "health").type = "absent" THEN Absent
                            ELSE Get(Get(event, "health"), "gsmSignalDbm"))
       /\ p.firmwareVersion = (IF Get(event, "health").type = "absent" THEN Absent
                               ELSE Get(Get(event, "health"), "firmwareVersion"))
       /\ p.gpsFix = (IF Get(event, "health").type = "absent" THEN Absent ELSE Get(Get(event, "health"), "gpsFix"))
  BY Parameters, Zenon
<1>11. /\ p.stream_epoch = (IF Get(event, "stream").type = "absent" THEN Absent ELSE Get(Get(event, "stream"), "epoch"))
       /\ p.sequence = (IF Get(event, "stream").type = "absent" THEN Absent
                        ELSE Get(Get(event, "stream"), "sequence"))
       /\ p.idempotency_identity = Get(event, "idempotencyIdentity")
       /\ p.client_event_id = (IF Get(event, "clientEventId").type # "absent"
                               THEN Get(event, "clientEventId") ELSE Get(event, "vendorEventId"))
       /\ p.captured_at = Get(event, "capturedAt").at /\ p.received_at = Get(event, "receivedAt").at
       /\ p.normalized_at = Get(event, "normalizedAt").at /\ p.quality = Get(event, "quality").name
       /\ p.processing_version = Get(Get(event, "provenance"), "normalizationVersion")
       /\ p.observations = (IF Get(event, "observations").type = "absent" THEN <<>>
                            ELSE Get(event, "observations").items)
  BY Parameters, Zenon
<1> HIDE DEF p, location, health
<1>12. /\ Absent.type = "absent" /\ \A r : Rec(r).type = "record" /\ List(r).type = "list" /\ List(r).items = r
       /\ \A n, m : Txt(n, m).type = "text" /\ Txt(n, m).length = m /\ Txt(n, m).name = n
  BY DEF Txt, Absent, Rec, List
<1>13. TextWithin(p.idempotency_identity, 1, 256) /\ TextWithin(p.client_event_id, 1, 128)
  <2>1. p.idempotency_identity.length = 64 /\ p.client_event_id = Get(e, "eventId")
    BY <1>6, <1>11, <1>12 DEF VendorIdentity, Digest
  <2>2. p.idempotency_identity.type = "text"
    BY <1>6, <1>11, <1>12 DEF VendorIdentity, Digest
  <2>3. Get(e, "eventId").type = "text" /\ Get(e, "eventId").length \in Nat /\ Get(e, "eventId").length <= 128
        /\ Get(e, "eventId").length > 0
    BY <1>1, <1>3, <1>4, ShapeFields DEF safeText, Identifiable, Missing
  <2> QED
    BY <2>1, <2>2, <2>3 DEF TextWithin
<1>14. /\ TextWithin(p.stream_epoch, 1, 128)
       /\ (p.stream_epoch.type = "absent") <=> (p.sequence.type = "absent")
       /\ p.sequence.type = "absent" \/ p.sequence.num >= 0
  <2>1. CASE Missing(Get(e, "streamEpoch"))
    BY <1>7, <1>11, <1>12, <2>1 DEF TextWithin
  <2>2. CASE ~Missing(Get(e, "streamEpoch"))
    <3> DEFINE fields == [epoch |-> Get(e, "streamEpoch"), sequence |-> Get(e, "sequence")]
    <3>1. Get(event, "stream") = Rec(fields)
      BY <1>7, <2>2
    <3>2. "epoch" \in DOMAIN fields /\ fields["epoch"] = Get(e, "streamEpoch")
          /\ "sequence" \in DOMAIN fields /\ fields["sequence"] = Get(e, "sequence")
      OBVIOUS
    <3> HIDE DEF fields
    <3>3. p.stream_epoch = Get(e, "streamEpoch") /\ p.sequence = Get(e, "sequence")
      BY <1>11, <1>12, <3>1, <3>2, GetOfRec
    <3>4. Get(e, "streamEpoch").type = "text" /\ Get(e, "streamEpoch").length \in Nat
          /\ Get(e, "streamEpoch").length <= 128 /\ Get(e, "streamEpoch").length > 0
      BY <1>1, <1>3, <1>4, <2>2, ShapeFields DEF safeText, Identifiable
    <3> QED
      BY <1>4, <2>2, <3>3, <3>4 DEF TextWithin, Natural, Missing
  <2> QED
    BY <2>1, <2>2
<1>15. p.quality \in {"valid", "degraded", "suspect"} /\ TextWithin(p.processing_version, 1, 32)
  BY <1>6, <1>8, <1>11, <1>12 DEF TextWithin, REFERENCE_VENDOR_ADAPTER_VERSION
<1>16. /\ (p.latitude.type = "absent") <=> (p.longitude.type = "absent")
       /\ \A f \in DOMAIN StoreRanges : Within(p[f], StoreRanges[f])
  <2>1. /\ DOMAIN StoreRanges = DOMAIN PositionRanges /\ "latitude" \in DOMAIN PositionRanges
        /\ "longitude" \in DOMAIN PositionRanges
    BY DEF PositionRanges, StoreRanges
  <2>2. CASE Missing(location)
    <3>1. \A f \in DOMAIN PositionRanges : p[f] = Absent
      BY <1>7, <1>10, <1>12, <2>2
    <3> QED
      BY <1>12, <2>1, <3>1 DEF Within
  <2>3. CASE ~Missing(location)
    <3> DEFINE position == Rec(VendorPosition(e))
    <3>1. Get(event, "position") = position /\ PositionIssues(position) = {}
      BY <1>7, <1>9, <1>12, <2>3
    <3>2. location.type = "record"
      BY <1>4, <2>3 DEF validPosition, Exact
    <3>3. \A f : Get(position, f) = Absent \/ Get(position, f) = Get(location, f)
      <4>1. \A f \in DOMAIN VendorPosition(e) : VendorPosition(e)[f] = Get(location, f)
        BY DEF VendorPosition, location
      <4> QED
        BY <4>1, GetOfRec
    <3>4. \A f : Get(position, f).type = "number" => Get(position, f).num \in Int
      BY <1>3, <1>12, <3>2, <3>3, ShapeFields DEF location
    <3> HIDE DEF position
    <3>5. /\ Get(position, "latitude").type = "number" /\ Get(position, "longitude").type = "number"
          /\ \A f \in DOMAIN StoreRanges : Within(Get(position, f), StoreRanges[f])
      BY <3>1, <3>4, CleanPosition, Zenon
    <3>6. \A f \in DOMAIN PositionRanges : p[f] = Get(position, f)
      BY <1>7, <1>10, <1>12, <2>3, <3>1 DEF position
    <3> QED
      BY <2>1, <3>5, <3>6
  <2> QED
    BY <2>2, <2>3
<1>17. /\ Within(p.batteryPercent, <<0, 100>>) /\ Within(p.gsmSignalDbm, <<-200, 0>>)
       /\ TextWithin(p.firmwareVersion, 0, 64)
       /\ p.gpsFix.type = "absent" \/ OneOf(p.gpsFix, GpsFixes)
  <2>1. CASE Missing(health)
    BY <1>7, <1>10, <1>12, <2>1 DEF Within, TextWithin
  <2>2. CASE ~Missing(health)
    <3> DEFINE shown == Rec(VendorHealth(e))
    <3>1. Get(event, "health") = shown /\ HealthIssues(shown) = {}
      BY <1>7, <1>9, <1>12, <2>2
    <3>2. health.type = "record"
      BY <1>4, <2>2 DEF validHealth, Exact
    <3>3. \A f : Get(shown, f) = Absent \/ Get(shown, f) = Get(health, f) \/ Get(shown, f) = Bool(TRUE)
      <4>1. \A f \in DOMAIN NamedHealth(e) : NamedHealth(e)[f] = Get(health, f)
        BY DEF NamedHealth, health
      <4>2. \A f \in DOMAIN VendorHealth(e) : VendorHealth(e)[f] = NamedHealth(e)[f] \/ VendorHealth(e)[f] = Bool(TRUE)
        BY DEF VendorHealth
      <4>3. DOMAIN VendorHealth(e) = DOMAIN NamedHealth(e)
        BY DEF VendorHealth
      <4>4. \A f \in DOMAIN VendorHealth(e) :
                VendorHealth(e)[f] = Get(health, f) \/ VendorHealth(e)[f] = Bool(TRUE)
        BY <4>1, <4>2, <4>3
      <4>5. \A f : /\ f \in DOMAIN VendorHealth(e) => Get(shown, f) = VendorHealth(e)[f]
                   /\ f \notin DOMAIN VendorHealth(e) => Get(shown, f) = Absent
        BY GetOfRec
      <4> HIDE DEF shown
      <4> QED
        BY <4>4, <4>5, Zenon
    <3>4. Bool(TRUE).type = "boolean"
      BY DEF Bool
    <3>5. /\ \A f : Get(shown, f).type = "number" => Get(shown, f).num \in Int
          /\ \A f : Get(shown, f).type = "text" => Get(shown, f).length \in Nat
      <4>1. /\ \A f : Get(health, f).type = "number" => Get(health, f).num \in Int
            /\ \A f : Get(health, f).type = "text" => Get(health, f).length \in Nat
        BY <1>3, <3>2, ShapeFields DEF health
      <4> HIDE DEF shown, health
      <4> QED
        BY <1>12, <3>3, <3>4, <4>1
    <3> HIDE DEF shown
    <3>6. /\ Within(Get(shown, "batteryPercent"), <<0, 100>>) /\ Within(Get(shown, "gsmSignalDbm"), <<-200, 0>>)
          /\ TextWithin(Get(shown, "firmwareVersion"), 0, 64)
          /\ Get(shown, "gpsFix").type = "absent" \/ OneOf(Get(shown, "gpsFix"), GpsFixes)
      BY <3>1, <3>5, CleanHealth, Zenon
    <3>7. Get(event, "health").type # "absent"
      BY <1>12, <3>1 DEF shown
    <3>8. /\ p.batteryPercent = Get(shown, "batteryPercent") /\ p.gsmSignalDbm = Get(shown, "gsmSignalDbm")
          /\ p.firmwareVersion = Get(shown, "firmwareVersion") /\ p.gpsFix = Get(shown, "gpsFix")
      BY <1>10, <3>1, <3>7
    <3> QED
      BY <3>6, <3>8, Zenon
  <2> QED
    BY <2>1, <2>2
<1>18. Len(p.observations) <= 32 /\ \A i \in 1..Len(p.observations) : StoresObservation(p.observations[i], p)
  <2>1. CASE Missing(Get(e, "observations"))
    <3>1. p.observations = <<>>
      BY <1>7, <1>11, <1>12, <2>1
    <3> QED
      BY <3>1
  <2>2. CASE ~Missing(Get(e, "observations"))
    <3> DEFINE os == VendorObservations(e, device)
               raw == Get(e, "observations").items
               n == Len(raw)
    <3>1. /\ n \in 0..16 /\ Len(os) = n
          /\ \A i \in 1..n : /\ validObservation(raw[i]) /\ Shape(Get(raw[i], "value"))
                             /\ os[i] = normalizeObservation(raw[i], Get(e, "capturedAt"), device)
      BY <1>1, <2>2, VendorObservationsOf
    <3> HIDE DEF os, raw, n
    <3>2. p.observations = os /\ ObservationListIssues(List(os)) = {}
      BY <1>7, <1>9, <1>11, <1>12, <2>2 DEF os
    <3>3. (UNION {Below(<<i>>, ObservationIssues(os[i])) : i \in 1..Len(os)}) = {}
      <4>1. ~(Len(os) > 32)
        BY <3>1
      <4>2. List(os).type = "list" /\ List(os).items = os
        BY <1>12
      <4>3. \A l : l.type = "list" /\ ~(Len(l.items) > 32) =>
                ObservationListIssues(l) = UNION {Below(<<i>>, ObservationIssues(l.items[i])) : i \in 1..Len(l.items)}
        BY Zenon DEF ObservationListIssues
      <4> QED
        BY <3>2, <4>1, <4>2, <4>3, ZenonT(60)
    <3>4. ASSUME NEW i \in 1..n PROVE StoresObservation(os[i], p)
      <4>1. ObservationIssues(os[i]) = {}
        <5>1. Below(<<i>>, ObservationIssues(os[i])) = {}
          BY <3>1, <3>3
        <5> QED
          BY <5>1, NothingBelow
      <4>2. /\ os[i].type = "record" /\ Get(os[i], "metric") = Get(raw[i], "metric")
            /\ Get(os[i], "value") = Get(raw[i], "value") /\ Get(os[i], "capturedAt") = Get(e, "capturedAt")
        BY <3>1, VendorObservationFields
      <4>3. OneOf(Get(os[i], "metric"), DOMAIN Units)
        BY <3>1, <4>2, Zenon DEF validObservation
      <4>4. p.captured_at = Get(os[i], "capturedAt").at
        BY <1>6, <1>11, <4>2
      <4>5. Get(os[i], "value").type = "number" => Get(os[i], "value").num \in Int
        BY <3>1, <4>2, ShapeFields
      <4> QED
        BY <4>1, <4>2, <4>3, <4>4, <4>5, CleanObservation
    <3> QED
      BY <3>1, <3>2, <3>4
  <2> QED
    BY <2>1, <2>2
<1>19. Converts(p) <=> HoldsVendorEvent(e)
  <2>1. p.firmwareVersion = Absent
    <3>1. CASE Missing(health)
      BY <1>7, <1>10, <1>12, <3>1
    <3>2. CASE ~Missing(health)
      <4>1. "firmwareVersion" \notin DOMAIN VendorHealth(e)
        BY DEF VendorHealth, NamedHealth
      <4>2. Get(Rec(VendorHealth(e)), "firmwareVersion") = Absent
        BY <4>1, GetOfRec
      <4> QED
        BY <1>7, <1>10, <1>12, <3>2, <4>2
    <3> QED
      BY <3>1, <3>2
  <2>2. p.client_event_id = Get(e, "eventId")
    BY <1>6, <1>11, <1>12
  <2>3. HoldsText(p.stream_epoch) <=> HoldsText(Get(e, "streamEpoch"))
    <3>1. CASE Missing(Get(e, "streamEpoch"))
      BY <1>7, <1>11, <1>12, <3>1 DEF HoldsText, Missing
    <3>2. CASE ~Missing(Get(e, "streamEpoch"))
      <4> DEFINE fields == [epoch |-> Get(e, "streamEpoch"), sequence |-> Get(e, "sequence")]
      <4>1. Get(event, "stream") = Rec(fields)
        BY <1>7, <3>2
      <4>2. "epoch" \in DOMAIN fields /\ fields["epoch"] = Get(e, "streamEpoch")
        OBVIOUS
      <4> HIDE DEF fields
      <4> QED
        BY <1>11, <1>12, <4>1, <4>2, GetOfRec
    <3> QED
      BY <3>1, <3>2
  <2>4. Stamp(receivedAt).at = receivedAt
    BY DEF Stamp, Txt
  <2>5. p.captured_at = Get(e, "capturedAt").at /\ p.received_at = receivedAt /\ p.normalized_at = receivedAt
    BY <1>6, <1>11, <2>4
  <2>6. HoldsText(Absent)
    BY <1>12 DEF HoldsText
  <2>7. Converts(p) <=> /\ Get(e, "capturedAt").at >= YearOne /\ HoldsText(Get(e, "eventId"))
                        /\ HoldsText(p.stream_epoch) /\ HoldsText(Absent)
    BY <2>1, <2>2, <2>5, ConvertsIs
  <2> QED
    BY <2>3, <2>6, <2>7 DEF HoldsVendorEvent
<1>20. StoreAccepts(p) <=> Converts(p)
  BY <1>13, <1>14, <1>15, <1>16, <1>17, <1>18, Zenon DEF StoreAccepts
<1> QED
  BY <1>19, <1>20 DEF p, event

\* Received later, the event of a vendor is valid or not as it was the first time.
LEMMA VendorRetriesAreAlike ==
    ASSUME NEW e, NEW device, NEW first \in Nat, NEW again \in Nat
    PROVE  EventIssues(CanonicalVendorEvent(e, device, first)) = EventIssues(CanonicalVendorEvent(e, device, again))
<1> DEFINE a == CanonicalVendorEvent(e, device, first)
           b == CanonicalVendorEvent(e, device, again)
           times == {"receivedAt", "normalizedAt", "observedClockOffsetMs"}
           Always(t) == VendorAlways(e, device, t)
           copied == DOMAIN VendorCopied(e, device)
           always == DOMAIN Always(first)
<1>1. /\ a.type = "record" /\ a.fields = VendorFields(e, device, first)
      /\ \A f \in always : Get(a, f) = Always(first)[f]
      /\ \A f \in copied : Get(a, f) = VendorCopied(e, device)[f]
      /\ \A f : f \notin always \cup copied => Get(a, f) = Absent
  BY VendorEventHas
<1>2. /\ DOMAIN Always(first) = DOMAIN Always(again)
      /\ \A f \in DOMAIN Always(first) \ times : Always(first)[f] = Always(again)[f]
  BY DEF VendorAlways
<1>3. /\ b.type = "record" /\ b.fields = VendorFields(e, device, again)
      /\ \A f \in always : Get(b, f) = Always(again)[f]
      /\ \A f \in copied : Get(b, f) = VendorCopied(e, device)[f]
      /\ \A f : f \notin always \cup copied => Get(b, f) = Absent
  BY <1>2, VendorEventHas
<1>4. \A t \in {first, again} : /\ Always(t)["receivedAt"] = Stamp(t) /\ Always(t)["normalizedAt"] = Stamp(t)
                                /\ Always(t)["observedClockOffsetMs"] = Num(t - Get(e, "capturedAt").at)
  BY DEF VendorAlways
<1>5. times \subseteq always
  BY VendorPartNames
<1>6. DOMAIN a.fields = DOMAIN b.fields
  <2>1. \A t : DOMAIN VendorFields(e, device, t) = DOMAIN Always(t) \cup VendorPresent(e, device)
    BY DEF VendorFields
  <2> HIDE DEF a, b, Always
  <2> QED
    BY <1>1, <1>2, <1>3, <2>1
<1> HIDE DEF a, b, Always, copied, always
<1>7. \A f \in EventFields \ times : Get(a, f) = Get(b, f)
  <2> SUFFICES ASSUME NEW f \in EventFields \ times PROVE Get(a, f) = Get(b, f)
    OBVIOUS
  <2>1. CASE f \in always
    BY <1>1, <1>2, <1>3, <2>1 DEF always
  <2>2. CASE f \in copied
    BY <1>1, <1>3, <2>2
  <2>3. CASE f \notin always \cup copied
    BY <1>1, <1>3, <2>3
  <2> QED
    BY <2>1, <2>2, <2>3
<1>8. \A n : Num(n).type = "number"
  BY DEF Num
<1>9. /\ \A f \in {"receivedAt", "normalizedAt"} : /\ TimeIssues(Get(a, f), <<f>>) = {}
                                                   /\ TimeIssues(Get(b, f), <<f>>) = {}
      /\ Get(a, "observedClockOffsetMs").type = "number" /\ Get(b, "observedClockOffsetMs").type = "number"
  <2>1. /\ Get(a, "receivedAt") = Stamp(first) /\ Get(a, "normalizedAt") = Stamp(first)
        /\ Get(b, "receivedAt") = Stamp(again) /\ Get(b, "normalizedAt") = Stamp(again)
        /\ Get(a, "observedClockOffsetMs").type = "number" /\ Get(b, "observedClockOffsetMs").type = "number"
    BY <1>1, <1>3, <1>4, <1>5, <1>8
  <2> QED
    BY <2>1, StampsAreTimes
<1>10. EventIssues(a) = EventIssues(b)
  BY <1>1, <1>3, <1>6, <1>7, <1>9, AlikeButForTimes
<1> QED
  BY <1>10 DEF a, b

\* A valid observation has its three fields and no other.
LEMMA ObservationIsWhole ==
    ASSUME NEW raw, Shape(raw), validObservation(raw)
    PROVE  raw = Rec([f \in {"metric", "value", "unit"} |-> Get(raw, f)])
<1> DEFINE value == Get(raw, "value")
           name == Get(raw, "metric").name
<1>1. /\ Exact(raw, {"metric", "value", "unit"}) /\ OneOf(Get(raw, "metric"), DOMAIN Units)
      /\ OneOf(Get(raw, "unit"), {Units[name]})
      /\ CASE name = "fuel_level" -> Between(value, 0, 100)
           [] name = "temperature" -> value.type = "number"
           [] name = "vibration" -> AtLeast(value, 0)
           [] name = "door_state" -> OneOf(value, DoorStates)
           [] OTHER -> value.type = "boolean"
  BY Zenon DEF validObservation
<1>2. value.type \in {"number", "text", "boolean"}
  <2> HIDE DEF value, name
  <2> QED
    BY <1>1 DEF Between, AtLeast, OneOf
<1>3. \A f \in {"metric", "value", "unit"} : Get(raw, f) # Absent
  BY <1>1, <1>2, AbsentIsAbsent DEF OneOf
<1>4. raw.type = "record" /\ DOMAIN raw.fields = {"metric", "value", "unit"}
  BY <1>1, <1>3 DEF Exact, Get
<1>5. IsRecord(raw)
  <2>1. \A s : List(s).type = "list"
    BY DEF List
  <2> QED
    BY <1>4, <2>1, AbsentIsAbsent DEF Shape, IsText, IsNumber, IsList
<1>6. raw.fields = [f \in {"metric", "value", "unit"} |-> Get(raw, f)]
  BY <1>4, <1>5 DEF IsRecord, Get
<1> QED
  BY <1>5, <1>6 DEF IsRecord

\* A list of observations is what it is normalised to.
LEMMA ObservationsTellApart ==
    ASSUME NEW e, NEW f, NEW device, Json(e), Json(f),
           validateReferenceVendorEventV1(e), validateReferenceVendorEventV1(f),
           VendorObservations(e, device) = VendorObservations(f, device)
    PROVE  (IF Missing(Get(e, "observations")) THEN List(<<>>) ELSE Get(e, "observations"))
           = (IF Missing(Get(f, "observations")) THEN List(<<>>) ELSE Get(f, "observations"))
<1> DEFINE Raw(x) == Get(x, "observations").items
           n == Len(VendorObservations(e, device))
<1>1. ASSUME NEW x, Json(x), validateReferenceVendorEventV1(x), ~Missing(Get(x, "observations"))
      PROVE  /\ Get(x, "observations") = List(Raw(x)) /\ Len(VendorObservations(x, device)) \in Nat
             /\ Raw(x) = [i \in 1..Len(VendorObservations(x, device)) |-> Raw(x)[i]]
             /\ \A i \in 1..Len(VendorObservations(x, device)) :
                    /\ validObservation(Raw(x)[i]) /\ Shape(Raw(x)[i])
                    /\ VendorObservations(x, device)[i] = normalizeObservation(Raw(x)[i], Get(x, "capturedAt"), device)
  <2> DEFINE r == Raw(x)
             m == Len(VendorObservations(x, device))
  <2>1. /\ IsList(Get(x, "observations")) /\ Len(r) \in 0..16 /\ m = Len(r)
        /\ \A i \in 1..Len(r) : /\ validObservation(r[i]) /\ Shape(r[i])
                                /\ VendorObservations(x, device)[i] = normalizeObservation(r[i], Get(x, "capturedAt"), device)
    BY <1>1, VendorObservationsOf
  <2>2. Get(x, "observations") = List(r)
    BY <2>1 DEF IsList
  <2>3. PICK S : r \in Seq(S)
    BY <2>1 DEF IsList
  <2> HIDE DEF r, m
  <2>4. r = [i \in 1..m |-> r[i]] /\ m \in Nat
    BY <2>1, <2>3
  <2> QED
    BY <2>1, <2>2, <2>4 DEF r, m
<1>2. ASSUME NEW x, Json(x), validateReferenceVendorEventV1(x), ~Missing(Get(x, "observations")),
             Len(VendorObservations(x, device)) = 0
      PROVE  Get(x, "observations") = List(<<>>)
  <2>1. /\ Get(x, "observations") = List(Raw(x))
        /\ Raw(x) = [i \in 1..Len(VendorObservations(x, device)) |-> Raw(x)[i]]
    BY <1>1, <1>2
  <2> HIDE DEF Raw
  <2>2. Raw(x) = <<>>
    BY <1>2, <2>1
  <2> QED
    BY <2>1, <2>2
<1>3. \A x : Missing(Get(x, "observations")) => Len(VendorObservations(x, device)) = 0
  BY DEF VendorObservations
<1>4. CASE Missing(Get(e, "observations"))
  BY <1>2, <1>3, <1>4
<1>5. CASE Missing(Get(f, "observations"))
  BY <1>2, <1>3, <1>5
<1>6. CASE ~Missing(Get(e, "observations")) /\ ~Missing(Get(f, "observations"))
  <2>1. /\ Get(e, "observations") = List(Raw(e)) /\ Raw(e) = [i \in 1..n |-> Raw(e)[i]] /\ n \in Nat
        /\ Get(f, "observations") = List(Raw(f)) /\ Raw(f) = [i \in 1..n |-> Raw(f)[i]]
        /\ \A i \in 1..n : /\ validObservation(Raw(e)[i]) /\ Shape(Raw(e)[i])
                           /\ validObservation(Raw(f)[i]) /\ Shape(Raw(f)[i])
                           /\ VendorObservations(e, device)[i]
                              = normalizeObservation(Raw(e)[i], Get(e, "capturedAt"), device)
                           /\ VendorObservations(f, device)[i]
                              = normalizeObservation(Raw(f)[i], Get(f, "capturedAt"), device)
    BY <1>1, <1>6
  <2> HIDE DEF Raw, n
  <2>2. ASSUME NEW i \in 1..n
        PROVE  Raw(e)[i] = Raw(f)[i]
    <3>1. \A g \in {"metric", "value", "unit"} : Get(Raw(e)[i], g) = Get(Raw(f)[i], g)
      BY <2>1, VendorObservationFields
    <3>2. /\ Raw(e)[i] = Rec([g \in {"metric", "value", "unit"} |-> Get(Raw(e)[i], g)])
          /\ Raw(f)[i] = Rec([g \in {"metric", "value", "unit"} |-> Get(Raw(f)[i], g)])
      BY <2>1, ObservationIsWhole
    <3>3. [g \in {"metric", "value", "unit"} |-> Get(Raw(e)[i], g)]
          = [g \in {"metric", "value", "unit"} |-> Get(Raw(f)[i], g)]
      BY <3>1
    <3> QED
      BY <3>2, <3>3
  <2>3. Raw(e) = Raw(f)
    BY <2>1, <2>2
  <2> QED
    BY <1>6, <2>1, <2>3
<1> QED
  BY <1>4, <1>5, <1>6

\* Events with one payload hash say the same.
LEMMA HashesTellApart ==
    ASSUME NEW e, NEW f, NEW device, Json(e), Json(f),
           validateReferenceVendorEventV1(e), validateReferenceVendorEventV1(f),
           Get(e, "deviceId") = device, Get(f, "deviceId") = device,
           Digest(Hashed(e, device)) = Digest(Hashed(f, device))
    PROVE  Says(e) = Says(f)
<1> DEFINE H(x) == [g \in VendorEventParts |->
                       CASE g = "deviceId" -> device [] g = "observations" -> List(VendorObservations(x, device))
                         [] OTHER -> Get(x, g)]
           S(x) == [g \in VendorEventParts |->
                       IF g = "observations" /\ Missing(Get(x, g)) THEN List(<<>>) ELSE Get(x, g)]
<1>1. Hashed(e, device) = Rec(H(e)) /\ Hashed(f, device) = Rec(H(f))
  BY Zenon DEF Hashed
<1>2. H(e) = H(f)
  <2>1. \A x, y : Rec(x) = Rec(y) => x = y
    BY DEF Rec
  <2> HIDE DEF H
  <2> QED
    BY <1>1, <2>1, DigestsTellApart
<1>3. \A x, y : List(x) = List(y) => x = y
  BY DEF List
<1>4. "observations" \in VendorEventParts
  BY DEF VendorEventParts
<1>5. VendorObservations(e, device) = VendorObservations(f, device)
  <2>1. \A x : H(x)["observations"] = List(VendorObservations(x, device))
    BY <1>4
  <2> HIDE DEF H
  <2> QED
    BY <1>2, <1>3, <2>1
<1>6. ASSUME NEW g \in VendorEventParts
      PROVE  S(e)[g] = S(f)[g]
  <2>1. CASE g = "observations"
    <3>1. (IF Missing(Get(e, "observations")) THEN List(<<>>) ELSE Get(e, "observations"))
          = (IF Missing(Get(f, "observations")) THEN List(<<>>) ELSE Get(f, "observations"))
      BY <1>5, ObservationsTellApart
    <3> QED
      BY <2>1, <3>1
  <2>2. CASE g = "deviceId"
    BY <2>2
  <2>3. CASE g \notin {"observations", "deviceId"}
    <3>1. \A x : H(x)[g] = Get(x, g) /\ S(x)[g] = Get(x, g)
      BY <2>3
    <3> HIDE DEF H, S
    <3> QED
      BY <1>2, <3>1
  <2> QED
    BY <2>1, <2>2, <2>3
<1>7. S(e) = S(f)
  BY <1>6
<1> QED
  BY <1>7, Zenon DEF Says

\* Whatever JSON the vendor sends, an event that normalises is one the database
\* stores, exactly if PostgreSQL has values for its instant and its texts; it
\* keeps its identity and its payload hash when it is received again; its
\* position is kept in two states of work only; and events with one hash say
\* the same.
THEOREM VendorEventsAlwaysSound ==
    ASSUME NEW e, Json(e), NEW others, \A f \in others : Json(f), NEW receivedAt \in Nat, NEW again \in Nat
    PROVE  EventsAreSound(e, others, receivedAt, again)
<1> DEFINE first == normalize(e, DEVICE_ID, receivedAt)
           later == normalize(e, DEVICE_ID, again)
           a == CanonicalVendorEvent(e, DEVICE_ID, receivedAt)
           b == CanonicalVendorEvent(e, DEVICE_ID, again)
           Other(f) == normalize(f, DEVICE_ID, again)
           Kept(s) == applyReferenceVendorPrivacyBoundaryV1(first.event, s)
<1>1. first.reason = later.reason
  <2> DEFINE Reason(issues) ==
                 IF ~validateReferenceVendorEventV1(e) THEN "canonical_event_invalid"
                 ELSE IF Get(e, "deviceId") # DEVICE_ID THEN "device_vehicle_link_invalid"
                 ELSE IF ~Canonicalizes(e) \/ ~Canonicalizes(Hashed(e, DEVICE_ID)) THEN "canonical_event_invalid"
                 ELSE IF ~Identifiable(e) THEN "event_identity_invalid"
                 ELSE IF issues # {} THEN "canonical_event_invalid" ELSE "ok"
  <2>1. \A reason : Rejected(reason).reason = reason
    BY DEF Rejected
  <2>2. \A t : normalize(e, DEVICE_ID, t).reason = Reason(EventIssues(CanonicalVendorEvent(e, DEVICE_ID, t)))
    BY <2>1 DEF normalize
  <2> HIDE DEF Reason
  <2> QED
    BY <2>2, VendorRetriesAreAlike
<1>2. ASSUME first.reason = "ok"
      PROVE  /\ StoreAccepts(StoreParameters(first.event)) <=> HoldsVendorEvent(e)
             /\ Get(first.event, "idempotencyIdentity") = Get(later.event, "idempotencyIdentity")
             /\ Hash(first.event) = Hash(later.event)
             /\ \A f \in others : Other(f).reason = "ok" /\ Hash(first.event) = Hash(Other(f).event) => Says(e) = Says(f)
  <2>1. /\ validateReferenceVendorEventV1(e) /\ Get(e, "deviceId") = DEVICE_ID
        /\ first.event = a /\ later.event = b
    BY <1>1, <1>2, VendorNormalized
  <2>2. ASSUME NEW x, NEW t
        PROVE  /\ Get(CanonicalVendorEvent(x, DEVICE_ID, t), "idempotencyIdentity") = VendorIdentity(x, DEVICE_ID)
               /\ Hash(CanonicalVendorEvent(x, DEVICE_ID, t)) = Digest(Hashed(x, DEVICE_ID))
    <3> DEFINE always == VendorAlways(x, DEVICE_ID, t)
               event == CanonicalVendorEvent(x, DEVICE_ID, t)
    <3>1. /\ always["idempotencyIdentity"] = VendorIdentity(x, DEVICE_ID)
          /\ always["provenance"] = Rec(VendorProvenance(x, DEVICE_ID))
          /\ {"idempotencyIdentity", "provenance"} \subseteq DOMAIN always
      BY DEF VendorAlways
    <3>2. \A f \in DOMAIN always : Get(event, f) = always[f]
      BY VendorEventHas
    <3>3. /\ "canonicalPayloadHash" \in DOMAIN VendorProvenance(x, DEVICE_ID)
          /\ VendorProvenance(x, DEVICE_ID)["canonicalPayloadHash"] = Digest(Hashed(x, DEVICE_ID))
      BY DEF VendorProvenance
    <3> HIDE DEF always, event
    <3>4. Get(event, "idempotencyIdentity") = VendorIdentity(x, DEVICE_ID)
          /\ Hash(event) = Digest(Hashed(x, DEVICE_ID))
      BY <3>1, <3>2, <3>3, GetOfRec DEF Hash
    <3> QED
      BY <3>4 DEF event
  <2>3. StoreAccepts(StoreParameters(first.event)) <=> HoldsVendorEvent(e)
    BY <1>2, <2>1, VendorEventIsStorable
  <2>4. ASSUME NEW f \in others, Other(f).reason = "ok", Hash(first.event) = Hash(Other(f).event)
        PROVE  Says(e) = Says(f)
    <3>1. /\ validateReferenceVendorEventV1(f) /\ Get(f, "deviceId") = DEVICE_ID
          /\ Other(f).event = CanonicalVendorEvent(f, DEVICE_ID, again)
      BY <2>4, VendorNormalized
    <3>2. Digest(Hashed(e, DEVICE_ID)) = Digest(Hashed(f, DEVICE_ID))
      BY <2>1, <2>2, <2>4, <3>1
    <3> QED
      BY <2>1, <3>1, <3>2, HashesTellApart
  <2> HIDE DEF first, later, a, b, Other
  <2> QED
    BY <2>1, <2>2, <2>3, <2>4 DEF a, b
<1>3. ASSUME NEW s \in WorkStates, Kept(s).locationPersisted
      PROVE  Kept(s).disposition \in {"accepted_live", "accepted_delayed"} /\ s \in {"active", "delayed_valid"}
  BY <1>3 DEF applyReferenceVendorPrivacyBoundaryV1, WorkStates
<1> HIDE DEF first, later, Other, Kept
<1>4. /\ first.reason = later.reason
      /\ first.reason = "ok" =>
            /\ StoreAccepts(StoreParameters(first.event)) <=> HoldsVendorEvent(e)
            /\ Get(first.event, "idempotencyIdentity") = Get(later.event, "idempotencyIdentity")
            /\ Hash(first.event) = Hash(later.event)
            /\ \A s \in WorkStates : Kept(s).locationPersisted =>
                   Kept(s).disposition \in {"accepted_live", "accepted_delayed"} /\ s \in {"active", "delayed_valid"}
            /\ \A f \in others : Other(f).reason = "ok" /\ Hash(first.event) = Hash(Other(f).event) => Says(e) = Says(f)
  BY <1>1, <1>2, <1>3, Zenon
<1> QED
  BY <1>4, Zenon DEF EventsAreSound, first, later, Other, Kept

(***************************************************************************)
(* Values that are JSON: what the samples of the vendor are made of.       *)
(***************************************************************************)

\* A value with nothing in it, and one with two levels in it at most.
Flat(v) == Shape(v) /\ Inside(v) = {}
Deep(v) == Shape(v) /\ \A b \in Inside(v) : Shape(b) /\ \A c \in Inside(b) : Shape(c)

LEMMA FlatValues ==
    /\ Flat(Absent) /\ \A n, m, k : m \in Nat => Flat(Txt(n, m)) /\ Flat(Odd(Txt(n, m), k))
    /\ \A n \in Int : Flat(Num(n)) /\ Flat(Stamp(n))
    /\ \A b : Flat(Bool(b))
<1>1. Flat(Absent)
  BY DEF Flat, Shape, Inside, Absent
<1>2. ASSUME NEW n, NEW m, NEW k, m \in Nat PROVE Flat(Txt(n, m)) /\ Flat(Odd(Txt(n, m), k))
  <2>1. Txt(n, m).type = "text" /\ Txt(n, m).length = m /\ Txt(n, m).at = NoTime /\ NoTime \in Int
    BY DEF Txt, NoTime
  <2>2. Odd(Txt(n, m), k).type = "text" /\ Odd(Txt(n, m), k).length = m /\ Odd(Txt(n, m), k).at = NoTime
    BY DEF Txt, Odd
  <2> QED
    BY <1>2, <2>1, <2>2 DEF Flat, Shape, Inside, IsText
<1>3. ASSUME NEW n \in Int PROVE Flat(Num(n)) /\ Flat(Stamp(n))
  <2>1. Num(n).type = "number" /\ Num(n).num = n
    BY DEF Num
  <2>2. Stamp(n).type = "text" /\ Stamp(n).length = 24 /\ Stamp(n).at = n
    BY DEF Stamp, Txt
  <2> QED
    BY <1>3, <2>1, <2>2 DEF Flat, Shape, Inside, IsText, IsNumber
<1>4. ASSUME NEW b PROVE Flat(Bool(b))
  <2>1. Bool(b).type = "boolean"
    BY DEF Bool
  <2> QED
    BY <2>1 DEF Flat, Shape, Inside
<1> QED
  BY <1>1, <1>2, <1>3, <1>4

LEMMA FlatIsDeep == \A v : Flat(v) => Deep(v)
  BY DEF Flat, Deep

\* A record of flat values has nothing deeper, and a list of such records neither.
LEMMA RecordsAreDeep ==
    ASSUME NEW fields, fields = [f \in DOMAIN fields |-> fields[f]], \A f \in DOMAIN fields : Flat(fields[f])
    PROVE  Deep(Rec(fields)) /\ \A b \in Inside(Rec(fields)) : Flat(b)
<1>1. Rec(fields).type = "record" /\ Rec(fields).fields = fields
  BY DEF Rec
<1>2. Shape(Rec(fields))
  BY <1>1 DEF Shape, IsRecord
<1>3. \A b \in Inside(Rec(fields)) : Flat(b)
  BY <1>1 DEF Inside
<1> QED
  BY <1>2, <1>3 DEF Deep, Flat

LEMMA ListsAreDeep ==
    ASSUME NEW v, Shape(v), \A b \in Inside(v) : Flat(b)
    PROVE  Deep(List(<<v>>)) /\ Deep(List(<<>>))
<1> DEFINE one == <<v>>
<1>1. DOMAIN one = {1} /\ one[1] = v /\ one \in Seq({v})
  OBVIOUS
<1>2. \A items : List(items).type = "list" /\ List(items).items = items
  BY DEF List
<1>3. <<>> \in Seq({v}) /\ DOMAIN <<>> = {}
  OBVIOUS
<1> HIDE DEF one
<1>4. Shape(List(one)) /\ Shape(List(<<>>))
  BY <1>1, <1>2, <1>3 DEF Shape, IsList
<1>5. Inside(List(one)) = {v} /\ Inside(List(<<>>)) = {}
  BY <1>1, <1>2, <1>3 DEF Inside
<1>6. Deep(List(one)) /\ Deep(List(<<>>))
  BY <1>4, <1>5 DEF Deep, Flat
<1> QED
  BY <1>6 DEF one

LEMMA SpreadIs ==
    ASSUME NEW base, NEW overrides
    PROVE  /\ Spread(base, overrides) = [f \in DOMAIN Spread(base, overrides) |-> Spread(base, overrides)[f]]
           /\ DOMAIN Spread(base, overrides) = DOMAIN base \cup DOMAIN overrides
           /\ \A f \in DOMAIN base \cup DOMAIN overrides :
                  Spread(base, overrides)[f] = IF f \in DOMAIN overrides THEN overrides[f] ELSE base[f]
BY DEF Spread

\* The good event with some fields changed is JSON when the changes are.
LEMMA ChangedEventsAreJson ==
    ASSUME NEW changes, \A f \in DOMAIN changes : Deep(changes[f])
    PROVE  Json(baseEvent(changes))
<1> DEFINE location == [latitude |-> Num(13), longitude |-> Num(78), accuracyMeters |-> Num(8),
                        speedMetersPerSecond |-> Num(5), headingDegrees |-> Num(90)]
           health == [heartbeat |-> Bool(TRUE), batteryPercent |-> Num(88), externalPower |-> Bool(TRUE),
                      gpsFix |-> Txt("three_dimensional", 17), gsmSignalDbm |-> Num(-72)]
           observed == [metric |-> Txt("temperature", 11), value |-> Num(28), unit |-> Txt("celsius", 7)]
           base == [eventId |-> Txt("vendor-event-001", 16), deviceId |-> DEVICE_ID, capturedAt |-> Stamp(420),
                    sequence |-> Num(1), streamEpoch |-> Txt("boot-001", 8),
                    location |-> Rec(location), health |-> Rec(health), observations |-> List(<<Rec(observed)>>),
                    offline |-> Bool(FALSE)]
           all == Spread(base, changes)
           there == {g \in DOMAIN all : ~Missing(all[g])}
<1>1. baseEvent(changes) = Rec([f \in there |-> all[f]])
  BY Zenon DEF baseEvent
<1>2. Deep(Rec(location))
  <2>1. location = [f \in DOMAIN location |-> location[f]] /\ \A f \in DOMAIN location : \E n \in Int : location[f] = Num(n)
    <3>1. /\ DOMAIN location = {"latitude", "longitude", "accuracyMeters", "speedMetersPerSecond", "headingDegrees"}
          /\ location["latitude"] = Num(13) /\ location["longitude"] = Num(78) /\ location["accuracyMeters"] = Num(8)
          /\ location["speedMetersPerSecond"] = Num(5) /\ location["headingDegrees"] = Num(90)
          /\ location = [f \in DOMAIN location |-> location[f]]
      OBVIOUS
    <3> HIDE DEF location
    <3> QED
      BY <3>1
  <2> HIDE DEF location
  <2> QED
    BY <2>1, FlatValues, RecordsAreDeep
<1>3. Deep(Rec(health))
  <2>1. /\ DOMAIN health = {"heartbeat", "batteryPercent", "externalPower", "gpsFix", "gsmSignalDbm"}
        /\ health["heartbeat"] = Bool(TRUE) /\ health["batteryPercent"] = Num(88)
        /\ health["externalPower"] = Bool(TRUE) /\ health["gpsFix"] = Txt("three_dimensional", 17)
        /\ health["gsmSignalDbm"] = Num(-72) /\ health = [f \in DOMAIN health |-> health[f]]
    OBVIOUS
  <2> HIDE DEF health
  <2>3. Flat(Bool(TRUE)) /\ Flat(Num(88)) /\ Flat(Num(-72)) /\ Flat(Txt("three_dimensional", 17))
    <3>1. 88 \in Int /\ -72 \in Int /\ 17 \in Nat
      OBVIOUS
    <3> QED
      BY <3>1, FlatValues, Zenon
  <2>2. \A f \in DOMAIN health : Flat(health[f])
    BY <2>1, <2>3, Zenon
  <2> QED
    BY <2>1, <2>2, RecordsAreDeep
<1>4. Deep(List(<<Rec(observed)>>))
  <2>1. /\ DOMAIN observed = {"metric", "value", "unit"}
        /\ observed["metric"] = Txt("temperature", 11) /\ observed["value"] = Num(28)
        /\ observed["unit"] = Txt("celsius", 7) /\ observed = [f \in DOMAIN observed |-> observed[f]]
    OBVIOUS
  <2> HIDE DEF observed
  <2>2. \A f \in DOMAIN observed : Flat(observed[f])
    BY <2>1, FlatValues
  <2> QED
    BY <2>1, <2>2, RecordsAreDeep, ListsAreDeep DEF Deep
<1>5. \A f \in DOMAIN base : Deep(base[f])
  <2> HIDE DEF location, health, observed
  <2>1. /\ DOMAIN base = {"eventId", "deviceId", "capturedAt", "sequence", "streamEpoch", "location", "health",
                          "observations", "offline"}
        /\ base["eventId"] = Txt("vendor-event-001", 16) /\ base["deviceId"] = DEVICE_ID
        /\ base["capturedAt"] = Stamp(420) /\ base["sequence"] = Num(1) /\ base["streamEpoch"] = Txt("boot-001", 8)
        /\ base["location"] = Rec(location) /\ base["health"] = Rec(health)
        /\ base["observations"] = List(<<Rec(observed)>>) /\ base["offline"] = Bool(FALSE)
    OBVIOUS
  <2>2. /\ Flat(Txt("vendor-event-001", 16)) /\ Flat(DEVICE_ID) /\ Flat(Stamp(420)) /\ Flat(Num(1))
        /\ Flat(Txt("boot-001", 8)) /\ Flat(Bool(FALSE))
    <3>1. 16 \in Nat /\ 29 \in Nat /\ 8 \in Nat /\ 420 \in Int /\ 1 \in Int
      OBVIOUS
    <3> QED
      BY <3>1, FlatValues, Zenon DEF DEVICE_ID
  <2> HIDE DEF base
  <2>3. /\ Deep(base["eventId"]) /\ Deep(base["deviceId"]) /\ Deep(base["capturedAt"]) /\ Deep(base["sequence"])
        /\ Deep(base["streamEpoch"]) /\ Deep(base["offline"])
    BY <2>1, <2>2, FlatIsDeep, ZenonT(60)
  <2>4. Deep(base["location"]) /\ Deep(base["health"]) /\ Deep(base["observations"])
    BY <1>2, <1>3, <1>4, <2>1
  <2> QED
    BY <2>1, <2>3, <2>4, ZenonT(60)
<1> HIDE DEF base
<1>6. \A f \in DOMAIN all : Deep(all[f])
  <2>1. /\ DOMAIN all = DOMAIN base \cup DOMAIN changes
        /\ \A f \in DOMAIN base \cup DOMAIN changes :
               all[f] = IF f \in DOMAIN changes THEN changes[f] ELSE base[f]
    BY SpreadIs, Zenon
  <2> HIDE DEF all
  <2> QED
    BY <1>5, <2>1
<1> HIDE DEF all
<1>7. \A b \in Inside(Rec([f \in there |-> all[f]])) : Deep(b)
  BY <1>6 DEF Inside, Rec
<1> QED
  BY <1>1, <1>7 DEF Json, Deep

\* Whatever the results of a request that has some, what the host acknowledges
\* is an acknowledgement of the contract: its status and its reason say what
\* its counts say.
THEOREM AcknowledgementAlwaysValid ==
    ASSUME NEW S, NEW results \in Seq(S), NEW receipt, ReceiptIssues(receipt) = {}
    PROVE  AcknowledgementIsValid(results, receipt)
<1> SUFFICES ASSUME results # <<>> PROVE AcknowledgementIssues(Acknowledge(results, receipt)) = {}
  BY Zenon DEF AcknowledgementIsValid
<1> DEFINE refused == Refusals(results)
           accepted == Len(results) - refused
           status == IF refused = 0 THEN Txt("accepted", 8)
                     ELSE IF accepted = 0 THEN Txt("rejected", 8) ELSE Txt("partially_accepted", 18)
           reason == IF refused = 0 THEN Txt("processed", 9)
                     ELSE IF accepted = 0 THEN Txt("request_rejected", 16) ELSE Txt("partial_rejection", 17)
           fields == [contractVersion |-> Txt("1", 1), receipt |-> receipt, status |-> status,
                      acceptedCount |-> Num(accepted), rejectedCount |-> Num(refused),
                      retryable |-> Bool(FALSE), reasonCode |-> reason]
           a == Acknowledge(results, receipt)
<1>1. a = Rec(fields)
  BY Zenon DEF Acknowledge
<1>2. refused \in 0..Len(results) /\ Len(results) > 0
  <2>1. Len(results) \in Nat /\ Len(results) # 0
    OBVIOUS
  <2>2. IsFiniteSet(1..Len(results)) /\ Cardinality(1..Len(results)) = Len(results)
    BY <2>1, FS_Interval
  <2>3. {i \in 1..Len(results) : results[i] \in {"rejected", "duplicate_conflict"}} \in SUBSET (1..Len(results))
    OBVIOUS
  <2>4. refused \in Nat /\ refused <= Len(results)
    BY <2>2, <2>3, FS_Subset, FS_CardinalityType DEF Refusals
  <2> QED
    BY <2>1, <2>4
<1>3. /\ DOMAIN fields = {"contractVersion", "receipt", "status", "acceptedCount", "rejectedCount", "retryable",
                          "reasonCode"}
      /\ fields["contractVersion"] = Txt("1", 1) /\ fields["receipt"] = receipt /\ fields["status"] = status
      /\ fields["acceptedCount"] = Num(accepted) /\ fields["rejectedCount"] = Num(refused)
      /\ fields["retryable"] = Bool(FALSE) /\ fields["reasonCode"] = reason
  OBVIOUS
<1> HIDE DEF fields, refused, accepted, status, reason, a
<1>4. /\ a.type = "record" /\ a.fields = fields
      /\ Get(a, "contractVersion") = Txt("1", 1) /\ Get(a, "receipt") = receipt /\ Get(a, "status") = status
      /\ Get(a, "acceptedCount") = Num(accepted) /\ Get(a, "rejectedCount") = Num(refused)
      /\ Get(a, "retryable") = Bool(FALSE) /\ Get(a, "reasonCode") = reason
  <2>1. \A f \in DOMAIN fields : Get(a, f) = fields[f]
    BY <1>1, GetOfRec
  <2>2. a.type = "record" /\ a.fields = fields
    BY <1>1, GetOfRec
  <2> QED
    BY <1>3, <2>1, <2>2
<1>5. \A n, m : Txt(n, m).type = "text" /\ Txt(n, m).name = n
  BY DEF Txt
<1>6. accepted \in Nat /\ refused \in Nat /\ accepted + refused > 0
  BY <1>2 DEF accepted
<1>7. /\ Num(accepted).type = "number" /\ Num(accepted).num = accepted /\ Num(accepted).whole
      /\ Num(refused).type = "number" /\ Num(refused).num = refused /\ Num(refused).whole
      /\ Bool(FALSE).type = "boolean"
  BY DEF Num, Bool
<1>8. /\ status.type = "text" /\ status.name \in {"accepted", "partially_accepted", "rejected"}
      /\ (status.name = "accepted") <=> (refused = 0)
      /\ (status.name = "rejected") <=> (refused # 0 /\ accepted = 0)
      /\ (status.name = "partially_accepted") <=> (refused # 0 /\ accepted # 0)
      /\ reason.type = "text" /\ reason.name \in {"processed", "partial_rejection", "request_rejected"}
  BY <1>5 DEF status, reason
<1> DEFINE Zero(v) == v.type = "number" /\ v.num = 0
           Agree == \/ OneOf(status, {"accepted"}) /\ (~Zero(Num(refused)) \/ Zero(Num(accepted)))
                    \/ OneOf(status, {"partially_accepted"}) /\ (Zero(Num(accepted)) \/ Zero(Num(refused)))
                    \/ OneOf(status, {"rejected"}) /\ ~Zero(Num(accepted))
<1>9. ~Agree
  BY <1>6, <1>7, <1>8 DEF OneOf
<1> HIDE DEF Agree
<1>10. /\ Unexpected(a, {"contractVersion", "receipt", "status", "acceptedCount", "rejectedCount", "retryable",
                         "reasonCode"}) = {}
       /\ VersionIssues(a) = {}
  BY <1>3, <1>4, <1>5 DEF Unexpected, VersionIssues, Issue, OneOf
<1>11. CountIssues(Num(accepted), <<"acceptedCount">>, 0) = {} /\ CountIssues(Num(refused), <<"rejectedCount">>, 0) = {}
  BY <1>6, <1>7 DEF CountIssues, Issue
<1>12. Below(<<"receipt">>, ReceiptIssues(receipt)) = {}
  BY DEF Below
<1>13. /\ Issue(~OneOf(status, {"accepted", "partially_accepted", "rejected"}), <<"status">>, "unsupported") = {}
       /\ Issue(Bool(FALSE).type # "boolean", <<"retryable">>, "invalid_type") = {}
       /\ Issue(Agree, <<"status">>, "invalid_value") = {}
       /\ Optional(reason, Issue(~OneOf(reason, {"processed", "partial_rejection", "request_rejected",
                                                 "temporarily_unavailable"}), <<"reasonCode">>, "unsupported")) = {}
  BY <1>7, <1>8, <1>9 DEF Issue, OneOf, Optional
<1>14. AcknowledgementIssues(a) =
           Unexpected(a, {"contractVersion", "receipt", "status", "acceptedCount", "rejectedCount", "retryable",
                          "reasonCode"})
           \cup VersionIssues(a) \cup Below(<<"receipt">>, ReceiptIssues(Get(a, "receipt")))
           \cup Issue(~OneOf(Get(a, "status"), {"accepted", "partially_accepted", "rejected"}),
                      <<"status">>, "unsupported")
           \cup CountIssues(Get(a, "acceptedCount"), <<"acceptedCount">>, 0)
           \cup CountIssues(Get(a, "rejectedCount"), <<"rejectedCount">>, 0)
           \cup Issue(Get(a, "retryable").type # "boolean", <<"retryable">>, "invalid_type")
           \cup Optional(Get(a, "reasonCode"),
                    Issue(~OneOf(Get(a, "reasonCode"), {"processed", "partial_rejection", "request_rejected",
                                                        "temporarily_unavailable"}), <<"reasonCode">>, "unsupported"))
           \cup Issue(\/ OneOf(Get(a, "status"), {"accepted"})
                         /\ (~Zero(Get(a, "rejectedCount")) \/ Zero(Get(a, "acceptedCount")))
                      \/ OneOf(Get(a, "status"), {"partially_accepted"})
                         /\ (Zero(Get(a, "acceptedCount")) \/ Zero(Get(a, "rejectedCount")))
                      \/ OneOf(Get(a, "status"), {"rejected"}) /\ ~Zero(Get(a, "acceptedCount")),
                      <<"status">>, "invalid_value")
  BY <1>4, Zenon DEF AcknowledgementIssues
<1>15. AcknowledgementIssues(a) = {}
  BY <1>4, <1>10, <1>11, <1>12, <1>13, <1>14, ZenonT(60) DEF Agree
<1> QED
  BY <1>15 DEF a

(***************************************************************************)
(* The decision of the event time, as a result.                            *)
(***************************************************************************)
DecisionReasons == {"authentication_failed", "event_identity_invalid", "device_vehicle_link_invalid",
    "ad_work_assignment_invalid", "work_not_released", "captured_time_invalid", "sequence_replay_invalid",
    "event_time_evidence_ambiguous", "captured_before_work_start", "captured_after_work_end",
    "captured_time_future_skew", "delayed_backfill_expired"}

\* The first evidence that is not valid gives a reason.
LEMMA EvidenceGivesAReason ==
    ASSUME NEW input, ~Window!AllProved(input)
    PROVE  Window!EvidenceReason(input) \in DecisionReasons
<1> DEFINE R == Window!ReasonByEvidence
           Good(i) == input.evidence[R[i][1]] = "valid"
<1>1. /\ Len(R) = 8
      /\ R[1] = <<"authentication", "authentication_failed">> /\ R[2] = <<"eventIdentity", "event_identity_invalid">>
      /\ R[3] = <<"deviceVehicleLink", "device_vehicle_link_invalid">>
      /\ R[4] = <<"adWorkAssignment", "ad_work_assignment_invalid">> /\ R[5] = <<"workRelease", "work_not_released">>
      /\ R[6] = <<"timestamp", "captured_time_invalid">> /\ R[7] = <<"clockOffset", "captured_time_invalid">>
      /\ R[8] = <<"sequenceReplay", "sequence_replay_invalid">>
  BY DEF Window!ReasonByEvidence
<1>2. ~(Good(1) /\ Good(2) /\ Good(3) /\ Good(4) /\ Good(5) /\ Good(6) /\ Good(7) /\ Good(8))
  BY <1>1 DEF Window!AllProved, Window!EvidenceKinds
<1>3. \A i \in 1..8 : R[i][2] \in DecisionReasons
  <2>1. \A i \in 1..8 : i = 1 \/ i = 2 \/ i = 3 \/ i = 4 \/ i = 5 \/ i = 6 \/ i = 7 \/ i = 8
    OBVIOUS
  <2>2. /\ R[1][2] \in DecisionReasons /\ R[2][2] \in DecisionReasons /\ R[3][2] \in DecisionReasons
        /\ R[4][2] \in DecisionReasons /\ R[5][2] \in DecisionReasons /\ R[6][2] \in DecisionReasons
        /\ R[7][2] \in DecisionReasons /\ R[8][2] \in DecisionReasons
    BY <1>1 DEF DecisionReasons
  <2> HIDE DEF R
  <2> QED
    BY <2>1, <2>2
<1> DEFINE First(i) == ~Good(i) /\ \A j \in 1..(i - 1) : Good(j)
<1>4. \E i \in 1..8 : First(i)
  <2> HIDE DEF Good
  <2> QED
    BY <1>2
<1>5. Window!FirstUnproved(input) \in 1..8
  <2>1. Window!FirstUnproved(input) = CHOOSE i \in 1..8 : First(i)
    BY <1>1, Zenon DEF Window!FirstUnproved
  <2> HIDE DEF First
  <2> QED
    BY <1>4, <2>1
<1> HIDE DEF R
<1>6. Window!EvidenceReason(input) \in {R[Window!FirstUnproved(input)][2], "event_time_evidence_ambiguous"}
  BY DEF Window!EvidenceReason, R
<1> QED
  BY <1>3, <1>5, <1>6 DEF DecisionReasons

\* The decision is one of three kinds.
LEMMA DecisionIsOneOfThree ==
    ASSUME NEW input, NEW policy
    PROVE  \/ Window!Decide(input, policy) = Window!AcceptedLive
           \/ Window!Decide(input, policy) = Window!AcceptedDelayed
           \/ \E reason \in DecisionReasons : Window!Decide(input, policy) = Window!Rejected(reason)
<1>1. {"captured_time_invalid", "captured_before_work_start", "captured_after_work_end",
       "captured_time_future_skew", "delayed_backfill_expired"} \subseteq DecisionReasons
  BY DEF DecisionReasons
<1> QED
  BY <1>1, EvidenceGivesAReason DEF Window!Decide

\* A result whose other fields are in order has the issues of its disposition
\* and of the fields nobody expects.
LEMMA IssuesOfAResult ==
    ASSUME NEW r, r.type = "record", OneOf(Get(r, "contractVersion"), {"1"}),
           TextIssues(Get(r, "idempotencyIdentity"), <<"idempotencyIdentity">>, 256) = {},
           Get(r, "clientEventId").type = "absent", OneOf(Get(r, "persistenceStatus"), {"not_attempted"}),
           OneOf(Get(r, "reasonCode"), ProcessingReasons)
    PROVE  ProcessingResultIssues(r) = {} <=>
               /\ DispositionIssues(r) = {}
               /\ DOMAIN r.fields \subseteq ResultFields \cup IF OneOf(Get(r, "disposition"), {"accepted_delayed"})
                                                              THEN {"delayed"} ELSE {}
<1> DEFINE allowed == ResultFields \cup IF OneOf(Get(r, "disposition"), {"accepted_delayed"}) THEN {"delayed"} ELSE {}
<1>1. /\ VersionIssues(r) = {}
      /\ Optional(Get(r, "clientEventId"), TextIssues(Get(r, "clientEventId"), <<"clientEventId">>, 128)) = {}
      /\ Issue(~OneOf(Get(r, "persistenceStatus"), {"not_attempted"}), <<"persistenceStatus">>, "invalid_value") = {}
      /\ Issue(~OneOf(Get(r, "reasonCode"), ProcessingReasons), <<"reasonCode">>, "unsupported") = {}
  BY DEF VersionIssues, Issue, Optional
<1>2. ProcessingResultIssues(r) =
          Unexpected(r, allowed) \cup VersionIssues(r)
          \cup TextIssues(Get(r, "idempotencyIdentity"), <<"idempotencyIdentity">>, 256)
          \cup Optional(Get(r, "clientEventId"), TextIssues(Get(r, "clientEventId"), <<"clientEventId">>, 128))
          \cup Issue(~OneOf(Get(r, "persistenceStatus"), {"not_attempted"}), <<"persistenceStatus">>, "invalid_value")
          \cup Issue(~OneOf(Get(r, "reasonCode"), ProcessingReasons), <<"reasonCode">>, "unsupported")
          \cup DispositionIssues(r)
  BY Zenon DEF ProcessingResultIssues
<1> HIDE DEF allowed
<1>3. ProcessingResultIssues(r) = Unexpected(r, allowed) \cup DispositionIssues(r)
  BY <1>1, <1>2
<1>4. Unexpected(r, allowed) = {} <=> DOMAIN r.fields \subseteq allowed
  BY DEF Unexpected
<1> QED
  BY <1>3, <1>4 DEF allowed

Yes == Bool(TRUE)

\* The fields of a decision with some disposition.
LEMMA FieldsOfAResult ==
    ASSUME NEW decision, NEW d, decision.delayed \in BOOLEAN
    PROVE  LET r == With(ResultOf(decision), "disposition", Txt(d, 16))
           IN  /\ r.type = "record"
               /\ Get(r, "contractVersion") = Txt("1", 1) /\ Get(r, "idempotencyIdentity") = Txt("i", 64)
               /\ Get(r, "clientEventId") = Absent /\ Get(r, "persistenceStatus") = Txt("not_attempted", 13)
               /\ Get(r, "disposition") = Txt(d, 16) /\ Get(r, "reasonCode") = Txt(decision.reasonCode, 32)
               /\ Get(r, "freshness") = Txt(decision.freshness, 16)
               /\ Get(r, "offlineBackfill") = Bool(decision.offlineBackfill)
               /\ Get(r, "quality") = Txt(decision.quality, 8)
               /\ decision.delayed => Get(r, "delayed") = Yes /\ "delayed" \in DOMAIN r.fields
               /\ DOMAIN r.fields \subseteq ResultFields \cup {"delayed"}
               /\ ~decision.delayed => DOMAIN r.fields \subseteq ResultFields
<1> DEFINE fixed == [contractVersion |-> Txt("1", 1), idempotencyIdentity |-> Txt("i", 64),
                     disposition |-> Txt(decision.disposition, 16), reasonCode |-> Txt(decision.reasonCode, 32),
                     freshness |-> Txt(decision.freshness, 16), offlineBackfill |-> Bool(decision.offlineBackfill),
                     quality |-> Txt(decision.quality, 8), persistenceStatus |-> Txt("not_attempted", 13)]
           result == ResultOf(decision)
           r == With(ResultOf(decision), "disposition", Txt(d, 16))
           names == {"contractVersion", "idempotencyIdentity", "disposition", "reasonCode", "freshness",
                     "offlineBackfill", "quality", "persistenceStatus"}
<1>1. /\ DOMAIN fixed = names
      /\ fixed["contractVersion"] = Txt("1", 1) /\ fixed["idempotencyIdentity"] = Txt("i", 64)
      /\ fixed["reasonCode"] = Txt(decision.reasonCode, 32) /\ fixed["freshness"] = Txt(decision.freshness, 16)
      /\ fixed["offlineBackfill"] = Bool(decision.offlineBackfill)
      /\ fixed["quality"] = Txt(decision.quality, 8) /\ fixed["persistenceStatus"] = Txt("not_attempted", 13)
  OBVIOUS
<1>2. result = IF decision.delayed THEN With(Rec(fixed), "delayed", Bool(TRUE)) ELSE Rec(fixed)
  BY Zenon DEF ResultOf
<1> HIDE DEF fixed
<1>3. ASSUME NEW fields, NEW f, NEW v
      PROVE  /\ With(Rec(fields), f, v) = Rec([g \in DOMAIN fields \cup {f} |-> IF g = f THEN v ELSE fields[g]])
  BY DEF With, Rec
<1>4. PICK fields : /\ result = Rec(fields)
                    /\ DOMAIN fields = names \cup (IF decision.delayed THEN {"delayed"} ELSE {})
                    /\ \A f \in names : fields[f] = fixed[f]
                    /\ decision.delayed => fields["delayed"] = Bool(TRUE)
  <2>1. CASE decision.delayed
    <3> DEFINE fields == [g \in DOMAIN fixed \cup {"delayed"} |-> IF g = "delayed" THEN Bool(TRUE) ELSE fixed[g]]
    <3>1. result = Rec(fields)
      <4>1. With(Rec(fixed), "delayed", Bool(TRUE)) = Rec(fields)
        <5>1. Rec(fixed).fields = fixed
          BY GetOfRec
        <5> QED
          BY <5>1 DEF With
      <4> HIDE DEF result, fields
      <4> QED
        BY <1>2, <2>1, <4>1
    <3>2. /\ DOMAIN fields = names \cup {"delayed"} /\ \A f \in names : fields[f] = fixed[f]
          /\ fields["delayed"] = Bool(TRUE)
      BY <1>1
    <3> HIDE DEF fields, result
    <3> QED
      BY <2>1, <3>1, <3>2
  <2>2. CASE ~decision.delayed
    BY <1>1, <1>2, <2>2
  <2> QED
    BY <2>1, <2>2
<1> DEFINE all == [g \in DOMAIN fields \cup {"disposition"} |-> IF g = "disposition" THEN Txt(d, 16) ELSE fields[g]]
<1>5. r = Rec(all)
  BY <1>3, <1>4
<1>6. /\ DOMAIN all = names \cup (IF decision.delayed THEN {"delayed"} ELSE {})
      /\ all["disposition"] = Txt(d, 16)
      /\ \A f \in names \ {"disposition"} : all[f] = fixed[f]
      /\ decision.delayed => all["delayed"] = Bool(TRUE)
  BY <1>4
<1> HIDE DEF all, r
<1>7. /\ r.type = "record" /\ r.fields = all
      /\ \A f \in DOMAIN all : Get(r, f) = all[f]
      /\ \A f : f \notin DOMAIN all => Get(r, f) = Absent
  BY <1>5, GetOfRec
<1>8. names \subseteq DOMAIN all /\ "clientEventId" \notin DOMAIN all
  BY <1>6
<1>9. /\ Get(r, "contractVersion") = Txt("1", 1) /\ Get(r, "idempotencyIdentity") = Txt("i", 64)
      /\ Get(r, "clientEventId") = Absent /\ Get(r, "persistenceStatus") = Txt("not_attempted", 13)
      /\ Get(r, "disposition") = Txt(d, 16) /\ Get(r, "reasonCode") = Txt(decision.reasonCode, 32)
      /\ Get(r, "freshness") = Txt(decision.freshness, 16)
      /\ Get(r, "offlineBackfill") = Bool(decision.offlineBackfill)
      /\ Get(r, "quality") = Txt(decision.quality, 8)
  BY <1>1, <1>6, <1>7, <1>8
<1>10. decision.delayed => Get(r, "delayed") = Yes
  BY <1>6, <1>7 DEF Yes
<1>11. /\ DOMAIN r.fields \subseteq ResultFields \cup {"delayed"}
       /\ ~decision.delayed => DOMAIN r.fields \subseteq ResultFields
  BY <1>6, <1>7 DEF ResultFields
<1>12. decision.delayed => "delayed" \in DOMAIN r.fields
  BY <1>6, <1>7
<1>13. r.type = "record"
  BY <1>7
<1> QED
  BY <1>9, <1>10, <1>11, <1>12, <1>13, Zenon DEF r

\* Whatever an event, its work and the policy say, the decision of its time is a
\* result of the contract under its own disposition and under no other.
THEOREM DecisionAlwaysAResult ==
    ASSUME NEW input, NEW policy
    PROVE  DecisionIsAResult(Window!Decide(input, policy))
<1> DEFINE decision == Window!Decide(input, policy)
<1> SUFFICES ASSUME NEW d \in DOMAIN Expected \cup {"rejected"}
             PROVE  ProcessingResultIssues(With(ResultOf(decision), "disposition", Txt(d, 16))) = {}
                    <=> d = decision.disposition
  BY Zenon DEF DecisionIsAResult
<1> DEFINE r == With(ResultOf(decision), "disposition", Txt(d, 16))
<1>1. \/ /\ decision.disposition = "rejected" /\ decision.reasonCode \in DecisionReasons
         /\ decision.freshness = "not_applicable" /\ decision.delayed = FALSE
         /\ decision.offlineBackfill = FALSE /\ decision.quality = "rejected"
      \/ /\ decision.disposition = "accepted_live" /\ decision.reasonCode = "inside_live_freshness_window"
         /\ decision.freshness = "live" /\ decision.delayed = FALSE
         /\ decision.offlineBackfill = FALSE /\ decision.quality = "valid"
      \/ /\ decision.disposition = "accepted_delayed" /\ decision.reasonCode = "inside_delayed_backfill_window"
         /\ decision.freshness = "degraded_freshness" /\ decision.delayed = TRUE
         /\ decision.offlineBackfill = TRUE /\ decision.quality = "degraded"
  <2>1. CASE decision = Window!AcceptedLive
    BY <2>1 DEF Window!AcceptedLive
  <2>2. CASE decision = Window!AcceptedDelayed
    BY <2>2 DEF Window!AcceptedDelayed
  <2>3. ASSUME NEW reason \in DecisionReasons, decision = Window!Rejected(reason) PROVE <1>1!1
    BY <2>3 DEF Window!Rejected
  <2> QED
    BY <2>1, <2>2, <2>3, DecisionIsOneOfThree
<1> HIDE DEF decision
<1>2. decision.delayed \in BOOLEAN
  BY <1>1
<1>3. /\ r.type = "record"
      /\ Get(r, "contractVersion") = Txt("1", 1) /\ Get(r, "idempotencyIdentity") = Txt("i", 64)
      /\ Get(r, "clientEventId") = Absent /\ Get(r, "persistenceStatus") = Txt("not_attempted", 13)
      /\ Get(r, "disposition") = Txt(d, 16) /\ Get(r, "reasonCode") = Txt(decision.reasonCode, 32)
      /\ Get(r, "freshness") = Txt(decision.freshness, 16)
      /\ Get(r, "offlineBackfill") = Bool(decision.offlineBackfill)
      /\ Get(r, "quality") = Txt(decision.quality, 8)
      /\ decision.delayed => Get(r, "delayed") = Yes /\ "delayed" \in DOMAIN r.fields
      /\ DOMAIN r.fields \subseteq ResultFields \cup {"delayed"}
      /\ ~decision.delayed => DOMAIN r.fields \subseteq ResultFields
  BY <1>2, FieldsOfAResult
<1> HIDE DEF r
<1>4. \A n, m : Txt(n, m).type = "text" /\ Txt(n, m).name = n /\ Txt(n, m).length = m
  BY DEF Txt
<1>5. \A x, y \in BOOLEAN : Bool(x) = Bool(y) <=> x = y
  BY DEF Bool
<1>6. DecisionReasons \cup {"inside_live_freshness_window", "inside_delayed_backfill_window"} \subseteq ProcessingReasons
  BY DEF DecisionReasons, ProcessingReasons, RejectionReasons
<1>7. ProcessingResultIssues(r) = {} <=>
          /\ DispositionIssues(r) = {}
          /\ DOMAIN r.fields \subseteq ResultFields \cup IF d = "accepted_delayed" THEN {"delayed"} ELSE {}
  <2>1. OneOf(Get(r, "contractVersion"), {"1"}) /\ OneOf(Get(r, "persistenceStatus"), {"not_attempted"})
    BY <1>3, <1>4 DEF OneOf
  <2>2. TextIssues(Get(r, "idempotencyIdentity"), <<"idempotencyIdentity">>, 256) = {}
    BY <1>3, <1>4 DEF TextIssues, Issue
  <2>3. Get(r, "clientEventId").type = "absent"
    BY <1>3, AbsentIsAbsent
  <2>4. OneOf(Get(r, "reasonCode"), ProcessingReasons)
    BY <1>1, <1>3, <1>4, <1>6 DEF OneOf
  <2>5. OneOf(Get(r, "disposition"), {"accepted_delayed"}) <=> d = "accepted_delayed"
    BY <1>3, <1>4 DEF OneOf
  <2>6. ProcessingResultIssues(r) = {} <=>
            /\ DispositionIssues(r) = {}
            /\ DOMAIN r.fields \subseteq ResultFields \cup IF OneOf(Get(r, "disposition"), {"accepted_delayed"})
                                                           THEN {"delayed"} ELSE {}
    BY <1>3, <2>1, <2>2, <2>3, <2>4, IssuesOfAResult
  <2> QED
    BY <2>5, <2>6
<1>8. DOMAIN Expected = {"canonicalized", "accepted_live", "accepted_delayed", "health_only", "duplicate",
                         "duplicate_conflict"}
  BY DEF Expected
<1>9. \A n, S, m : OneOf(Txt(n, m), S) <=> n \in S
  BY <1>4 DEF OneOf
<1>17. \A S : /\ OneOf(Get(r, "reasonCode"), S) <=> decision.reasonCode \in S
              /\ OneOf(Get(r, "freshness"), S) <=> decision.freshness \in S
              /\ OneOf(Get(r, "quality"), S) <=> decision.quality \in S
  BY <1>3, <1>9
<1>16. Get(r, "offlineBackfill") = Bool(FALSE) <=> decision.offlineBackfill = FALSE
  BY <1>1, <1>3, <1>5
<1>10. DispositionIssues(r) = {} <=>
          IF d = "rejected"
          THEN decision.freshness = "not_applicable" /\ decision.offlineBackfill = FALSE /\ decision.quality = "rejected"
          ELSE /\ decision.reasonCode = Expected[d].reason /\ decision.freshness = Expected[d].freshness
               /\ Bool(decision.offlineBackfill) = Bool(Expected[d].backfill)
               /\ decision.quality \in Expected[d].qualities
               /\ d = "accepted_delayed" => Get(r, "delayed") = Yes
  <2>1. Get(r, "disposition").name = d
    BY <1>3, <1>4
  <2>2. CASE d = "rejected"
    <3> DEFINE wrong == \/ ~OneOf(Get(r, "freshness"), {"not_applicable"})
                        \/ ~(Get(r, "offlineBackfill") = Bool(FALSE))
                        \/ ~OneOf(Get(r, "quality"), {"rejected"})
    <3>1. OneOf(Get(r, "disposition"), {"rejected"})
      BY <1>3, <1>9, <2>2
    <3>2. DispositionIssues(r) = Issue(wrong, <<"disposition">>, "invalid_value")
      BY <3>1, Zenon DEF DispositionIssues
    <3>3. ~wrong <=> /\ decision.freshness = "not_applicable" /\ decision.offlineBackfill = FALSE
                     /\ decision.quality = "rejected"
      BY <1>16, <1>17
    <3> HIDE DEF wrong
    <3> QED
      BY <2>2, <3>2, <3>3 DEF Issue
  <2>3. CASE d # "rejected"
    <3> DEFINE wrong == \/ ~OneOf(Get(r, "reasonCode"), {Expected[d].reason})
                        \/ ~OneOf(Get(r, "freshness"), {Expected[d].freshness})
                        \/ ~(Get(r, "offlineBackfill") = Bool(Expected[d].backfill))
                        \/ ~OneOf(Get(r, "quality"), Expected[d].qualities)
                        \/ d = "accepted_delayed" /\ Get(r, "delayed") # Yes
    <3>1. OneOf(Get(r, "disposition"), DOMAIN Expected) /\ ~OneOf(Get(r, "disposition"), {"rejected"})
      BY <1>3, <1>9, <2>3
    <3>2. DispositionIssues(r) = Issue(wrong, <<"disposition">>, "invalid_value")
      BY <2>1, <3>1, Zenon DEF DispositionIssues, Yes
    <3>3. ~wrong <=> /\ decision.reasonCode = Expected[d].reason /\ decision.freshness = Expected[d].freshness
                     /\ Bool(decision.offlineBackfill) = Bool(Expected[d].backfill)
                     /\ decision.quality \in Expected[d].qualities
                     /\ d = "accepted_delayed" => Get(r, "delayed") = Yes
      BY <1>3, <1>17
    <3> HIDE DEF wrong
    <3> QED
      BY <2>3, <3>2, <3>3 DEF Issue
  <2> QED
    BY <2>2, <2>3
<1>11. /\ Expected["canonicalized"].reason = "canonical_validation_passed"
       /\ Expected["accepted_live"].reason = "inside_live_freshness_window"
       /\ Expected["accepted_live"].freshness = "live" /\ Expected["accepted_live"].backfill = FALSE
       /\ Expected["accepted_live"].qualities = {"valid", "degraded"}
       /\ Expected["accepted_delayed"].reason = "inside_delayed_backfill_window"
       /\ Expected["accepted_delayed"].freshness = "degraded_freshness" /\ Expected["accepted_delayed"].backfill = TRUE
       /\ Expected["accepted_delayed"].qualities = {"degraded"}
       /\ Expected["health_only"].reason = "outside_active_work_location_discarded"
       /\ Expected["duplicate"].reason = "duplicate_identical_content"
       /\ Expected["duplicate_conflict"].reason = "event_identity_conflict"
  BY DEF Expected
<1>12. \A reason \in DecisionReasons :
           reason \notin {"canonical_validation_passed", "inside_live_freshness_window",
                          "inside_delayed_backfill_window", "outside_active_work_location_discarded",
                          "duplicate_identical_content", "event_identity_conflict"}
  BY DEF DecisionReasons
<1> HIDE DEF Expected, ResultFields
<1>13. "delayed" \notin ResultFields
  BY DEF ResultFields
<1>14. CASE d = decision.disposition
  <2>1. DispositionIssues(r) = {}
    BY <1>1, <1>3, <1>10, <1>11, <1>14
  <2>2. DOMAIN r.fields \subseteq ResultFields \cup IF d = "accepted_delayed" THEN {"delayed"} ELSE {}
    BY <1>1, <1>3, <1>14
  <2> QED
    BY <1>7, <1>14, <2>1, <2>2 DEF r
<1>15. CASE d # decision.disposition
  <2>1. CASE d = "rejected"
    BY <1>1, <1>7, <1>10, <1>15, <2>1 DEF r
  <2>2. CASE d # "rejected"
    <3>1. decision.reasonCode # Expected[d].reason
      BY <1>1, <1>8, <1>11, <1>12, <1>15, <2>2
    <3> QED
      BY <1>7, <1>10, <1>15, <2>2, <3>1 DEF r
  <2> QED
    BY <2>1, <2>2
<1> QED
  BY <1>14, <1>15

(***************************************************************************)
(* Iteration.                                                              *)
(***************************************************************************)

LEMMA NaturalsByInduction ==
    ASSUME NEW T \in SUBSET Nat, 0 \in T, \A n \in T : n + 1 \in T
    PROVE  \A n \in Nat : n \in T
<1> SUFFICES ASSUME Nat \ T # {} PROVE FALSE
  OBVIOUS
<1>1. PICK m \in Nat \ T : \A v \in Nat \ T : <<v, m>> \notin OpToRel(<, Nat)
  <2>1. Nat \ T \in SUBSET Nat
    OBVIOUS
  <2> QED
    BY <2>1, WFMin, NatLessThanWellFounded, Zenon
<1>2. m \in Nat /\ m # 0 /\ m - 1 \in Nat /\ m - 1 < m /\ (m - 1) + 1 = m
  <2>1. m \in Nat /\ m # 0
    BY <1>1, Zenon
  <2> QED
    BY <2>1
<1>3. m - 1 \in T
  <2>1. <<m - 1, m>> \in OpToRel(<, Nat)
    BY <1>2, Zenon DEF OpToRel
  <2> QED
    BY <1>1, <1>2, <2>1
<1> QED
  BY <1>1, <1>2, <1>3

\* A function can be applied again and again.
LEMMA IterationExists ==
    ASSUME NEW S, NEW F \in [S -> S], NEW s \in S
    PROVE  \E f \in [Nat -> S] : f[0] = s /\ \A n \in Nat : n # 0 => f[n] = F[f[n - 1]]
<1> DEFINE Starts(f, m) == f \in [0..m -> S] /\ f[0] = s /\ \A n \in 1..m : f[n] = F[f[n - 1]]
           T == {m \in Nat : \E f : Starts(f, m)}
           start(m) == CHOOSE f : Starts(f, m)
           g == [n \in Nat |-> start(n)[n]]
<1>1. \A m \in Nat : m \in T
  <2>1. 0 \in T
    <3> DEFINE f == [n \in 0..0 |-> s]
    <3>1. Starts(f, 0)
      OBVIOUS
    <3> QED
      BY <3>1
  <2>2. ASSUME NEW m \in T PROVE m + 1 \in T
    <3>1. PICK f : Starts(f, m)
      OBVIOUS
    <3> DEFINE h == [n \in 0..(m + 1) |-> IF n \in 0..m THEN f[n] ELSE F[f[m]]]
    <3>2. m \in Nat /\ m \in 0..m /\ 0 \in 0..m /\ m + 1 \notin 0..m /\ m \in 0..(m + 1) /\ 0 \in 0..(m + 1)
      OBVIOUS
    <3>3. h \in [0..(m + 1) -> S]
      BY <3>1, <3>2
    <3>4. ASSUME NEW n \in 1..(m + 1) PROVE h[n] = F[h[n - 1]]
      <4>1. CASE n \in 1..m
        <5>1. n \in 0..m /\ n - 1 \in 0..m /\ n - 1 \in 0..(m + 1)
          BY <3>2, <4>1
        <5>2. h[n] = f[n] /\ h[n - 1] = f[n - 1]
          BY <5>1
        <5> QED
          BY <3>1, <4>1, <5>2
      <4>2. CASE n = m + 1
        <5>1. n - 1 = m
          BY <3>2, <4>2
        <5>2. h[m] = f[m] /\ h[m + 1] = F[f[m]]
          BY <3>2
        <5> QED
          BY <4>2, <5>1, <5>2
      <4>3. n \in 1..m \/ n = m + 1
        BY <3>2
      <4> QED
        BY <4>1, <4>2, <4>3
    <3>5. h[0] = s
      BY <3>1, <3>2
    <3>6. Starts(h, m + 1)
      BY <3>3, <3>4, <3>5
    <3>7. m + 1 \in Nat
      BY <3>2
    <3> HIDE DEF Starts, h
    <3> QED
      BY <3>6, <3>7
  <2>3. T \in SUBSET Nat
    OBVIOUS
  <2> HIDE DEF T
  <2> QED
    BY <2>1, <2>2, <2>3, NaturalsByInduction
<1>2. \A m \in Nat : Starts(start(m), m)
  BY <1>1
<1> HIDE DEF start
<1>3. \A n \in Nat : \A k, m \in Nat : n <= k /\ n <= m => start(k)[n] = start(m)[n]
  <2> DEFINE U == {n \in Nat : \A k, m \in Nat : n <= k /\ n <= m => start(k)[n] = start(m)[n]}
  <2>1. 0 \in U
    BY <1>2
  <2>2. ASSUME NEW n \in U PROVE n + 1 \in U
    <3> SUFFICES ASSUME NEW k \in Nat, NEW m \in Nat, n + 1 <= k, n + 1 <= m
                 PROVE  start(k)[n + 1] = start(m)[n + 1]
      OBVIOUS
    <3>1. n \in Nat /\ n <= k /\ n <= m /\ n + 1 \in 1..k /\ n + 1 \in 1..m /\ (n + 1) - 1 = n
      OBVIOUS
    <3>2. start(k)[n + 1] = F[start(k)[n]] /\ start(m)[n + 1] = F[start(m)[n]]
      BY <1>2, <3>1
    <3>3. start(k)[n] = start(m)[n]
      BY <3>1
    <3> QED
      BY <3>2, <3>3
  <2>3. U \in SUBSET Nat
    OBVIOUS
  <2>4. \A n \in Nat : n \in U
    <3> HIDE DEF U
    <3> QED
      BY <2>1, <2>2, <2>3, NaturalsByInduction
  <2> QED
    BY <2>4
<1>4. ASSUME NEW n \in Nat PROVE g[n] = IF n = 0 THEN s ELSE F[g[n - 1]]
  <2>1. CASE n = 0
    BY <1>2, <2>1
  <2>2. CASE n # 0
    <3>1. n \in 1..n /\ n - 1 \in Nat /\ n - 1 <= n /\ n - 1 <= n - 1
      BY <2>2
    <3>2. start(n)[n] = F[start(n)[n - 1]]
      BY <1>2, <3>1
    <3>3. start(n)[n - 1] = start(n - 1)[n - 1]
      BY <1>3, <3>1
    <3> QED
      BY <2>2, <3>1, <3>2, <3>3
  <2> QED
    BY <2>1, <2>2
<1>5. g \in [Nat -> S]
  <2>1. ASSUME NEW n \in Nat PROVE start(n)[n] \in S
    <3>1. n \in 0..n
      OBVIOUS
    <3> QED
      BY <1>2, <3>1
  <2> QED
    BY <2>1
<1>6. g[0] = s /\ \A n \in Nat : n # 0 => g[n] = F[g[n - 1]]
  BY <1>4
<1> HIDE DEF g
<1> QED
  BY <1>5, <1>6

(***************************************************************************)
(* The simulator.                                                          *)
(***************************************************************************)
SimulatorBounds ==
    Interval \in Nat \ {0} /\ ClockOffset \in Int /\ NetworkDelay \in Nat /\ Limit \in Nat /\ MaxNow \in Nat
SimulatorSpec == SimulatorInit /\ [][SimulatorNext]_simulatorVars

Emission == [n : Nat, captured : Int, received : Int]
SimulatorState ==
    [now : Nat, running : BOOLEAN, due : Nat \cup {NotScheduled}, sequence : Nat \ {0}, queue : Seq(Emission)]

\* Of the emissions of a stream up to now.
InTurn(all, now) ==
    /\ all \in Seq(Emission)
    /\ \A i \in DOMAIN all : all[i].n = i /\ all[i].captured <= now + ClockOffset
    /\ \A i, j \in DOMAIN all : i < j => all[i].captured <= all[j].captured

Whole(s, f) ==
    /\ s \in SimulatorState /\ f \in Seq(Emission)
    /\ InTurn(f \o s.queue, s.now) /\ Len(f \o s.queue) = s.sequence - 1
    /\ s.sequence <= Limit + 1
    /\ s.running <=> s.due # NotScheduled
    /\ s.running => s.due >= s.now

Due(s) == IF s.due = NotScheduled THEN s.now ELSE s.due

LEMMA StoppedFields ==
    ASSUME NEW s \in SimulatorState
    PROVE  /\ Stopped(s) \in SimulatorState
           /\ Stopped(s).now = s.now /\ Stopped(s).running = FALSE /\ Stopped(s).due = NotScheduled
           /\ Stopped(s).sequence = s.sequence /\ Stopped(s).queue = s.queue
BY DEF Stopped, SimulatorState, NotScheduled

LEMMA EmittedFields ==
    ASSUME NEW s \in SimulatorState, NEW at \in Nat, SimulatorBounds
    PROVE  /\ Emitted(s, at) \in SimulatorState
           /\ Emitted(s, at).now = Later(s.now, at) /\ Emitted(s, at).running = s.running
           /\ Emitted(s, at).due = at + Interval /\ Emitted(s, at).sequence = s.sequence + 1
           /\ Emitted(s, at).queue = Append(s.queue, [n |-> s.sequence, captured |-> at + ClockOffset,
                                                      received |-> at + NetworkDelay])
<1> DEFINE e == [n |-> s.sequence, captured |-> at + ClockOffset, received |-> at + NetworkDelay]
           q == Append(s.queue, e)
<1>1. e \in Emission
  BY DEF Emission, SimulatorBounds, SimulatorState
<1>2. q \in Seq(Emission)
  BY <1>1 DEF SimulatorState
<1>3. Later(s.now, at) \in Nat /\ at + Interval \in Nat /\ s.sequence + 1 \in Nat \ {0}
  BY DEF Later, SimulatorState, SimulatorBounds
<1>4. Emitted(s, at) = [s EXCEPT !.now = Later(s.now, at), !.due = at + Interval, !.sequence = s.sequence + 1,
                                 !.queue = q]
  BY DEF Emitted, SimulatorState
<1> HIDE DEF q
<1>5. /\ Emitted(s, at) \in SimulatorState
      /\ Emitted(s, at).now = Later(s.now, at) /\ Emitted(s, at).running = s.running
      /\ Emitted(s, at).due = at + Interval /\ Emitted(s, at).sequence = s.sequence + 1
      /\ Emitted(s, at).queue = q
  BY <1>2, <1>3, <1>4 DEF SimulatorState
<1> QED
  BY <1>5 DEF q

LEMMA StoppedIsWhole ==
    ASSUME NEW s, NEW f, Whole(s, f)
    PROVE  Whole(Stopped(s), f)
BY StoppedFields DEF Whole

\* What is emitted joins the stream in turn.
LEMMA EmittedIsWhole ==
    ASSUME NEW s, NEW f, SimulatorBounds, Whole(s, f), s.running, ~AtLimit(s)
    PROVE  Whole(Emitted(s, s.due), f) /\ Emitted(s, s.due).now = s.due /\ Emitted(s, s.due).running
<1> DEFINE at == s.due
           e == [n |-> s.sequence, captured |-> at + ClockOffset, received |-> at + NetworkDelay]
           all == f \o s.queue
           more == f \o Append(s.queue, e)
           t == Emitted(s, at)
<1>1. /\ s \in SimulatorState /\ f \in Seq(Emission) /\ at \in Nat /\ at >= s.now /\ s.now \in Nat
      /\ s.sequence \in Nat /\ s.queue \in Seq(Emission) /\ s.sequence # 0
  BY DEF Whole, SimulatorState, NotScheduled
<1>2. e \in Emission
  BY <1>1 DEF Emission, SimulatorBounds
<1>3. more = Append(all, e)
  BY <1>1, <1>2
<1>4. all \in Seq(Emission) /\ Len(all) = s.sequence - 1
  BY <1>1 DEF Whole
<1>5. /\ t \in SimulatorState /\ t.now = Later(s.now, at) /\ t.running = s.running /\ t.due = at + Interval
      /\ t.sequence = s.sequence + 1 /\ t.queue = Append(s.queue, e)
  BY <1>1, EmittedFields
<1>6. Later(s.now, at) = at
  BY <1>1 DEF Later
<1>7. InTurn(all, s.now)
  BY DEF Whole
<1> HIDE DEF at, all, more, t
<1>8. e.n = s.sequence /\ e.captured = at + ClockOffset
  OBVIOUS
<1> HIDE DEF e
<1>9. /\ more \in Seq(Emission) /\ DOMAIN more = 1..s.sequence /\ DOMAIN all = 1..(s.sequence - 1)
      /\ Len(more) = s.sequence /\ more[s.sequence] = e /\ \A i \in DOMAIN all : more[i] = all[i]
  BY <1>1, <1>2, <1>3, <1>4
<1>10. \A i \in 1..s.sequence : i = s.sequence \/ i \in DOMAIN all
  BY <1>1, <1>9
<1>11. \A i \in DOMAIN all : all[i].n = i /\ all[i].captured <= at + ClockOffset
  <2> SUFFICES ASSUME NEW i \in DOMAIN all PROVE all[i].n = i /\ all[i].captured <= at + ClockOffset
    OBVIOUS
  <2>1. all[i].n = i /\ all[i].captured <= s.now + ClockOffset
    BY <1>7 DEF InTurn
  <2>2. all[i].captured \in Int
    <3>1. all[i] \in Emission
      BY <1>4
    <3> QED
      BY <3>1 DEF Emission
  <2> QED
    BY <1>1, <2>1, <2>2 DEF SimulatorBounds
<1>12. InTurn(more, at)
  <2>1. \A i \in DOMAIN more : more[i].n = i /\ more[i].captured <= at + ClockOffset
    BY <1>1, <1>8, <1>9, <1>10, <1>11 DEF SimulatorBounds
  <2>2. ASSUME NEW i \in DOMAIN more, NEW j \in DOMAIN more, i < j
        PROVE  more[i].captured <= more[j].captured
    <3>1. i \in DOMAIN all
      BY <1>1, <1>9, <1>10, <2>2
    <3>2. CASE j = s.sequence
      BY <1>8, <1>9, <1>11, <3>1, <3>2
    <3>3. CASE j \in DOMAIN all
      BY <1>7, <1>9, <2>2, <3>1, <3>3 DEF InTurn
    <3> QED
      BY <1>9, <1>10, <3>2, <3>3
  <2> QED
    BY <1>9, <2>1, <2>2 DEF InTurn
<1>13. f \o t.queue = more /\ t.now = at
  BY <1>5, <1>6 DEF more
<1>14. at + Interval # NotScheduled /\ at + Interval >= at
  BY <1>1 DEF NotScheduled, SimulatorBounds
<1>15. s.sequence + 1 <= Limit + 1 /\ s.sequence = (s.sequence + 1) - 1
  BY <1>1 DEF AtLimit, SimulatorBounds
<1>16. Whole(t, f)
  BY <1>1, <1>5, <1>9, <1>12, <1>13, <1>14, <1>15 DEF Whole
<1> QED
  BY <1>5, <1>13, <1>16 DEF t, at

LEMMA StartedIsWhole ==
    ASSUME NEW s, NEW f, SimulatorBounds, Whole(s, f)
    PROVE  Whole(Started(s), f)
<1>1. CASE s.running
  BY <1>1 DEF Started
<1>2. CASE ~s.running
  <2> DEFINE t == [s EXCEPT !.running = TRUE, !.due = s.now]
  <2>1. Started(s) = t
    BY <1>2 DEF Started
  <2>2. s \in SimulatorState
    BY DEF Whole
  <2>3. /\ t \in SimulatorState /\ t.now = s.now /\ t.running = TRUE /\ t.due = s.now
        /\ t.sequence = s.sequence /\ t.queue = s.queue
    BY <2>2 DEF SimulatorState
  <2>4. s.now # NotScheduled /\ s.now >= s.now
    BY <2>2 DEF SimulatorState, NotScheduled
  <2> HIDE DEF t
  <2>5. Whole(t, f)
    BY <2>3, <2>4 DEF Whole
  <2> QED
    BY <2>1, <2>5
<1> QED
  BY <1>1, <1>2

\* One turn of step; at the limit the simulator stops and stays stopped.
LEMMA SteppedOnceIsWhole ==
    ASSUME NEW s, NEW f, SimulatorBounds, Whole(s, f), s.running \/ AtLimit(s)
    PROVE  /\ Whole(SteppedOnce(s), f)
           /\ SteppedOnce(s).running \/ AtLimit(SteppedOnce(s))
<1>1. s \in SimulatorState /\ (s.running <=> s.due # NotScheduled)
  BY DEF Whole
<1>2. CASE AtLimit(s)
  <2>1. SteppedOnce(s) = Stopped(s)
    BY <1>2 DEF SteppedOnce
  <2>2. Whole(Stopped(s), f)
    BY StoppedIsWhole
  <2>3. AtLimit(Stopped(s))
    BY <1>1, <1>2, StoppedFields DEF AtLimit
  <2> QED
    BY <2>1, <2>2, <2>3
<1>3. CASE ~AtLimit(s)
  <2>1. SteppedOnce(s) = Emitted(s, s.due)
    BY <1>1, <1>3 DEF SteppedOnce
  <2>2. Whole(Emitted(s, s.due), f) /\ Emitted(s, s.due).running
    BY <1>3, EmittedIsWhole
  <2> QED
    BY <2>1, <2>2
<1> QED
  BY <1>2, <1>3

\* The turns of a loop that keeps a set of states: applied again and again,
\* it is a function, and what it keeps holds after every turn.
LEMMA SteppedTurns ==
    ASSUME NEW s, NEW f, SimulatorBounds, Whole(s, f), s.running, NEW count \in Nat
    PROVE  /\ Whole(Stepped(s, count), f)
           /\ Stepped(s, 1) = SteppedOnce(s)
<1> DEFINE S == {t \in SimulatorState : Whole(t, f) /\ (t.running \/ AtLimit(t))}
           F == [t \in S |-> SteppedOnce(t)]
           Runs(g) == g = [n \in Nat |-> IF n = 0 THEN s ELSE SteppedOnce(g[n - 1])]
           after == CHOOSE g : Runs(g)
<1>1. s \in S
  BY DEF Whole
<1>2. F \in [S -> S]
  <2> SUFFICES ASSUME NEW t \in S PROVE SteppedOnce(t) \in S
    OBVIOUS
  <2>1. Whole(SteppedOnce(t), f) /\ (SteppedOnce(t).running \/ AtLimit(SteppedOnce(t)))
    BY SteppedOnceIsWhole
  <2> QED
    BY <2>1 DEF Whole
<1> HIDE DEF S
<1>3. PICK g \in [Nat -> S] : g[0] = s /\ \A n \in Nat : n # 0 => g[n] = F[g[n - 1]]
  <2> HIDE DEF F
  <2>1. \A F0 \in [S -> S] : \E g \in [Nat -> S] : g[0] = s /\ \A n \in Nat : n # 0 => g[n] = F0[g[n - 1]]
    BY <1>1, IterationExists
  <2> QED
    BY <1>2, <2>1
<1>4. Runs(g)
  <2>1. \A n \in Nat : n # 0 => n - 1 \in Nat /\ g[n - 1] \in S
    BY <1>3
  <2>2. \A n \in Nat : n # 0 => F[g[n - 1]] = SteppedOnce(g[n - 1])
    BY <2>1
  <2> DEFINE h == [n \in Nat |-> IF n = 0 THEN s ELSE SteppedOnce(g[n - 1])]
  <2> HIDE DEF F
  <2>3. \A n \in Nat : g[n] = h[n]
    BY <1>3, <2>2
  <2> QED
    BY <1>3, <2>3
<1>5. Runs(after)
  BY <1>4
<1>6. Stepped(s, count) = after[count] /\ Stepped(s, 1) = after[1]
  BY DEF Stepped
<1> HIDE DEF after
<1>7. after[0] = s /\ \A n \in Nat : after[n + 1] = SteppedOnce(after[n])
  <2>1. \A n \in Nat : n + 1 \in Nat /\ n + 1 # 0 /\ (n + 1) - 1 = n
    OBVIOUS
  <2> QED
    BY <1>5, <2>1
<1> DEFINE T == {n \in Nat : after[n] \in S}
<1>8. \A n \in Nat : n \in T
  <2>1. 0 \in T
    BY <1>1, <1>7
  <2>2. ASSUME NEW n \in T PROVE n + 1 \in T
    <3>1. SteppedOnce(after[n]) \in S
      BY <1>2
    <3> QED
      BY <1>7, <3>1
  <2>3. T \in SUBSET Nat
    OBVIOUS
  <2> HIDE DEF T
  <2> QED
    BY <2>1, <2>2, <2>3, NaturalsByInduction
<1>9. after[count] \in S
  BY <1>8
<1>10. after[1] = SteppedOnce(s)
  <2>1. after[0 + 1] = SteppedOnce(after[0])
    BY <1>7
  <2> QED
    BY <1>7, <2>1
<1> QED
  BY <1>6, <1>9, <1>10 DEF S

(***************************************************************************)
(* Advancing.                                                              *)
(***************************************************************************)
Settled(s, target) == s.due = NotScheduled \/ s.due > target
At(s, instant) == [s EXCEPT !.now = instant]

LEMMA AtFields ==
    ASSUME NEW s \in SimulatorState, NEW t \in Nat
    PROVE  /\ At(s, t) \in SimulatorState /\ At(s, t).now = t
           /\ At(s, t).running = s.running /\ At(s, t).due = s.due /\ At(s, t).sequence = s.sequence
           /\ At(s, t).queue = s.queue
BY DEF At, SimulatorState

LEMMA EmittedOnceIsWhole ==
    ASSUME NEW s, NEW f, NEW target \in Nat, SimulatorBounds, Whole(s, f), s.now <= target
    PROVE  /\ Whole(EmittedOnce(s, target), f) /\ EmittedOnce(s, target).now <= target
           /\ Settled(s, target) => EmittedOnce(s, target) = s
           /\ ~Settled(s, target) => \/ Settled(EmittedOnce(s, target), target)
                                     \/ EmittedOnce(s, target).sequence = s.sequence + 1
<1>1. s \in SimulatorState /\ (s.running <=> s.due # NotScheduled)
  BY DEF Whole
<1>2. CASE Settled(s, target)
  <2>1. EmittedOnce(s, target) = s
    BY <1>2 DEF EmittedOnce, Settled
  <2> QED
    BY <1>2, <2>1
<1>3. CASE ~Settled(s, target) /\ AtLimit(s)
  <2>1. EmittedOnce(s, target) = Stopped(s)
    BY <1>3 DEF EmittedOnce, Settled
  <2>2. Whole(Stopped(s), f)
    BY StoppedIsWhole
  <2>3. Stopped(s).now = s.now /\ Settled(Stopped(s), target)
    BY <1>1, StoppedFields DEF Settled
  <2> QED
    BY <1>3, <2>1, <2>2, <2>3
<1>4. CASE ~Settled(s, target) /\ ~AtLimit(s)
  <2>1. EmittedOnce(s, target) = Emitted(s, s.due) /\ s.running
    BY <1>1, <1>4 DEF EmittedOnce, Settled
  <2>2. Whole(Emitted(s, s.due), f) /\ Emitted(s, s.due).now = s.due
    BY <1>4, <2>1, EmittedIsWhole
  <2>3. s.due \in Nat /\ s.due <= target
    BY <1>1, <1>4 DEF Settled, SimulatorState, NotScheduled
  <2>4. Emitted(s, s.due).sequence = s.sequence + 1
    BY <1>1, <2>3, EmittedFields
  <2> QED
    BY <1>4, <2>1, <2>2, <2>3, <2>4
<1> QED
  BY <1>2, <1>3, <1>4

\* The turns of advance.
Turns(g, s, f, target) ==
    /\ g[0] = s /\ \A n \in Nat : g[n + 1] = EmittedOnce(g[n], target)
    /\ \A n \in Nat : Whole(g[n], f) /\ g[n].now <= target
    /\ EmittedUntil(s, target) = g[Limit + 1]

LEMMA TurnsExist ==
    ASSUME NEW s, NEW f, NEW target \in Nat, SimulatorBounds, Whole(s, f), s.now <= target
    PROVE  \E g : Turns(g, s, f, target)
<1> DEFINE S == {t \in SimulatorState : Whole(t, f) /\ t.now <= target}
           F == [t \in S |-> EmittedOnce(t, target)]
           Runs(g) == g = [n \in Nat |-> IF n = 0 THEN s ELSE EmittedOnce(g[n - 1], target)]
           after == CHOOSE g : Runs(g)
<1>1. s \in S
  BY DEF Whole
<1>2. F \in [S -> S]
  <2> SUFFICES ASSUME NEW t \in S PROVE EmittedOnce(t, target) \in S
    OBVIOUS
  <2>1. Whole(EmittedOnce(t, target), f) /\ EmittedOnce(t, target).now <= target
    BY EmittedOnceIsWhole
  <2> QED
    BY <2>1 DEF Whole
<1> HIDE DEF S
<1>3. PICK g \in [Nat -> S] : g[0] = s /\ \A n \in Nat : n # 0 => g[n] = F[g[n - 1]]
  <2> HIDE DEF F
  <2>1. \A F0 \in [S -> S] : \E g \in [Nat -> S] : g[0] = s /\ \A n \in Nat : n # 0 => g[n] = F0[g[n - 1]]
    BY <1>1, IterationExists, SMTT(60)
  <2> QED
    BY <1>2, <2>1
<1>4. Runs(g)
  <2>1. \A n \in Nat : n # 0 => n - 1 \in Nat /\ g[n - 1] \in S
    BY <1>3
  <2>2. \A n \in Nat : n # 0 => F[g[n - 1]] = EmittedOnce(g[n - 1], target)
    BY <2>1
  <2> DEFINE h == [n \in Nat |-> IF n = 0 THEN s ELSE EmittedOnce(g[n - 1], target)]
  <2> HIDE DEF F
  <2>3. \A n \in Nat : g[n] = h[n]
    BY <1>3, <2>2
  <2> QED
    BY <1>3, <2>3
<1>5. Runs(after)
  BY <1>4
<1>6. EmittedUntil(s, target) = after[Limit + 1]
  BY DEF EmittedUntil
<1> HIDE DEF after
<1>7. after[0] = s /\ \A n \in Nat : after[n + 1] = EmittedOnce(after[n], target)
  <2>1. \A n \in Nat : n + 1 \in Nat /\ n + 1 # 0 /\ (n + 1) - 1 = n
    OBVIOUS
  <2> QED
    BY <1>5, <2>1
<1> DEFINE T == {n \in Nat : after[n] \in S}
<1>8. \A n \in Nat : n \in T
  <2>1. 0 \in T
    BY <1>1, <1>7
  <2>2. ASSUME NEW n \in T PROVE n + 1 \in T
    <3>1. EmittedOnce(after[n], target) \in S
      BY <1>2
    <3> QED
      BY <1>7, <3>1
  <2>3. T \in SUBSET Nat
    OBVIOUS
  <2> HIDE DEF T
  <2> QED
    BY <2>1, <2>2, <2>3, NaturalsByInduction
<1>9. \A n \in Nat : Whole(after[n], f) /\ after[n].now <= target
  BY <1>8 DEF S
<1>10. Turns(after, s, f, target)
  BY <1>6, <1>7, <1>9 DEF Turns
<1> QED
  BY <1>10

\* After a settled turn nothing changes, and the last turn is settled.
LEMMA TurnsSettle ==
    ASSUME NEW g, NEW s, NEW f, NEW target \in Nat, SimulatorBounds, Turns(g, s, f, target)
    PROVE  /\ Settled(g[Limit + 1], target)
           /\ \A m, n \in Nat : Settled(g[m], target) /\ m <= n => g[n] = g[m]
<1>1. /\ g[0] = s /\ \A n \in Nat : g[n + 1] = EmittedOnce(g[n], target)
      /\ \A n \in Nat : Whole(g[n], f) /\ g[n].now <= target
  BY DEF Turns
<1>2. \A n \in Nat : /\ Settled(g[n], target) => g[n + 1] = g[n]
                     /\ ~Settled(g[n], target) => \/ Settled(g[n + 1], target)
                                                  \/ g[n + 1].sequence = g[n].sequence + 1
  BY <1>1, EmittedOnceIsWhole
<1>3. \A n \in Nat : g[n].sequence \in Nat /\ g[n].sequence # 0 /\ g[n].sequence <= Limit + 1
  BY <1>1 DEF Whole, SimulatorState
<1>4. Limit \in Nat
  BY DEF SimulatorBounds
<1> DEFINE T == {n \in Nat : Settled(g[n], target) \/ g[n].sequence = g[0].sequence + n}
<1>5. \A n \in Nat : n \in T
  <2>1. 0 \in T
    BY <1>3
  <2>2. ASSUME NEW n \in T PROVE n + 1 \in T
    <3>1. n \in Nat /\ n + 1 \in Nat
      OBVIOUS
    <3>2. CASE Settled(g[n], target)
      BY <1>2, <3>1, <3>2
    <3>3. CASE ~Settled(g[n], target)
      <4>1. g[n].sequence = g[0].sequence + n
        BY <3>3
      <4>2. Settled(g[n + 1], target) \/ g[n + 1].sequence = g[n].sequence + 1
        BY <1>2, <3>1, <3>3
      <4>3. g[0].sequence + n + 1 = g[0].sequence + (n + 1)
        BY <1>3, <3>1
      <4> QED
        BY <3>1, <4>1, <4>2, <4>3
    <3> QED
      BY <3>2, <3>3
  <2>3. T \in SUBSET Nat
    OBVIOUS
  <2> HIDE DEF T
  <2> QED
    BY <2>1, <2>2, <2>3, NaturalsByInduction
<1>6. Settled(g[Limit + 1], target)
  <2>1. Limit + 1 \in Nat /\ Limit + 1 \in T
    BY <1>4, <1>5
  <2>2. g[Limit + 1].sequence # g[0].sequence + (Limit + 1)
    BY <1>3, <1>4, <2>1
  <2> QED
    BY <2>1, <2>2
<1>7. ASSUME NEW m \in Nat, Settled(g[m], target) PROVE \A n \in Nat : m <= n => g[n] = g[m]
  <2> DEFINE U == {n \in Nat : m <= n => g[n] = g[m]}
  <2>1. 0 \in U
    OBVIOUS
  <2>2. ASSUME NEW n \in U PROVE n + 1 \in U
    <3>1. n \in Nat /\ n + 1 \in Nat
      OBVIOUS
    <3>2. CASE m <= n
      BY <1>2, <1>7, <3>1, <3>2
    <3>3. CASE ~(m <= n)
      <4>1. m <= n + 1 => m = n + 1
        BY <3>1, <3>3
      <4> QED
        BY <3>1, <4>1
    <3> QED
      BY <3>2, <3>3
  <2>3. U \in SUBSET Nat
    OBVIOUS
  <2>4. \A n \in Nat : n \in U
    <3> HIDE DEF U
    <3> QED
      BY <2>1, <2>2, <2>3, NaturalsByInduction
  <2> QED
    BY <2>4
<1> QED
  BY <1>6, <1>7

LEMMA SettledIsWhole ==
    ASSUME NEW s, NEW f, NEW target \in Nat, SimulatorBounds, Whole(s, f), s.now <= target, Settled(s, target)
    PROVE  Whole(At(s, target), f)
<1> DEFINE all == f \o s.queue
           t == At(s, target)
<1>1. s \in SimulatorState /\ s.now \in Nat /\ f \in Seq(Emission) /\ s.queue \in Seq(Emission)
  BY DEF Whole, SimulatorState
<1>2. /\ t \in SimulatorState /\ t.now = target /\ t.running = s.running /\ t.due = s.due
      /\ t.sequence = s.sequence /\ t.queue = s.queue
  BY <1>1, AtFields
<1>3. InTurn(all, target)
  <2>1. InTurn(all, s.now)
    BY DEF Whole
  <2>2. all \in Seq(Emission)
    BY <2>1 DEF InTurn
  <2> HIDE DEF all
  <2>3. ASSUME NEW i \in DOMAIN all PROVE all[i].captured <= target + ClockOffset
    <3>1. all[i] \in Emission
      BY <2>2
    <3>2. all[i].captured \in Int /\ all[i].captured <= s.now + ClockOffset
      BY <2>1, <3>1 DEF InTurn, Emission
    <3> QED
      BY <1>1, <3>2 DEF SimulatorBounds
  <2> QED
    BY <2>1, <2>3 DEF InTurn
<1>4. s.running => s.due >= target
  <2>1. s.running => s.due # NotScheduled
    BY DEF Whole
  <2>2. s.due # NotScheduled => s.due \in Nat
    BY <1>1 DEF SimulatorState
  <2>3. s.running => s.due > target
    BY <2>1 DEF Settled
  <2> QED
    BY <2>1, <2>2, <2>3
<1> HIDE DEF t
<1>5. Whole(t, f)
  BY <1>1, <1>2, <1>3, <1>4 DEF Whole
<1> QED
  BY <1>5 DEF t

\* Also of a simulator that does not run: nothing is due.
LEMMA AdvancedIsWhole ==
    ASSUME NEW s, NEW f, NEW d \in Nat, SimulatorBounds, Whole(s, f)
    PROVE  /\ s.now + d \in Nat /\ s.now <= s.now + d
           /\ Advanced(s, d) = At(EmittedUntil(s, s.now + d), s.now + d)
           /\ Whole(Advanced(s, d), f) /\ Advanced(s, d).now = s.now + d
<1>1. s \in SimulatorState /\ s.now \in Nat
  BY DEF Whole, SimulatorState
<1>2. s.now + d \in Nat /\ s.now <= s.now + d
  BY <1>1
<1> DEFINE target == s.now + d
<1> HIDE DEF target
<1>3. target \in Nat /\ s.now <= target
  BY <1>2 DEF target
<1>4. PICK g : Turns(g, s, f, target)
  BY <1>3, TurnsExist
<1>5. Settled(g[Limit + 1], target) /\ \A m, n \in Nat : Settled(g[m], target) /\ m <= n => g[n] = g[m]
  BY <1>3, <1>4, TurnsSettle
<1>6. /\ g[0] = s /\ EmittedUntil(s, target) = g[Limit + 1] /\ Limit + 1 \in Nat
      /\ Whole(g[Limit + 1], f) /\ g[Limit + 1].now <= target
  BY <1>4 DEF Turns, SimulatorBounds
<1>7. ~s.running => g[Limit + 1] = s
  <2>1. ~s.running => Settled(g[0], target)
    BY <1>6 DEF Settled, Whole
  <2>2. 0 <= Limit + 1
    BY <1>6
  <2> QED
    BY <1>5, <1>6, <2>1, <2>2
<1>8. Advanced(s, d) = At(IF s.running THEN EmittedUntil(s, target) ELSE s, target)
  BY DEF Advanced, At, target
<1>9. Advanced(s, d) = At(EmittedUntil(s, target), target)
  BY <1>6, <1>7, <1>8
<1>10. Whole(At(g[Limit + 1], target), f)
  BY <1>3, <1>5, <1>6, SettledIsWhole
<1>11. g[Limit + 1] \in SimulatorState
  BY <1>6 DEF Whole
<1>12. At(g[Limit + 1], target).now = target
  BY <1>3, <1>11, AtFields
<1> QED
  BY <1>2, <1>6, <1>9, <1>10, <1>12 DEF target

LEMMA FlushedIsWhole ==
    ASSUME NEW s, NEW f, SimulatorBounds, Whole(s, f)
    PROVE  Whole([s EXCEPT !.queue = <<>>], f \o s.queue)
<1> DEFINE t == [s EXCEPT !.queue = <<>>]
           all == f \o s.queue
<1>1. s \in SimulatorState /\ s.queue \in Seq(Emission) /\ f \in Seq(Emission)
  BY DEF Whole, SimulatorState
<1>2. /\ t \in SimulatorState /\ t.now = s.now /\ t.running = s.running /\ t.due = s.due
      /\ t.sequence = s.sequence /\ t.queue = <<>>
  <2>1. <<>> \in Seq(Emission)
    OBVIOUS
  <2> DEFINE none == <<>>
  <2> HIDE DEF none
  <2>2. none \in Seq(Emission)
    BY <2>1 DEF none
  <2>3. /\ [s EXCEPT !.queue = none] \in SimulatorState
        /\ [s EXCEPT !.queue = none].now = s.now /\ [s EXCEPT !.queue = none].running = s.running
        /\ [s EXCEPT !.queue = none].due = s.due /\ [s EXCEPT !.queue = none].sequence = s.sequence
        /\ [s EXCEPT !.queue = none].queue = none
    BY <1>1, <2>2 DEF SimulatorState
  <2> QED
    BY <2>3 DEF none
<1>3. all \in Seq(Emission) /\ all \o <<>> = all
  BY <1>1
<1>4. InTurn(all, s.now) /\ Len(all) = s.sequence - 1
  BY DEF Whole
<1> HIDE DEF t, all
<1>5. Whole(t, all)
  BY <1>2, <1>3, <1>4 DEF Whole
<1> QED
  BY <1>5 DEF t, all

(***************************************************************************)
(* Cuts of the time.                                                       *)
(***************************************************************************)
LEMMA AtIsFields ==
    ASSUME NEW s \in SimulatorState, NEW t \in Nat
    PROVE  At(s, t) = [now |-> t, running |-> s.running, due |-> s.due, sequence |-> s.sequence, queue |-> s.queue]
BY DEF At, SimulatorState

\* Two simulators that differ in their clock only; a turn keeps it that way.
Alike(s, t) == s.running = t.running /\ s.due = t.due /\ s.sequence = t.sequence /\ s.queue = t.queue

LEMMA AlikeAtTheSame ==
    ASSUME NEW s \in SimulatorState, NEW t \in SimulatorState, NEW instant \in Nat, Alike(s, t)
    PROVE  At(s, instant) = At(t, instant)
BY AtIsFields DEF Alike

LEMMA AlikeAfterATurn ==
    ASSUME NEW s \in SimulatorState, NEW t \in SimulatorState, NEW target \in Nat, SimulatorBounds, Alike(s, t)
    PROVE  Alike(EmittedOnce(s, target), EmittedOnce(t, target))
<1>1. CASE Settled(s, target)
  <2>1. Settled(t, target)
    BY <1>1 DEF Settled, Alike
  <2> QED
    BY <1>1, <2>1 DEF EmittedOnce, Settled
<1>2. CASE ~Settled(s, target) /\ AtLimit(s)
  <2>1. ~Settled(t, target) /\ AtLimit(t)
    BY <1>2 DEF Settled, Alike, AtLimit
  <2>2. EmittedOnce(s, target) = Stopped(s) /\ EmittedOnce(t, target) = Stopped(t)
    BY <1>2, <2>1 DEF EmittedOnce, Settled
  <2>3. Alike(Stopped(s), Stopped(t))
    BY StoppedFields DEF Alike
  <2> QED
    BY <2>2, <2>3
<1>3. CASE ~Settled(s, target) /\ ~AtLimit(s)
  <2>1. ~Settled(t, target) /\ ~AtLimit(t)
    BY <1>3 DEF Settled, Alike, AtLimit
  <2>2. EmittedOnce(s, target) = Emitted(s, s.due) /\ EmittedOnce(t, target) = Emitted(t, s.due)
    BY <1>3, <2>1 DEF EmittedOnce, Settled, Alike
  <2>3. s.due \in Nat
    BY <1>3 DEF Settled, SimulatorState
  <2>4. Alike(Emitted(s, s.due), Emitted(t, s.due))
    <3> DEFINE more == Append(s.queue, [n |-> s.sequence, captured |-> s.due + ClockOffset,
                                        received |-> s.due + NetworkDelay])
    <3>1. /\ Emitted(s, s.due).running = s.running /\ Emitted(s, s.due).due = s.due + Interval
          /\ Emitted(s, s.due).sequence = s.sequence + 1 /\ Emitted(s, s.due).queue = more
      BY <2>3, EmittedFields
    <3>2. s.running = t.running /\ s.sequence = t.sequence /\ s.queue = t.queue
      BY DEF Alike
    <3>3. /\ Emitted(t, s.due).running = t.running /\ Emitted(t, s.due).due = s.due + Interval
          /\ Emitted(t, s.due).sequence = t.sequence + 1
          /\ Emitted(t, s.due).queue = Append(t.queue, [n |-> t.sequence, captured |-> s.due + ClockOffset,
                                                        received |-> s.due + NetworkDelay])
      BY <2>3, EmittedFields
    <3>4. Emitted(t, s.due).queue = more
      BY <3>2, <3>3
    <3> HIDE DEF more
    <3> QED
      BY <3>1, <3>2, <3>3, <3>4 DEF Alike
  <2> QED
    BY <2>2, <2>4
<1> QED
  BY <1>1, <1>2, <1>3

\* Up to the first instant both advances take the same turns, and from there
\* the second one takes those that were left.
LEMMA CutsAgree ==
    ASSUME NEW s, NEW f, NEW a \in Nat, NEW b \in Nat, SimulatorBounds, Whole(s, f)
    PROVE  Advanced(Advanced(s, a), b) = Advanced(s, a + b)
<1> DEFINE cut == s.now + a
           target == s.now + (a + b)
           u == Advanced(s, a)
<1>1. s.now \in Nat /\ a + b \in Nat
  BY DEF Whole, SimulatorState
<1>2. /\ cut \in Nat /\ s.now <= cut /\ target \in Nat /\ s.now <= target /\ cut <= target /\ cut + b = target
  BY <1>1
<1>3. u = At(EmittedUntil(s, cut), cut) /\ Whole(u, f) /\ u.now = cut
  BY AdvancedIsWhole
<1>4. Advanced(s, a + b) = At(EmittedUntil(s, target), target)
  BY <1>1, AdvancedIsWhole
<1> HIDE DEF u
<1>5. Advanced(u, b) = At(EmittedUntil(u, cut + b), cut + b)
  BY <1>3, AdvancedIsWhole
<1> HIDE DEF cut, target
<1>6. Advanced(u, b) = At(EmittedUntil(u, target), target)
  BY <1>2, <1>5
<1>7. PICK g1 : Turns(g1, s, f, cut)
  BY <1>2, TurnsExist
<1>8. PICK g2 : Turns(g2, s, f, target)
  BY <1>2, TurnsExist
<1>9. PICK g3 : Turns(g3, u, f, target)
  BY <1>2, <1>3, TurnsExist
<1>10. /\ g1[0] = s /\ EmittedUntil(s, cut) = g1[Limit + 1] /\ Limit + 1 \in Nat
       /\ g2[0] = s /\ EmittedUntil(s, target) = g2[Limit + 1]
       /\ g3[0] = u /\ EmittedUntil(u, target) = g3[Limit + 1]
  BY <1>7, <1>8, <1>9 DEF Turns, SimulatorBounds
<1>11. \A n \in Nat : /\ g1[n + 1] = EmittedOnce(g1[n], cut) /\ g2[n + 1] = EmittedOnce(g2[n], target)
                      /\ g3[n + 1] = EmittedOnce(g3[n], target)
                      /\ g1[n] \in SimulatorState /\ g2[n] \in SimulatorState /\ g3[n] \in SimulatorState
  BY <1>7, <1>8, <1>9 DEF Turns, Whole
<1>12. \A n \in Nat : \E k \in Nat : g1[n] = g2[k]
  <2> DEFINE T == {n \in Nat : \E k \in Nat : g1[n] = g2[k]}
  <2>1. 0 \in T
    BY <1>10
  <2>2. ASSUME NEW n \in T PROVE n + 1 \in T
    <3>1. n \in Nat /\ n + 1 \in Nat
      OBVIOUS
    <3>2. PICK k \in Nat : g1[n] = g2[k]
      OBVIOUS
    <3>3. CASE Settled(g1[n], cut)
      <4>1. g1[n + 1] = g1[n]
        BY <1>11, <3>1, <3>3 DEF EmittedOnce, Settled
      <4> QED
        BY <3>1, <3>2, <4>1
    <3>4. CASE ~Settled(g1[n], cut)
      <4>1. g1[n].due \in Nat /\ g1[n].due <= cut
        <5>1. g1[n].due \in Nat
          BY <1>11, <3>1, <3>4 DEF Settled, SimulatorState
        <5> QED
          BY <1>2, <3>4, <5>1 DEF Settled
      <4>2. ~Settled(g1[n], target)
        BY <1>2, <3>4, <4>1 DEF Settled
      <4>3. EmittedOnce(g1[n], cut) = EmittedOnce(g1[n], target)
        BY <3>4, <4>2 DEF EmittedOnce, Settled
      <4>4. g1[n + 1] = g2[k + 1] /\ k + 1 \in Nat
        BY <1>11, <3>1, <3>2, <4>3
      <4> QED
        BY <3>1, <4>4
    <3> QED
      BY <3>3, <3>4
  <2>3. T \in SUBSET Nat
    OBVIOUS
  <2>4. \A n \in Nat : n \in T
    <3> HIDE DEF T
    <3> QED
      BY <2>1, <2>2, <2>3, NaturalsByInduction
  <2> QED
    BY <2>4
<1>13. PICK k \in Nat : g1[Limit + 1] = g2[k]
  BY <1>10, <1>12
<1>14. \A n \in Nat : Alike(g3[n], g2[k + n])
  <2> DEFINE T == {n \in Nat : Alike(g3[n], g2[k + n])}
  <2>1. 0 \in T
    <3>1. u = At(g2[k], cut) /\ k + 0 = k
      BY <1>3, <1>10, <1>13
    <3>2. Alike(At(g2[k], cut), g2[k])
      BY <1>2, <1>11, AtFields DEF Alike
    <3> QED
      BY <1>10, <3>1, <3>2
  <2>2. ASSUME NEW n \in T PROVE n + 1 \in T
    <3>1. n \in Nat /\ n + 1 \in Nat /\ k + n \in Nat /\ (k + n) + 1 = k + (n + 1) /\ Alike(g3[n], g2[k + n])
      OBVIOUS
    <3>2. g3[n] \in SimulatorState /\ g2[k + n] \in SimulatorState
      BY <1>11, <3>1
    <3>3. Alike(EmittedOnce(g3[n], target), EmittedOnce(g2[k + n], target))
      BY <1>2, <3>1, <3>2, AlikeAfterATurn
    <3>4. g3[n + 1] = EmittedOnce(g3[n], target) /\ g2[k + (n + 1)] = EmittedOnce(g2[k + n], target)
      BY <1>11, <3>1
    <3> QED
      BY <3>1, <3>3, <3>4
  <2>3. T \in SUBSET Nat
    OBVIOUS
  <2>4. \A n \in Nat : n \in T
    <3> HIDE DEF T
    <3> QED
      BY <2>1, <2>2, <2>3, NaturalsByInduction
  <2> QED
    BY <2>4
<1>15. g2[k + (Limit + 1)] = g2[Limit + 1]
  <2>1. Settled(g2[Limit + 1], target) /\ \A m, n \in Nat : Settled(g2[m], target) /\ m <= n => g2[n] = g2[m]
    BY <1>2, <1>8, TurnsSettle
  <2>2. k + (Limit + 1) \in Nat /\ Limit + 1 <= k + (Limit + 1)
    BY <1>10
  <2> QED
    BY <1>10, <2>1, <2>2
<1>16. Alike(g3[Limit + 1], g2[Limit + 1])
  BY <1>10, <1>14, <1>15
<1>17. At(g3[Limit + 1], target) = At(g2[Limit + 1], target)
  BY <1>2, <1>10, <1>11, <1>16, AlikeAtTheSame
<1> QED
  BY <1>4, <1>6, <1>10, <1>17 DEF u, target

\* After the emission that is due the next one is later.
LEMMA StepIsAnAdvance ==
    ASSUME NEW s, NEW f, SimulatorBounds, Whole(s, f), s.running, ~AtLimit(s)
    PROVE  Stepped(s, 1) = Advanced(s, s.due - s.now)
<1> DEFINE e == Emitted(s, s.due)
<1>1. s \in SimulatorState /\ s.now \in Nat /\ s.due \in Nat /\ s.due >= s.now /\ s.due # NotScheduled
  BY DEF Whole, SimulatorState
<1>2. s.due - s.now \in Nat /\ s.now + (s.due - s.now) = s.due /\ s.now <= s.due
  BY <1>1
<1>3. Stepped(s, 1) = SteppedOnce(s)
  <2>1. 1 \in Nat
    OBVIOUS
  <2> QED
    BY <2>1, SteppedTurns
<1>4. SteppedOnce(s) = e
  BY <1>1 DEF SteppedOnce
<1>5. Advanced(s, s.due - s.now) = At(EmittedUntil(s, s.due), s.due)
  BY <1>2, AdvancedIsWhole
<1>6. PICK g : Turns(g, s, f, s.due)
  BY <1>1, <1>2, TurnsExist
<1>7. g[0] = s /\ g[0 + 1] = EmittedOnce(g[0], s.due) /\ EmittedUntil(s, s.due) = g[Limit + 1] /\ Limit + 1 \in Nat
      /\ 1 <= Limit + 1
  BY <1>6 DEF Turns, SimulatorBounds
<1>8. g[1] = e
  <2>1. EmittedOnce(s, s.due) = e
    BY <1>1 DEF EmittedOnce
  <2> QED
    BY <1>7, <2>1
<1>9. e \in SimulatorState /\ e.due = s.due + Interval /\ e.now = s.due
  <2>1. Later(s.now, s.due) = s.due
    BY <1>1 DEF Later
  <2> QED
    BY <1>1, <2>1, EmittedFields
<1> HIDE DEF e
<1>10. Settled(e, s.due)
  BY <1>1, <1>9 DEF Settled, SimulatorBounds
<1>11. g[Limit + 1] = g[1]
  <2>1. \A m, n \in Nat : Settled(g[m], s.due) /\ m <= n => g[n] = g[m]
    BY <1>1, <1>6, TurnsSettle
  <2> QED
    BY <1>7, <1>8, <1>10, <2>1
<1>12. At(e, s.due) = e
  BY <1>9 DEF At, SimulatorState
<1> QED
  BY <1>3, <1>4, <1>5, <1>7, <1>8, <1>11, <1>12

(***************************************************************************)
(* Theorems.                                                               *)
(***************************************************************************)

LEMMA StaysWhole ==
    ASSUME SimulatorBounds
    PROVE  SimulatorSpec => []Whole(sim, flushed)
<1> DEFINE Inv == Whole(sim, flushed)
<1>1. SimulatorInit => Inv
  <2> SUFFICES ASSUME SimulatorInit PROVE Inv
    OBVIOUS
  <2>1. /\ sim \in SimulatorState /\ sim.now = 0 /\ sim.running = FALSE /\ sim.due = NotScheduled
        /\ sim.sequence = 1 /\ sim.queue = <<>>
    BY DEF SimulatorInit, SimulatorState
  <2>2. flushed = <<>> /\ flushed \in Seq(Emission) /\ <<>> \o <<>> = <<>> /\ Len(<<>>) = 0
    BY DEF SimulatorInit
  <2>3. InTurn(<<>>, 0)
    BY DEF InTurn
  <2>4. 1 <= Limit + 1 /\ 0 = 1 - 1
    BY DEF SimulatorBounds
  <2> QED
    BY <2>1, <2>2, <2>3, <2>4 DEF Whole
<1>2. Inv /\ [SimulatorNext]_simulatorVars => Inv'
  <2> SUFFICES ASSUME Inv, [SimulatorNext]_simulatorVars PROVE Inv'
    OBVIOUS
  <2>1. ASSUME sim' = Started(sim), flushed' = flushed PROVE Inv'
    BY <2>1, StartedIsWhole
  <2>2. ASSUME sim' = Stopped(sim), flushed' = flushed PROVE Inv'
    BY <2>2, StoppedIsWhole
  <2>3. ASSUME Flush PROVE Inv'
    BY <2>3, FlushedIsWhole DEF Flush
  <2>4. ASSUME NEW n \in 0..2, Step(n) PROVE Inv'
    <3>1. n \in Nat
      OBVIOUS
    <3> QED
      BY <2>4, <3>1, SteppedTurns DEF Step
  <2>5. ASSUME NEW d \in 0..(Interval + 1), Advance(d) PROVE Inv'
    <3>1. d \in Nat
      BY DEF SimulatorBounds
    <3> QED
      BY <2>5, <3>1, AdvancedIsWhole DEF Advance
  <2>6. CASE UNCHANGED simulatorVars
    BY <2>6 DEF simulatorVars
  <2> QED
    BY <2>1, <2>2, <2>3, <2>4, <2>5, <2>6 DEF SimulatorNext, Start, Stop
<1> QED
  BY <1>1, <1>2, PTL DEF SimulatorSpec

\* Whatever is started, stopped, stepped, advanced and flushed, the stream
\* has no hole and no repetition, its capture times never go back, it ends at
\* the event limit, and only a running simulator has an emission due.
THEOREM StreamAlwaysWhole ==
    ASSUME SimulatorBounds
    PROVE  SimulatorSpec => []StreamIsWhole
<1>1. Whole(sim, flushed) => StreamIsWhole
  <2> SUFFICES ASSUME Whole(sim, flushed) PROVE StreamIsWhole
    OBVIOUS
  <2> DEFINE all == flushed \o sim.queue
  <2>1. InTurn(all, sim.now) /\ Len(all) = sim.sequence - 1 /\ sim.sequence <= Limit + 1
    BY DEF Whole
  <2>2. sim.sequence \in Nat /\ Limit \in Nat
    BY DEF Whole, SimulatorState, SimulatorBounds
  <2> HIDE DEF all
  <2>3. Len(all) <= Limit
    BY <2>1, <2>2
  <2>4. (sim.running <=> sim.due # NotScheduled) /\ (sim.running => sim.due >= sim.now)
    BY DEF Whole
  <2>5. (\A i \in DOMAIN all : all[i].n = i) /\ \A i, j \in DOMAIN all : i < j => all[i].captured <= all[j].captured
    BY <2>1 DEF InTurn
  <2> QED
    BY <2>1, <2>3, <2>4, <2>5 DEF StreamIsWhole, all
<1> QED
  BY <1>1, StaysWhole, PTL

\* However the time of the simulator is cut, the same events come out of it:
\* two advances are one, and a step is an advance to the emission that is due.
THEOREM TimeCutsNeverMatter ==
    ASSUME SimulatorBounds
    PROVE  SimulatorSpec => []TimeCutsDoNotMatter
<1>1. Whole(sim, flushed) => TimeCutsDoNotMatter
  <2> SUFFICES ASSUME Whole(sim, flushed) PROVE TimeCutsDoNotMatter
    OBVIOUS
  <2>1. ASSUME NEW a \in 0..(Interval + 1), NEW b \in 0..(Interval + 1)
        PROVE  Advanced(Advanced(sim, a), b) = Advanced(sim, a + b)
    <3>1. a \in Nat /\ b \in Nat
      BY DEF SimulatorBounds
    <3> QED
      BY <3>1, CutsAgree
  <2>2. sim.running /\ ~AtLimit(sim) => Stepped(sim, 1) = Advanced(sim, sim.due - sim.now)
    BY StepIsAnAdvance
  <2> QED
    BY <2>1, <2>2 DEF TimeCutsDoNotMatter
<1> QED
  BY <1>1, StaysWhole, PTL
================================================================================
