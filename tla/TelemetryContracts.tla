------------------------- MODULE TelemetryContracts -------------------------
(***************************************************************************)
(* The canonical telemetry contract: packages/shared/src/physicalTelemetry *)
(* validation.ts, timestamp.ts and the parts of contracts.ts they check.   *)
(*                                                                         *)
(* A JSON value is a record tagged with its type.  Text keeps its length   *)
(* (0 when blank), an identity, the kinds of odd characters it has, its     *)
(* instant when it is a strict UTC timestamp and whether it is written to   *)
(* the millisecond; a number keeps its value and whether it is an integer.  *)
(* Odd are blanks at an end of a text that is not empty (outer), \u0000     *)
(* (nul), any other control character (control) and half a surrogate pair   *)
(* (surrogate).                                                            *)
(* A validator returns the set of its issues, <<path, code>>.              *)
(***************************************************************************)
EXTENDS Integers, Sequences, FiniteSets

NoTime == -1

Absent == [type |-> "absent"]
Txt(name, length) == [type |-> "text", name |-> name, length |-> length, odd |-> {},
                      at |-> NoTime, millis |-> FALSE]
Odd(text, kinds) == [text EXCEPT !.odd = kinds]
Stamp(instant) == [Txt("stamp", 24) EXCEPT !.at = instant, !.millis = TRUE]
Num(n) == [type |-> "number", num |-> n, whole |-> TRUE]
Fraction(n) == [type |-> "number", num |-> n, whole |-> FALSE]
Bool(b) == [type |-> "boolean", bool |-> b]
Rec(fields) == [type |-> "record", fields |-> fields]
List(items) == [type |-> "list", items |-> items]

\* A field of a record; what is not there is undefined in the code.
Get(r, field) == IF field \in DOMAIN r.fields THEN r.fields[field] ELSE Absent

Issue(wrong, path, code) == IF wrong THEN {<<path, code>>} ELSE {}
Optional(v, issues) == IF v.type = "absent" THEN {} ELSE issues
Below(path, issues) == {<<path \o i[1], i[2]>> : i \in issues}

(* timestamp.ts: only real UTC instants written to the second or finer. *)
ParseStrictUtc(v) ==
    IF v.type = "text" /\ v.length <= 40 THEN v.at ELSE NoTime

(* The value checks shared by every validator. *)
Unexpected(r, allowed) == {<<<<f>>, "unexpected_field">> : f \in DOMAIN r.fields \ allowed}

TextIssues(v, path, maximum) ==
    IF v.type # "text" THEN {<<path, "invalid_type">>}
    ELSE IF v.length = 0 THEN {<<path, "invalid_type">>}
    ELSE Issue(v.length > maximum, path, "too_long")

TimeIssues(v, path) ==
    LET text == TextIssues(v, path, 40)
    IN  text \cup Issue(text = {} /\ ParseStrictUtc(v) = NoTime, path, "invalid_value")

RangeIssues(v, path, range) ==
    IF v.type # "number" THEN {<<path, "invalid_type">>}
    ELSE Issue(v.num < range[1] \/ v.num > range[2], path, "out_of_range")

OneOf(v, names) == v.type = "text" /\ v.name \in names

SourceIssues(source, synthetic) ==
    Issue(~OneOf(source, {"physical_device", "simulator"}), <<"source">>, "unsupported")
    \cup IF synthetic.type # "boolean" THEN {<<<<"synthetic">>, "invalid_type">>}
         ELSE Issue(OneOf(source, {"simulator"}) /\ ~synthetic.bool,
                    <<"synthetic">>, "invalid_value")

(* One sensor observation: its metric fixes its unit and its values. *)
Units == [fuel_level |-> "percentage", temperature |-> "celsius", door_state |-> "state",
          vibration |-> "meters_per_second_squared", external_power |-> "boolean",
          ignition |-> "boolean", tamper |-> "boolean"]
Measured == [fuel_level |-> <<0, 100>>, temperature |-> <<-100, 200>>, vibration |-> <<0, 1000>>]
DoorStates == {"open", "closed", "unknown"}
ObservationFields == {"contractVersion", "metric", "value", "unit", "capturedAt",
    "deviceExternalId", "source", "normalizationVersion", "quality", "synthetic"}

MetricIssues(metric, unit, value) ==
    Issue(~OneOf(unit, {Units[metric]}), <<"unit">>, "unsupported")
    \cup (IF metric \in DOMAIN Measured THEN RangeIssues(value, <<"value">>, Measured[metric])
          ELSE IF metric = "door_state" THEN Issue(~OneOf(value, DoorStates), <<"value">>, "unsupported")
          ELSE Issue(value.type # "boolean", <<"value">>, "invalid_type"))

ObservationIssues(o) ==
    IF o.type # "record" THEN {<<<<>>, "invalid_type">>}
    ELSE Unexpected(o, ObservationFields)
         \cup Issue(~OneOf(Get(o, "contractVersion"), {"1"}), <<"contractVersion">>, "unsupported")
         \cup TimeIssues(Get(o, "capturedAt"), <<"capturedAt">>)
         \cup TextIssues(Get(o, "deviceExternalId"), <<"deviceExternalId">>, 128)
         \cup SourceIssues(Get(o, "source"), Get(o, "synthetic"))
         \cup TextIssues(Get(o, "normalizationVersion"), <<"normalizationVersion">>, 64)
         \cup Issue(~OneOf(Get(o, "quality"), {"good", "degraded", "unknown", "invalid"}),
                    <<"quality">>, "unsupported")
         \cup (IF OneOf(Get(o, "metric"), DOMAIN Units)
               THEN MetricIssues(Get(o, "metric").name, Get(o, "unit"), Get(o, "value"))
               ELSE {<<<<"metric">>, "unsupported">>})

(* Position and device health. *)
PositionRangesWide == [latitude |-> <<-90, 90>>, longitude |-> <<-180, 180>>,
    altitudeMeters |-> <<-1000, 20000>>, accuracyMeters |-> <<0, 100000>>,
    speedMetersPerSecond |-> <<0, 300>>, headingDegrees |-> <<0, 360>>, satellites |-> <<0, 256>>]
PositionRanges == [latitude |-> <<-90, 90>>, longitude |-> <<-180, 180>>,
    altitudeMeters |-> <<-1000, 20000>>, accuracyMeters |-> <<0, 100000>>,
    speedMetersPerSecond |-> <<0, 200>>, headingDegrees |-> <<0, 360>>, satellites |-> <<0, 256>>]

PositionIssues(p) ==
    IF p.type # "record" THEN {<<<<>>, "invalid_type">>}
    ELSE Unexpected(p, DOMAIN PositionRanges)
         \cup (UNION {LET v == Get(p, f)
                         issues == RangeIssues(v, <<f>>, PositionRanges[f])
                     IN  IF f \in {"latitude", "longitude"} THEN issues
                         ELSE Optional(v, issues) : f \in DOMAIN PositionRanges})
         \cup LET v == Get(p, "satellites")
              IN  Optional(v, Issue(RangeIssues(v, <<>>, PositionRanges["satellites"]) # {}
                                      \/ (v.type = "number" /\ ~v.whole),
                                    <<"satellites">>, "invalid_value"))

HealthFields == {"heartbeat", "batteryPercent", "externalPower", "firmwareVersion",
                 "gpsFix", "gsmSignalDbm"}
GpsFixes == {"none", "two_dimensional", "three_dimensional"}

HealthIssues(h) ==
    IF h.type # "record" THEN {<<<<>>, "invalid_type">>}
    ELSE LET OptionalField(f, issues) == Optional(Get(h, f), issues)
         IN  Unexpected(h, HealthFields)
             \cup Issue(Get(h, "heartbeat").type # "boolean", <<"heartbeat">>, "invalid_type")
             \cup OptionalField("batteryPercent",
                    RangeIssues(Get(h, "batteryPercent"), <<"batteryPercent">>, <<0, 100>>))
             \cup OptionalField("externalPower",
                    Issue(Get(h, "externalPower").type # "boolean", <<"externalPower">>, "invalid_type"))
             \cup OptionalField("firmwareVersion",
                    TextIssues(Get(h, "firmwareVersion"), <<"firmwareVersion">>, 64))
             \cup OptionalField("gpsFix",
                    Issue(~OneOf(Get(h, "gpsFix"), GpsFixes), <<"gpsFix">>, "unsupported"))
             \cup OptionalField("gsmSignalDbm",
                    RangeIssues(Get(h, "gsmSignalDbm"), <<"gsmSignalDbm">>, <<-200, 0>>))

(* Every observation is bound to its event: the same device, source, *)
(* marker, time and normalization.                                   *)
BindingIssues(event) ==
    IF Get(event, "observations").type # "list" \/ Get(event, "provenance").type # "record" THEN {}
    ELSE UNION {LET o == Get(event, "observations").items[i]
                    Bound(field, value) == Issue(Get(o, field) # value, <<"observations", i, field>>, "invalid_value")
                    provenance == Get(event, "provenance")
                IN  IF o.type # "record" THEN {}
                    ELSE Bound("deviceExternalId", Get(event, "deviceExternalId"))
                         \cup Bound("capturedAt", Get(event, "capturedAt"))
                         \cup (UNION {Bound(f, Get(provenance, f)) :
                                     f \in {"source", "synthetic", "normalizationVersion"}}) :
                i \in 1..Len(Get(event, "observations").items)}

StreamIssues(s) ==
    IF s.type # "record" THEN {<<<<>>, "invalid_type">>}
    ELSE Unexpected(s, {"epoch", "sequence"})
         \cup TextIssues(Get(s, "epoch"), <<"epoch">>, 128)
         \cup LET n == Get(s, "sequence")
              IN  Issue(n.type # "number" \/ (n.type = "number" /\ (~n.whole \/ n.num < 0)),
                        <<"sequence">>, "invalid_value")

ProvenanceIssues(p) ==
    IF p.type # "record" THEN {<<<<>>, "invalid_type">>}
    ELSE Unexpected(p, {"source", "normalizationVersion", "synthetic",
                        "rawPayloadHash", "canonicalPayloadHash"})
         \cup SourceIssues(Get(p, "source"), Get(p, "synthetic"))
         \cup TextIssues(Get(p, "normalizationVersion"), <<"normalizationVersion">>, 64)
         \cup TextIssues(Get(p, "rawPayloadHash"), <<"rawPayloadHash">>, 256)
         \cup TextIssues(Get(p, "canonicalPayloadHash"), <<"canonicalPayloadHash">>, 256)

ObservationListIssues(l) ==
    IF l.type # "list" THEN {<<<<>>, "invalid_type">>}
    ELSE IF Len(l.items) > 32 THEN {<<<<>>, "too_many_items">>}
    ELSE UNION {Below(<<i>>, ObservationIssues(l.items[i])) : i \in 1..Len(l.items)}

EventFields == {"contractVersion", "canonicalEventId", "idempotencyIdentity", "vendorEventId",
    "clientEventId", "deviceExternalId", "authenticatedDeviceExternalId", "adapter", "stream",
    "capturedAt", "receivedAt", "normalizedAt", "observedClockOffsetMs", "position", "health",
    "observations", "quality", "provenance"}

AdapterIssues(a) ==
    IF a.type # "record" THEN {<<<<>>, "invalid_type">>}
    ELSE Unexpected(a, {"id", "version"})
         \cup TextIssues(Get(a, "id"), <<"id">>, 64) \cup TextIssues(Get(a, "version"), <<"version">>, 64)

(* validateCanonicalTelemetryEventV1 *)
EventIssues(e) ==
    IF e.type # "record" THEN {<<<<>>, "invalid_type">>}
    ELSE LET V(f) == Get(e, f)
             Part(f, issues) == Optional(V(f), Below(<<f>>, issues))
         IN  Unexpected(e, EventFields)
             \cup Issue(~OneOf(V("contractVersion"), {"1"}), <<"contractVersion">>, "unsupported")
             \cup (UNION {TextIssues(V(f), <<f>>, 256) : f \in {"canonicalEventId", "idempotencyIdentity"}})
             \cup (UNION {Optional(V(f), TextIssues(V(f), <<f>>, 128)) : f \in {"vendorEventId", "clientEventId"}})
             \cup (UNION {TextIssues(V(f), <<f>>, 128) :
                         f \in {"deviceExternalId", "authenticatedDeviceExternalId"}})
             \cup Issue(V("deviceExternalId") # V("authenticatedDeviceExternalId"),
                        <<"authenticatedDeviceExternalId">>, "invalid_value")
             \cup Below(<<"adapter">>, AdapterIssues(V("adapter")))
             \cup Part("stream", StreamIssues(V("stream")))
             \cup (UNION {TimeIssues(V(f), <<f>>) : f \in {"capturedAt", "receivedAt", "normalizedAt"}})
             \cup Optional(V("observedClockOffsetMs"),
                    Issue(V("observedClockOffsetMs").type # "number",
                          <<"observedClockOffsetMs">>, "invalid_type"))
             \cup Part("position", PositionIssues(V("position")))
             \cup Part("health", HealthIssues(V("health")))
             \cup Part("observations", ObservationListIssues(V("observations")))
             \cup Issue(~OneOf(V("quality"), {"valid", "degraded", "suspect"}), <<"quality">>, "unsupported")
             \cup Below(<<"provenance">>, ProvenanceIssues(V("provenance")))
             \cup BindingIssues(e)
=============================================================================
