------------------------- MODULE GenericHttpAdapter -------------------------
(***************************************************************************)
(* What the HTTP host makes of one vendor event: parse and normalize of    *)
(* netlify/functions/_telemetry/generic-http-adapter.ts, the canonical      *)
(* JSON and event identity of identity.ts, the call of                      *)
(* supabase-persistence-v2.ts and the input checks of the database function *)
(* it calls.  A digest is modelled as injective: it is its own material.    *)
(***************************************************************************)
EXTENDS BoundaryContracts, FiniteSetsExt, TLC

CONSTANTS MaxEvents,      \* MAX_HTTP_EVENTS, 100 in the code
          MaxObservations \* MAX_OBSERVATIONS_PER_EVENT, 32 in the code

AdapterId == Txt("kootha.generic_http", 19)
AdapterVersion == Txt("1", 1)
NormalizationVersion == Txt("generic-http-v1", 15)

VendorEventFields == {"sourceEventId", "clientEventId", "capturedAt", "streamEpoch", "sequence",
                      "position", "health", "observations"}

Exact(v, fields) == v.type = "record" /\ DOMAIN v.fields \subseteq fields
BoundedText(v, maximum) == v.type = "text" /\ v.length \in 1..maximum /\ v.odd \subseteq {"surrogate"}
OptionalText(v, maximum) == v.type = "absent" \/ BoundedText(v, maximum)
Natural(v) == v.type = "number" /\ v.whole /\ v.num >= 0

(* validInputEvent: a stream epoch and a sequence come together or not at all. *)
ValidInput(e) ==
    /\ Exact(e, VendorEventFields)
    /\ BoundedText(Get(e, "capturedAt"), 40)
    /\ \A f \in {"clientEventId", "sourceEventId", "streamEpoch"} : OptionalText(Get(e, f), 128)
    /\ Get(e, "sequence").type = "absent" \/ Natural(Get(e, "sequence"))
    /\ (Get(e, "streamEpoch").type = "absent") <=> (Get(e, "sequence").type = "absent")
    /\ Get(e, "position").type = "absent" \/ Exact(Get(e, "position"), DOMAIN PositionRanges)
    /\ Get(e, "health").type = "absent" \/ Exact(Get(e, "health"), HealthFields)
    /\ LET l == Get(e, "observations")
       IN  l.type = "absent"
           \/ /\ l.type = "list" /\ Len(l.items) <= MaxObservations
              /\ \A i \in 1..Len(l.items) : Exact(l.items[i], {"metric", "value", "unit"})

\* parse: the answer is "ok" or a reason.
Parse(payload) ==
    LET events == Get(payload, "events")
    IN  IF \/ ~Exact(payload, {"contractVersion", "events"})
           \/ ~OneOf(Get(payload, "contractVersion"), {"1"})
           \/ events.type # "list"
        THEN "vendor_schema_invalid"
        ELSE IF Len(events.items) > MaxEvents THEN "batch_too_large"
        ELSE IF events.items = <<>> \/ \E i \in 1..Len(events.items) : ~ValidInput(events.items[i])
        THEN "vendor_schema_invalid"
        ELSE "ok"

(* identity.ts: stable JSON has limits on depth, nodes, items and text. *)
Children(v) == CASE v.type = "record" -> {<<f, v.fields[f]>> : f \in DOMAIN v.fields}
                 [] v.type = "list" -> {<<i, v.items[i]>> : i \in 1..Len(v.items)}
                 [] OTHER -> {}

MaxDepth == 16

\* The parts of a value at each depth, with their paths.
PartsAt(v) ==
    LET at[d \in Nat] ==
            IF d = 0 THEN {<<<<>>, v>>}
            ELSE UNION {{<<Append(p[1], c[1]), c[2]>> : c \in Children(p[2])} : p \in at[d - 1]}
    IN  at

Parts(v) == UNION {PartsAt(v)[d] : d \in 0..MaxDepth}

\* The length of the JSON text, summed over the parts of each width; a number
\* takes at most 24 characters and a field name at most 20.
Width(v) == CASE v.type = "text" -> v.length + 2
              [] v.type \in {"record", "list"} -> 2 + 24 * Cardinality(Children(v))
              [] OTHER -> 24

Written(v) == LET parts == Parts(v)
              IN  MapThenSumSet(LAMBDA n : n * Cardinality({p \in parts : Width(p[2]) = n}),
                                {Width(p[2]) : p \in parts})

Canonicalizes(v) ==
    /\ PartsAt(v)[MaxDepth + 1] = {}
    /\ Cardinality(Parts(v)) <= 512
    /\ \A p \in Parts(v) : /\ p[2].type = "text" => p[2].length <= 1024
                           /\ Cardinality(Children(p[2])) <= 64
    /\ Written(v) <= 65536

Digest(material) == Txt(material, 64)

(* createCanonicalEventIdentityV1: the vendor's identity, else the client's, *)
(* else the content; always within adapter and device.                      *)
IdentityMaterial(e, device, content) ==
    IF Get(e, "sourceEventId").type # "absent"
    THEN <<"vendor_event_id", device, Get(e, "sourceEventId").name>>
    ELSE IF Get(e, "clientEventId").type # "absent"
    THEN <<"client_event_id", device, Get(e, "clientEventId").name>>
    ELSE <<"derived_payload", device, Get(e, "capturedAt").at, Get(e, "streamEpoch"),
           Get(e, "sequence"), content>>

(* normalizeObservation; Absent when the metric, unit or value is not supported. *)
NormalObservation(raw, capturedAt, device) ==
    LET metric == Get(raw, "metric")
        unit == Get(raw, "unit")
        value == Get(raw, "value")
        supported ==
            /\ OneOf(metric, DOMAIN Units) /\ OneOf(unit, {Units[metric.name]})
            /\ IF metric.name \in DOMAIN Measured THEN value.type = "number"
               ELSE IF metric.name = "door_state" THEN OneOf(value, DoorStates)
               ELSE value.type = "boolean"
    IN  IF ~supported THEN Absent
        ELSE Rec([contractVersion |-> Txt("1", 1), capturedAt |-> capturedAt,
                  deviceExternalId |-> device, source |-> Txt("physical_device", 15),
                  normalizationVersion |-> NormalizationVersion, quality |-> Txt("good", 4),
                  synthetic |-> Bool(FALSE), metric |-> metric, value |-> value, unit |-> unit])

Observations(e, device) ==
    LET raw == IF Get(e, "observations").type = "absent" THEN <<>> ELSE Get(e, "observations").items
    IN  [i \in 1..Len(raw) |-> NormalObservation(raw[i], Get(e, "capturedAt"), device)]

\* What the content hash covers: a field that is not there counts as null.
Content(e, device) ==
    Rec([f \in VendorEventFields \cup {"deviceExternalId"} |->
            CASE f = "deviceExternalId" -> device
              [] f = "observations" -> List(Observations(e, device))
              [] OTHER -> Get(e, f)])

\* The canonical event of a vendor event.
Canonical(e, device, receivedAt) ==
    LET content == Content(e, device)
        identity == IdentityMaterial(e, device, content)
        fixed == [contractVersion |-> Txt("1", 1), canonicalEventId |-> Digest(identity),
                  idempotencyIdentity |-> Digest(identity), deviceExternalId |-> device,
                  authenticatedDeviceExternalId |-> device,
                  adapter |-> Rec([id |-> AdapterId, version |-> AdapterVersion]),
                  capturedAt |-> Get(e, "capturedAt"), receivedAt |-> Stamp(receivedAt),
                  normalizedAt |-> Stamp(receivedAt),
                  observedClockOffsetMs |-> Num(receivedAt - Get(e, "capturedAt").at),
                  quality |-> Txt("valid", 5),
                  provenance |-> Rec([source |-> Txt("physical_device", 15),
                      normalizationVersion |-> NormalizationVersion, synthetic |-> Bool(FALSE),
                      rawPayloadHash |-> Digest(e), canonicalPayloadHash |-> Digest(content)])]
        copied == [vendorEventId |-> Get(e, "sourceEventId"), clientEventId |-> Get(e, "clientEventId"),
                   position |-> Get(e, "position"), health |-> Get(e, "health"),
                   stream |-> IF Get(e, "streamEpoch").type = "absent" THEN Absent
                              ELSE Rec([epoch |-> Get(e, "streamEpoch"), sequence |-> Get(e, "sequence")]),
                   observations |-> IF Observations(e, device) = <<>> THEN Absent
                                    ELSE List(Observations(e, device))]
        present == {f \in DOMAIN copied : copied[f].type # "absent"}
    IN  Rec([f \in DOMAIN fixed \cup present |-> IF f \in present THEN copied[f] ELSE fixed[f]])

\* normalize: [reason, event]; reason is "ok" with the event.
Normalize(e, device, receivedAt) ==
    LET capturedAt == Get(e, "capturedAt")
        Refused(reason) == [reason |-> reason, event |-> Absent]
        observations == Observations(e, device)
        event == Canonical(e, device, receivedAt)
    IN  IF ~ValidInput(e) THEN Refused("canonical_event_invalid")
        ELSE IF capturedAt.at = NoTime \/ ~capturedAt.millis THEN Refused("captured_time_invalid")
        ELSE IF \E i \in 1..Len(observations) : observations[i] = Absent
        THEN Refused("sensor_observation_unsupported")
        ELSE IF ~Canonicalizes(e) \/ ~Canonicalizes(Content(e, device))
        THEN Refused("canonical_event_invalid")
        ELSE IF EventIssues(event) # {} THEN Refused("canonical_event_invalid")
        ELSE [reason |-> "ok", event |-> event]

(* acknowledge: the results are dispositions. *)
Refusals(results) == Cardinality({i \in 1..Len(results) : results[i] \in {"rejected", "duplicate_conflict"}})

Acknowledge(results, receipt) ==
    LET refused == Refusals(results)
        accepted == Len(results) - refused
    IN  Rec([contractVersion |-> Txt("1", 1), receipt |-> receipt,
             status |-> IF refused = 0 THEN Txt("accepted", 8)
                        ELSE IF accepted = 0 THEN Txt("rejected", 8)
                        ELSE Txt("partially_accepted", 18),
             acceptedCount |-> Num(accepted), rejectedCount |-> Num(refused),
             retryable |-> Bool(FALSE),
             reasonCode |-> IF refused = 0 THEN Txt("processed", 9)
                            ELSE IF accepted = 0 THEN Txt("request_rejected", 16)
                            ELSE Txt("partial_rejection", 17)])

(* supabase-persistence-v2.ts: the parameters of the database call. *)
StoreParameters(event) ==
    LET Part(field, part) == IF Get(event, field).type = "absent" THEN Absent
                             ELSE Get(Get(event, field), part)
        others ==
           [idempotency_identity |-> Get(event, "idempotencyIdentity"),
            content_hash |-> Get(Get(event, "provenance"), "canonicalPayloadHash"),
            raw_payload_hash |-> Get(Get(event, "provenance"), "rawPayloadHash"),
            client_event_id |-> IF Get(event, "clientEventId").type # "absent"
                                THEN Get(event, "clientEventId") ELSE Get(event, "vendorEventId"),
            stream_epoch |-> Part("stream", "epoch"), sequence |-> Part("stream", "sequence"),
            captured_at |-> Get(event, "capturedAt").at, received_at |-> Get(event, "receivedAt").at,
            normalized_at |-> Get(event, "normalizedAt").at,
            observations |-> IF Get(event, "observations").type = "absent" THEN <<>>
                             ELSE Get(event, "observations").items,
            quality |-> Get(event, "quality").name,
            processing_version |-> Get(Get(event, "provenance"), "normalizationVersion")]
    IN  [f \in DOMAIN PositionRanges \cup HealthFields \cup DOMAIN others |->
            IF f \in DOMAIN PositionRanges THEN Part("position", f)
            ELSE IF f \in HealthFields THEN Part("health", f) ELSE others[f]]

(* The conversion of the parameters to the types of the function: text has  *)
(* neither \u0000 nor half a surrogate pair, timestamptz has no year 0 (the *)
(* strict timestamps have: every instant before YearOne is one of year 0).  *)
YearOne == -1000000
HoldsText(v) == v.type = "text" => v.odd \cap {"nul", "surrogate"} = {}
DeviceTexts == {"client_event_id", "stream_epoch", "firmwareVersion"}
Instants == {"captured_at", "received_at", "normalized_at"}
Converts(p) == (\A f \in DeviceTexts : HoldsText(p[f])) /\ \A f \in Instants : p[f] >= YearOne

(* That conversion, the input checks of m21_persist_telemetry_event and of  *)
(* the tables it writes; when one fails the call raises and the whole       *)
(* request is 503.                                                         *)
StoreRanges == [latitude |-> <<-90, 90>>, longitude |-> <<-180, 180>>,
    altitudeMeters |-> <<-1000, 20000>>, accuracyMeters |-> <<0, 100000>>,
    speedMetersPerSecond |-> <<0, 200>>, headingDegrees |-> <<0, 360>>, satellites |-> <<0, 256>>]
StoredNumbers == [fuel_level |-> <<0, 100>>, temperature |-> <<-100, 250>>, vibration |-> <<0, 1000>>]

Within(v, range) == v.type = "absent" \/ (v.type = "number" /\ v.num \in range[1]..range[2])
TextWithin(v, least, most) == v.type = "absent" \/ (v.type = "text" /\ v.length \in least..most)

StoresObservation(o, p) ==
    LET metric == Get(o, "metric").name
    IN  /\ Get(o, "capturedAt").at = p.captured_at
        /\ OneOf(Get(o, "unit"), {Units[metric]})
        /\ IF metric \in DOMAIN Measured
           THEN Get(o, "value").type = "number" /\ Within(Get(o, "value"), StoredNumbers[metric])
           ELSE IF metric = "door_state" THEN OneOf(Get(o, "value"), DoorStates)
           ELSE Get(o, "value").type = "boolean"

StoreAccepts(p) ==
    /\ Converts(p)
    /\ TextWithin(p.idempotency_identity, 1, 256) /\ TextWithin(p.client_event_id, 1, 128)
    /\ TextWithin(p.stream_epoch, 1, 128)
    /\ (p.stream_epoch.type = "absent") <=> (p.sequence.type = "absent")
    /\ p.sequence.type = "absent" \/ p.sequence.num >= 0
    /\ p.quality \in {"valid", "degraded", "suspect"} /\ TextWithin(p.processing_version, 1, 32)
    /\ (p.latitude.type = "absent") <=> (p.longitude.type = "absent")
    /\ \A f \in DOMAIN StoreRanges : Within(p[f], StoreRanges[f])
    /\ Within(p.batteryPercent, <<0, 100>>) /\ Within(p.gsmSignalDbm, <<-200, 0>>)
    /\ TextWithin(p.firmwareVersion, 0, 64)
    /\ p.gpsFix.type = "absent" \/ OneOf(p.gpsFix, GpsFixes)
    /\ Len(p.observations) <= 32
    /\ \A i \in 1..Len(p.observations) : StoresObservation(p.observations[i], p)

(***************************************************************************)
(* Properties of one vendor event, or of two, from one device.             *)
(***************************************************************************)

\* What the database can hold of an event: its instant, and the texts that it
\* is given as they are.
HoldsEvent(e) ==
    LET Given(f) == Get(e, f).type # "absent"
    IN  /\ Get(e, "capturedAt").at >= YearOne
        /\ HoldsText(Get(e, IF Given("clientEventId") THEN "clientEventId" ELSE "sourceEventId"))
        /\ HoldsText(Get(e, "streamEpoch"))
        /\ Given("health") => HoldsText(Get(Get(e, "health"), "firmwareVersion"))

\* An event the adapter lets through is one the database stores, with one
\* exception: a text or an instant that the adapter lets through and PostgreSQL
\* has no value for.  Then the whole request is answered 503, at every retry.
Storable(e, device, receivedAt) ==
    LET result == Normalize(e, device, receivedAt)
    IN  result.reason = "ok" => (StoreAccepts(StoreParameters(result.event)) <=> HoldsEvent(e))

\* A retry, received later, has the identity and the content of the first
\* attempt, and is let through or refused for the same reason.
RetryIsTheSame(e, device, first, again) ==
    LET a == Normalize(e, device, first)
        b == Normalize(e, device, again)
    IN  /\ a.reason = b.reason
        /\ a.reason = "ok" => /\ Get(a.event, "idempotencyIdentity") = Get(b.event, "idempotencyIdentity")
                              /\ StoreParameters(a.event).content_hash = StoreParameters(b.event).content_hash

\* Two events without identifiers of their own share an identity only when
\* they say the same; an identifier of the client never meets one of the vendor.
IdentitiesTellApart(e, f, device) ==
    LET a == Normalize(e, device, Get(e, "capturedAt").at)
        b == Normalize(f, device, Get(f, "capturedAt").at)
        Named(x) == Get(x, "sourceEventId").type # "absent" \/ Get(x, "clientEventId").type # "absent"
        Vendor(x) == Get(x, "sourceEventId").type # "absent"
    IN  /\ a.reason = "ok" /\ b.reason = "ok"
        /\ Get(a.event, "idempotencyIdentity") = Get(b.event, "idempotencyIdentity")
        => /\ ~Named(e) => Content(e, device) = Content(f, device)
           /\ Vendor(e) <=> Vendor(f)

\* What the host acknowledges is an acknowledgement of the contract.
AcknowledgementIsValid(results, receipt) ==
    results # <<>> => AcknowledgementIssues(Acknowledge(results, receipt)) = {}
=============================================================================
