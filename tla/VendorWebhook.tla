---------------------------- MODULE VendorWebhook ----------------------------
(***************************************************************************)
(* The reference vendor webhook and its certification (M24F):              *)
(* netlify/functions/_m24f/reference-vendor-adapter.ts and                  *)
(* certification.ts.  Values are those of TelemetryContracts; a signature   *)
(* is modelled as the material it signs, so that only the holder of a       *)
(* secret can write it.  A field of a canonical event may be there and      *)
(* undefined (Absent), as object literals leave it.                         *)
(***************************************************************************)
EXTENDS GenericHttpAdapter

\* A record with some fields overridden or added, as a spread writes it.
Spread(base, overrides) ==
    [f \in DOMAIN base \cup DOMAIN overrides |-> IF f \in DOMAIN overrides THEN overrides[f] ELSE base[f]]

REFERENCE_VENDOR_ADAPTER_ID == Txt("reference-vendor-webhook-v1", 27)
REFERENCE_VENDOR_ADAPTER_VERSION == Txt("1.0.0", 5)
REFERENCE_VENDOR_MAX_PAYLOAD_BYTES == 65536
REFERENCE_VENDOR_MAX_BATCH_SIZE == 100
REFERENCE_VENDOR_MAX_OBSERVATIONS == 16
REFERENCE_VENDOR_SIGNATURE_MAX_AGE_SECONDS == 300

Missing(v) == v.type = "absent"
Between(v, least, most) == v.type = "number" /\ v.num \in least..most
AtLeast(v, least) == v.type = "number" /\ v.num >= least

(* The validators of one vendor event. *)
safeText(v, maximum) ==
    /\ v.type = "text" /\ v.length <= maximum /\ (v.length > 0 \/ "outer" \in v.odd)
    /\ v.odd \subseteq {"outer", "surrogate"}
validIsoTimestamp(v) == safeText(v, 40) /\ v.at # NoTime /\ v.millis

validPosition(p) ==
    /\ Exact(p, {"latitude", "longitude", "accuracyMeters", "speedMetersPerSecond", "headingDegrees"})
    /\ Between(Get(p, "latitude"), -90, 90) /\ Between(Get(p, "longitude"), -180, 180)
    /\ \A f \in {"accuracyMeters", "speedMetersPerSecond"} : Missing(Get(p, f)) \/ AtLeast(Get(p, f), 0)
    /\ Missing(Get(p, "headingDegrees")) \/ Between(Get(p, "headingDegrees"), 0, 360)

validHealth(h) ==
    /\ Exact(h, {"heartbeat", "batteryPercent", "externalPower", "gpsFix", "gsmSignalDbm"})
    /\ \A f \in {"heartbeat", "externalPower"} : Get(h, f).type \in {"absent", "boolean"}
    /\ Missing(Get(h, "batteryPercent")) \/ Between(Get(h, "batteryPercent"), 0, 100)
    /\ LET n == Get(h, "gsmSignalDbm") IN Missing(n) \/ (n.type = "number" /\ n.num <= 0)
    /\ Missing(Get(h, "gpsFix")) \/ OneOf(Get(h, "gpsFix"), GpsFixes)

validObservation(o) ==
    /\ Exact(o, {"metric", "value", "unit"})
    /\ OneOf(Get(o, "metric"), DOMAIN Units)
    /\ OneOf(Get(o, "unit"), {Units[Get(o, "metric").name]})
    /\ LET value == Get(o, "value")
       IN  CASE Get(o, "metric").name = "fuel_level" -> Between(value, 0, 100)
             [] Get(o, "metric").name = "temperature" -> value.type = "number"
             [] Get(o, "metric").name = "vibration" -> AtLeast(value, 0)
             [] Get(o, "metric").name = "door_state" -> OneOf(value, DoorStates)
             [] OTHER -> value.type = "boolean"

VendorEventParts == {"eventId", "deviceId", "capturedAt", "sequence", "streamEpoch", "location",
                     "health", "observations", "offline"}
validateReferenceVendorEventV1(e) ==
    /\ Exact(e, VendorEventParts)
    /\ safeText(Get(e, "eventId"), 128) /\ safeText(Get(e, "deviceId"), 128)
    /\ validIsoTimestamp(Get(e, "capturedAt")) /\ Get(e, "offline").type = "boolean"
    /\ Missing(Get(e, "sequence")) \/ Natural(Get(e, "sequence"))
    /\ Missing(Get(e, "streamEpoch"))
       \/ (safeText(Get(e, "streamEpoch"), 128) /\ ~Missing(Get(e, "sequence")))
    /\ Missing(Get(e, "location")) \/ validPosition(Get(e, "location"))
    /\ Missing(Get(e, "health")) \/ validHealth(Get(e, "health"))
    /\ LET l == Get(e, "observations")
       IN  Missing(l) \/ /\ l.type = "list" /\ Len(l.items) <= REFERENCE_VENDOR_MAX_OBSERVATIONS
                         /\ \A i \in 1..Len(l.items) : validObservation(l.items[i])

(***************************************************************************)
(* authenticate: `request` has the raw body and the headers signature,      *)
(* timestamp and keyId, each possibly missing; `options` the keys the       *)
(* server knows, the state of the device and the instant of receipt.        *)
(* Instants are seconds.                                                    *)
(***************************************************************************)
Malformed == [wellFormed |-> FALSE, over |-> <<>>]
createReferenceVendorSignatureV1(body, timestamp, secret) ==
    [wellFormed |-> TRUE, over |-> <<timestamp, body, secret>>]

Header(request, name) == name \in DOMAIN request
Distance(a, b) == IF a > b THEN a - b ELSE b - a

(* A mutated form: a timestamp of the future is never too far away. *)
OldOnly(options, timestamp) ==
    options.receivedAt - timestamp > REFERENCE_VENDOR_SIGNATURE_MAX_AGE_SECONDS
TooOld(options, timestamp) ==
    Distance(options.receivedAt, timestamp) > REFERENCE_VENDOR_SIGNATURE_MAX_AGE_SECONDS

authenticateReferenceVendorRequestV1(request, options) ==
    IF ~(Header(request, "signature") /\ Header(request, "timestamp") /\ Header(request, "keyId"))
    THEN "authentication_missing"
    ELSE IF options.deviceStatus = "unknown" THEN "device_unknown"
    ELSE IF options.deviceStatus = "inactive" THEN "device_inactive"
    ELSE IF \/ request.keyId \notin DOMAIN options.keys
            \/ options.keys[request.keyId].status = "revoked"
            \/ request.timestamp = NoTime \/ TooOld(options, request.timestamp)
            \/ ~request.signature.wellFormed
            \/ request.signature # createReferenceVendorSignatureV1(
                                       request.body, request.timestamp, options.keys[request.keyId].secret)
    THEN "authentication_invalid"
    ELSE "ok"

(* parse: one event, or the events of a batch. *)
NotParsed(reason) == [reason |-> reason, events |-> <<>>]

parse(payload, contentLengthBytes) ==
    LET batch == IF payload.type = "record" THEN Get(payload, "events") ELSE Absent
    IN  IF contentLengthBytes > REFERENCE_VENDOR_MAX_PAYLOAD_BYTES THEN NotParsed("payload_too_large")
        ELSE IF batch.type = "list"
        THEN IF /\ Len(batch.items) \in 1..REFERENCE_VENDOR_MAX_BATCH_SIZE
                /\ \A i \in 1..Len(batch.items) : validateReferenceVendorEventV1(batch.items[i])
             THEN [reason |-> "ok", events |-> batch.items]
             ELSE NotParsed("vendor_schema_invalid")
        ELSE IF validateReferenceVendorEventV1(payload) THEN [reason |-> "ok", events |-> <<payload>>]
        ELSE NotParsed("vendor_schema_invalid")

normalizeObservation(o, capturedAt, device) ==
    Rec([contractVersion |-> Txt("1", 1), capturedAt |-> capturedAt, deviceExternalId |-> device,
         source |-> Txt("simulator", 9), normalizationVersion |-> REFERENCE_VENDOR_ADAPTER_VERSION,
         quality |-> Txt("good", 4), synthetic |-> Bool(TRUE),
         metric |-> Get(o, "metric"), value |-> Get(o, "value"), unit |-> Get(o, "unit")])

VendorObservations(e, device) ==
    LET raw == Get(e, "observations")
    IN  IF Missing(raw) THEN <<>>
        ELSE [i \in 1..Len(raw.items) |-> normalizeObservation(raw.items[i], Get(e, "capturedAt"), device)]

\* What the hash of the canonical payload covers; no list counts as an empty one.
Hashed(e, device) ==
    Rec([f \in VendorEventParts |->
            CASE f = "deviceId" -> device [] f = "observations" -> List(VendorObservations(e, device))
              [] OTHER -> Get(e, f)])

\* The canonical event; the fields of a position and of health are always named.
CanonicalVendorEvent(e, device, receivedAt) ==
    LET identity == Digest(<<"vendor_event_id", device, Get(e, "eventId").name>>)
        Named(part, fields) == [f \in fields |-> Get(Get(e, part), f)]
        health == Named("health", {"heartbeat", "batteryPercent", "externalPower", "gpsFix", "gsmSignalDbm"})
        copied ==
            [stream |-> IF Missing(Get(e, "streamEpoch")) THEN Absent
                        ELSE Rec([epoch |-> Get(e, "streamEpoch"), sequence |-> Get(e, "sequence")]),
             position |-> IF Missing(Get(e, "location")) THEN Absent
                          ELSE Rec(Named("location", {"latitude", "longitude", "accuracyMeters",
                                                      "speedMetersPerSecond", "headingDegrees"})),
             health |-> IF Missing(Get(e, "health")) THEN Absent
                        ELSE Rec([health EXCEPT !.heartbeat = IF Missing(@) THEN Bool(TRUE) ELSE @]),
             observations |-> IF Missing(Get(e, "observations")) THEN Absent
                              ELSE List(VendorObservations(e, device))]
        always ==
            [contractVersion |-> Txt("1", 1), canonicalEventId |-> identity, idempotencyIdentity |-> identity,
             vendorEventId |-> Get(e, "eventId"), deviceExternalId |-> device,
             authenticatedDeviceExternalId |-> device,
             adapter |-> Rec([id |-> REFERENCE_VENDOR_ADAPTER_ID, version |-> REFERENCE_VENDOR_ADAPTER_VERSION]),
             capturedAt |-> Get(e, "capturedAt"), receivedAt |-> Stamp(receivedAt), normalizedAt |-> Stamp(receivedAt),
             observedClockOffsetMs |-> Num(receivedAt - Get(e, "capturedAt").at),
             quality |-> IF Missing(Get(e, "location")) THEN Txt("degraded", 8) ELSE Txt("valid", 5),
             provenance |-> Rec([source |-> Txt("simulator", 9), synthetic |-> Bool(TRUE),
                 normalizationVersion |-> REFERENCE_VENDOR_ADAPTER_VERSION,
                 rawPayloadHash |-> Digest(e),
                 canonicalPayloadHash |-> Digest(Hashed(e, device))])]
    IN  Rec(Spread(always, [f \in {g \in DOMAIN copied : ~Missing(copied[g])} |-> copied[f]]))

Rejected(reason) == [reason |-> reason, event |-> Absent]

\* The identity of an event is not made of blanks.
Identifiable(e) == \A f \in {"eventId", "streamEpoch"} : Missing(Get(e, f)) \/ Get(e, f).length > 0

normalize(e, device, receivedAt) ==
    IF ~validateReferenceVendorEventV1(e) THEN Rejected("canonical_event_invalid")
    ELSE IF Get(e, "deviceId") # device THEN Rejected("device_vehicle_link_invalid")
    ELSE IF ~Canonicalizes(e) \/ ~Canonicalizes(Hashed(e, device)) THEN Rejected("canonical_event_invalid")
    ELSE IF ~Identifiable(e) THEN Rejected("event_identity_invalid")
    ELSE IF EventIssues(CanonicalVendorEvent(e, device, receivedAt)) # {}
    THEN Rejected("canonical_event_invalid")
    ELSE [reason |-> "ok", event |-> CanonicalVendorEvent(e, device, receivedAt)]

WorkStates == {"active", "before_start", "break", "after_end", "delayed_valid", "expired", "off_work_health_only"}

applyReferenceVendorPrivacyBoundaryV1(event, state) ==
    LET Kept(disposition) ==
            [disposition |-> disposition, locationPersisted |-> ~Missing(Get(event, "position"))]
        Dropped(disposition) == [disposition |-> disposition, locationPersisted |-> FALSE]
    IN  CASE state = "active" -> Kept("accepted_live")
          [] state = "delayed_valid" -> Kept("accepted_delayed")
          [] state = "expired" -> Dropped("rejected")
          [] OTHER -> Dropped("health_only")
classifyReferenceVendorDuplicateV1(known, incoming, knownContent, incomingContent) ==
    IF known # incoming THEN "not_duplicate"
    ELSE IF knownContent = incomingContent THEN "duplicate" ELSE "duplicate_conflict"

\* An undefined field has no canonical JSON: the identity is then refused.
Defined(v) == \A p \in Parts(v) : ~Missing(p[2])

ReceiptFields == {"canonicalEventId", "idempotencyIdentity", "receivedAt", "normalizedAt"}
referenceVendorContentIdentityV1(event) ==
    LET content == Spread([observations |-> List(<<>>)],
                          [f \in DOMAIN event.fields \ ReceiptFields |-> event.fields[f]])
    IN  IF Defined(Rec(content)) THEN Digest(content) ELSE Absent

(***************************************************************************)
(* runM24fAdapterCertificationV1: the scenarios that say something of the   *)
(* adapter, by category, on one good event.                                *)
(***************************************************************************)
ReceivedAt == 480
SignatureTimestamp == 450
DEVICE_ID == Txt("synthetic-reference-device-01", 29)
baseEvent(overrides) ==
    LET base ==
            [eventId |-> Txt("vendor-event-001", 16), deviceId |-> DEVICE_ID, capturedAt |-> Stamp(420),
             sequence |-> Num(1), streamEpoch |-> Txt("boot-001", 8),
             location |-> Rec([latitude |-> Num(13), longitude |-> Num(78), accuracyMeters |-> Num(8),
                               speedMetersPerSecond |-> Num(5), headingDegrees |-> Num(90)]),
             health |-> Rec([heartbeat |-> Bool(TRUE), batteryPercent |-> Num(88), externalPower |-> Bool(TRUE),
                             gpsFix |-> Txt("three_dimensional", 17), gsmSignalDbm |-> Num(-72)]),
             observations |-> List(<<Rec([metric |-> Txt("temperature", 11), value |-> Num(28),
                                          unit |-> Txt("celsius", 7)])>>),
             offline |-> Bool(FALSE)]
        all == Spread(base, overrides)
    IN  Rec([f \in {g \in DOMAIN all : ~Missing(all[g])} |-> all[f]])

Key(secret, status) == [secret |-> secret, status |-> status]
authOptions(overrides) ==
    Spread([keys |-> [k |-> Key("secret", "active")], deviceStatus |-> "active", receivedAt |-> ReceivedAt], overrides)
signedRequest(body, timestamp, overrides) ==
    Spread([body |-> body, timestamp |-> timestamp, keyId |-> "k",
            signature |-> createReferenceVendorSignatureV1(body, timestamp, "secret")], overrides)
Body == <<"event", "vendor-event-001">>
Accepts(request, options) == authenticateReferenceVendorRequestV1(request, options) = "ok"
Usual == signedRequest(Body, SignatureTimestamp, <<>>)

AuthenticationScenarios ==
    /\ Accepts(Usual, authOptions(<<>>))
    /\ ~Accepts(signedRequest(Body, SignatureTimestamp, [signature |-> [wellFormed |-> TRUE, over |-> <<>>]]), authOptions(<<>>))
    /\ ~Accepts(signedRequest(Body, ReceivedAt - 115200, <<>>), authOptions(<<>>))
    /\ ~Accepts([body |-> Body], authOptions(<<>>))
    /\ ~Accepts(signedRequest(Body, SignatureTimestamp, [keyId |-> "wrong-key"]), authOptions(<<>>))
    /\ ~Accepts(Usual, authOptions([deviceStatus |-> "unknown"]))
    /\ Accepts(Usual, authOptions([keys |-> [k |-> Key("secret", "rotated")]]))
    /\ ~Accepts(Usual, authOptions([keys |-> [k |-> Key("secret", "revoked")]]))

Parses(overrides) == parse(baseEvent(overrides), 1024).reason = "ok"
ParsesBatch(events) == parse(Rec([events |-> List(events)]), 1024).reason = "ok"

ParsingScenarios ==
    /\ Parses(<<>>) /\ Parses([location |-> Absent, health |-> Absent, observations |-> Absent])
    /\ parse(Txt("not-json", 8), 8).reason # "ok"
    /\ parse(baseEvent(<<>>), REFERENCE_VENDOR_MAX_PAYLOAD_BYTES + 1).reason # "ok"
    /\ ~Parses([workCode |-> Txt("untrusted", 9)])
    /\ ~Parses([observations |-> List(<<Rec([metric |-> Txt("odometer", 8), value |-> Num(1), unit |-> Txt("km", 2)])>>)])
    /\ ~Parses([location |-> Rec([latitude |-> Num(120), longitude |-> Num(1)])])
    /\ ~Parses([capturedAt |-> Txt("not-a-time", 10)]) /\ ~Parses([sequence |-> Num(-1)])
    /\ ~ParsesBatch([i \in 1..(REFERENCE_VENDOR_MAX_BATCH_SIZE + 1) |-> baseEvent([eventId |-> Txt(<<"event", i>>, 9)])])
    /\ ParsesBatch(<<baseEvent(<<>>), baseEvent([eventId |-> Txt("vendor-event-002", 16), sequence |-> Num(2),
                                                offline |-> Bool(TRUE)])>>)

Normal(overrides) == normalize(baseEvent(overrides), DEVICE_ID, ReceivedAt)
Hash(event) == Get(Get(event, "provenance"), "canonicalPayloadHash")
Class(known, incoming) ==
    classifyReferenceVendorDuplicateV1(
        Get(known, "idempotencyIdentity"), Get(incoming, "idempotencyIdentity"),
        referenceVendorContentIdentityV1(known), referenceVendorContentIdentityV1(incoming))

NormalizationScenarios ==
    LET event == Normal(<<>>).event
        changed == Normal([location |-> Rec([latitude |-> Num(14), longitude |-> Num(78), accuracyMeters |-> Num(8),
                                             speedMetersPerSecond |-> Num(5), headingDegrees |-> Num(90)])]).event
    IN  /\ Get(event, "vendorEventId") = Txt("vendor-event-001", 16)
        /\ Get(Get(event, "adapter"), "id") = REFERENCE_VENDOR_ADAPTER_ID
        /\ Hash(event) = Hash(Normal(<<>>).event)
        /\ Get(event, "receivedAt") = Stamp(ReceivedAt)
        /\ Get(Get(event, "provenance"), "synthetic") = Bool(TRUE)
        /\ Get(Get(event, "health"), "gsmSignalDbm") = Num(-72)
        /\ Get(Get(event, "observations").items[1], "metric") = Txt("temperature", 11)
        /\ Class(event, event) = "duplicate" /\ Class(event, changed) = "duplicate_conflict"

PrivacyScenarios ==
    LET Boundary(state) == applyReferenceVendorPrivacyBoundaryV1(Normal(<<>>).event, state)
    IN  /\ Boundary("expired").disposition = "rejected" /\ Boundary("active").locationPersisted
        /\ \A s \in {"before_start", "after_end", "off_work_health_only"} : ~Boundary(s).locationPersisted
        /\ Boundary("break").disposition = "health_only" /\ Boundary("delayed_valid").disposition = "accepted_delayed"
        /\ Normal([deviceId |-> Txt("other-device", 12)]).reason # "ok"

runM24fAdapterCertificationV1 ==
    IF AuthenticationScenarios /\ ParsingScenarios /\ NormalizationScenarios /\ PrivacyScenarios
    THEN "passed" ELSE "failed"

(***************************************************************************)
(* Properties.                                                             *)
(***************************************************************************)

\* A signed request is accepted only while its key, its device and its age
\* allow it, and no part of it can be exchanged: not the body, the instant,
\* the key or the signature.
OnlyTheSignedRequest(request, options, bodies, times, keyIds) ==
    LET Signed(k) == request.signature =
            createReferenceVendorSignatureV1(request.body, request.timestamp, options.keys[k].secret)
        changed == {[request EXCEPT !.body = b] : b \in bodies} \cup {[request EXCEPT !.timestamp = t] : t \in times}
                   \cup {[request EXCEPT !.signature = Malformed]}
    IN  Accepts(request, options) =>
            /\ options.deviceStatus = "active" /\ options.keys[request.keyId].status # "revoked"
            /\ Signed(request.keyId)
            /\ request.timestamp - options.receivedAt \in -300..300
            /\ \A r \in changed \ {request} : ~Accepts(r, options)
            /\ \A k \in keyIds : Accepts([request EXCEPT !.keyId = k], options) =>
                    options.keys[k].secret = options.keys[request.keyId].secret

\* What an event says: no list of observations is the same as an empty one.
Says(e) == [f \in VendorEventParts |->
               IF f = "observations" /\ Missing(Get(e, f)) THEN List(<<>>) ELSE Get(e, f)]

\* An event that normalises is one the database stores, unless PostgreSQL has no
\* value for its instant or for a text it is given as it is; its position is
\* kept only in the two states of work that accept it; it keeps identity and
\* payload hash when it is received again later, and events with one hash say
\* the same, so that an identity used for other content is noticed.
HoldsVendorEvent(e) ==
    /\ Get(e, "capturedAt").at >= YearOne
    /\ HoldsText(Get(e, "eventId")) /\ HoldsText(Get(e, "streamEpoch"))
EventsAreSound(e, others, receivedAt, again) ==
    LET first == normalize(e, DEVICE_ID, receivedAt)
        later == normalize(e, DEVICE_ID, again)
        Same(a, b) == Get(a, "idempotencyIdentity") = Get(b, "idempotencyIdentity")
    IN  /\ first.reason = later.reason
        /\ first.reason = "ok" =>
            /\ StoreAccepts(StoreParameters(first.event)) <=> HoldsVendorEvent(e)
            /\ Same(first.event, later.event) /\ Hash(first.event) = Hash(later.event)
            /\ \A s \in WorkStates :
                   LET kept == applyReferenceVendorPrivacyBoundaryV1(first.event, s)
                   IN  kept.locationPersisted => kept.disposition \in {"accepted_live", "accepted_delayed"}
                                                 /\ s \in {"active", "delayed_valid"}
            /\ \A f \in others :
                   LET other == normalize(f, DEVICE_ID, again)
                   IN  other.reason = "ok" /\ Hash(first.event) = Hash(other.event) => Says(e) = Says(f)
=============================================================================
