-------------------------- MODULE BoundaryContracts --------------------------
(***************************************************************************)
(* The messages that cross the telemetry host's boundaries:                *)
(* packages/shared/src/physicalTelemetry/boundaryValidation.ts.  Values     *)
(* and issues are those of TelemetryContracts.                             *)
(***************************************************************************)
EXTENDS TelemetryContracts

Transports == {"http", "vendor_webhook", "vendor_poll", "mqtt", "tcp", "udp", "simulator"}
HostKinds == {"serverless_http", "always_on_http", "vendor_integration",
              "protocol_gateway", "simulator"}

RejectionReasons == {"authentication_failed", "device_inactive", "canonical_event_invalid",
    "sensor_observation_unsupported", "event_identity_invalid", "event_identity_conflict",
    "sequence_replay_invalid", "captured_time_invalid", "captured_time_future_skew",
    "captured_before_work_start", "captured_after_work_end", "work_not_released",
    "device_vehicle_link_invalid", "ad_work_assignment_invalid",
    "event_time_evidence_ambiguous", "delayed_backfill_expired"}
ProcessingReasons == RejectionReasons \cup {"canonical_validation_passed",
    "inside_live_freshness_window", "inside_delayed_backfill_window",
    "outside_active_work_location_discarded", "duplicate_identical_content"}

NoMatchReasons == {"device_not_resolved", "device_vehicle_link_not_resolved",
    "ad_work_assignment_not_resolved", "work_not_released", "work_day_not_resolved",
    "work_not_started"}
AmbiguousReasons == {"device_resolution_ambiguous", "device_vehicle_link_ambiguous",
    "ad_work_assignment_ambiguous", "work_release_ambiguous", "work_day_ambiguous"}

VersionIssues(r) ==
    Issue(~OneOf(Get(r, "contractVersion"), {"1"}), <<"contractVersion">>, "unsupported")

\* positiveSafeInteger (least 1) and nonnegativeSafeInteger (least 0)
CountIssues(v, path, least) ==
    Issue(v.type # "number" \/ (v.type = "number" /\ (~v.whole \/ v.num < least)),
          path, "invalid_value")

ReceiptIssues(r) ==
    IF r.type # "record" THEN {<<<<>>, "invalid_type">>}
    ELSE Unexpected(r, {"contractVersion", "correlationId", "hostReceivedAt"})
         \cup VersionIssues(r)
         \cup TextIssues(Get(r, "correlationId"), <<"correlationId">>, 128)
         \cup TimeIssues(Get(r, "hostReceivedAt"), <<"hostReceivedAt">>)

\* What a host must promise, word for word.
HostPromises == [correlationIdSemantics |-> "host_generated_or_validated",
                 hostReceivedAtSemantics |-> "assigned_at_ingress_acquisition",
                 acknowledgementBoundary |-> "transport_only_no_persistence_claim"]

HostPolicyIssues(p) ==
    IF p.type # "record" THEN {<<<<>>, "invalid_type">>}
    ELSE Unexpected(p, {"contractVersion", "hostKind", "transport", "maximumMessageBytes",
                        "maximumEventsPerMessage"} \cup DOMAIN HostPromises)
         \cup VersionIssues(p)
         \cup Issue(~OneOf(Get(p, "hostKind"), HostKinds), <<"hostKind">>, "unsupported")
         \cup Issue(~OneOf(Get(p, "transport"), Transports), <<"transport">>, "unsupported")
         \cup (UNION {CountIssues(Get(p, f), <<f>>, 1) :
                     f \in {"maximumMessageBytes", "maximumEventsPerMessage"}})
         \cup (UNION {Issue(~OneOf(Get(p, f), {HostPromises[f]}), <<f>>, "invalid_value") :
                     f \in DOMAIN HostPromises})

\* policy is Absent when the message is checked on its own.
IngressMessageIssues(m, policy) ==
    IF m.type # "record" THEN {<<<<>>, "invalid_type">>}
    ELSE LET length == Get(m, "contentLengthBytes")
             counted == CountIssues(length, <<"contentLengthBytes">>, 0)
             governed == policy.type # "absent"
         IN  Unexpected(m, {"contractVersion", "receipt", "transport", "contentLengthBytes", "payload"})
             \cup VersionIssues(m)
             \cup Below(<<"receipt">>, ReceiptIssues(Get(m, "receipt")))
             \cup Issue(~OneOf(Get(m, "transport"), Transports), <<"transport">>, "unsupported")
             \cup counted
             \cup Issue(governed /\ counted = {} /\ length.num > Get(policy, "maximumMessageBytes").num,
                        <<"contentLengthBytes">>, "out_of_range")
             \cup Issue(governed /\ Get(m, "transport") # Get(policy, "transport"),
                        <<"transport">>, "invalid_value")

AcknowledgementIssues(a) ==
    IF a.type # "record" THEN {<<<<>>, "invalid_type">>}
    ELSE LET status == Get(a, "status")
             accepted == Get(a, "acceptedCount")
             refused == Get(a, "rejectedCount")
             Zero(v) == v.type = "number" /\ v.num = 0
         IN  Unexpected(a, {"contractVersion", "receipt", "status", "acceptedCount",
                            "rejectedCount", "retryable", "reasonCode"})
             \cup VersionIssues(a)
             \cup Below(<<"receipt">>, ReceiptIssues(Get(a, "receipt")))
             \cup Issue(~OneOf(status, {"accepted", "partially_accepted", "rejected"}),
                        <<"status">>, "unsupported")
             \cup CountIssues(accepted, <<"acceptedCount">>, 0)
             \cup CountIssues(refused, <<"rejectedCount">>, 0)
             \cup Issue(Get(a, "retryable").type # "boolean", <<"retryable">>, "invalid_type")
             \cup Optional(Get(a, "reasonCode"),
                    Issue(~OneOf(Get(a, "reasonCode"), {"processed", "partial_rejection",
                                 "request_rejected", "temporarily_unavailable"}),
                          <<"reasonCode">>, "unsupported"))
             \cup Issue(\/ OneOf(status, {"accepted"}) /\ (~Zero(refused) \/ Zero(accepted))
                        \/ OneOf(status, {"partially_accepted"}) /\ (Zero(accepted) \/ Zero(refused))
                        \/ OneOf(status, {"rejected"}) /\ ~Zero(accepted),
                        <<"status">>, "invalid_value")

\* What each disposition fixes of a processing result.
Expected == [
    canonicalized |-> [reason |-> "canonical_validation_passed", freshness |-> "not_applicable",
                       backfill |-> FALSE, qualities |-> {"valid", "degraded", "suspect"}],
    accepted_live |-> [reason |-> "inside_live_freshness_window", freshness |-> "live",
                       backfill |-> FALSE, qualities |-> {"valid", "degraded"}],
    accepted_delayed |-> [reason |-> "inside_delayed_backfill_window",
                          freshness |-> "degraded_freshness",
                          backfill |-> TRUE, qualities |-> {"degraded"}],
    health_only |-> [reason |-> "outside_active_work_location_discarded",
                     freshness |-> "not_applicable",
                     backfill |-> FALSE, qualities |-> {"degraded", "suspect"}],
    duplicate |-> [reason |-> "duplicate_identical_content", freshness |-> "not_applicable",
                   backfill |-> FALSE, qualities |-> {"valid", "degraded", "suspect"}],
    duplicate_conflict |-> [reason |-> "event_identity_conflict", freshness |-> "not_applicable",
                            backfill |-> FALSE, qualities |-> {"rejected"}]]

ResultFields == {"contractVersion", "idempotencyIdentity", "clientEventId", "disposition",
                 "reasonCode", "freshness", "offlineBackfill", "quality", "persistenceStatus"}

DispositionIssues(r) ==
    LET disposition == Get(r, "disposition")
        OfflineBackfill(b) == Get(r, "offlineBackfill") = Bool(b)
    IN  IF OneOf(disposition, {"rejected"})
        THEN Issue(\/ ~OneOf(Get(r, "freshness"), {"not_applicable"})
                   \/ ~OfflineBackfill(FALSE)
                   \/ ~OneOf(Get(r, "quality"), {"rejected"}), <<"disposition">>, "invalid_value")
        ELSE IF OneOf(disposition, DOMAIN Expected)
        THEN LET rule == Expected[disposition.name]
             IN  Issue(\/ ~OneOf(Get(r, "reasonCode"), {rule.reason})
                       \/ ~OneOf(Get(r, "freshness"), {rule.freshness})
                       \/ ~OfflineBackfill(rule.backfill)
                       \/ ~OneOf(Get(r, "quality"), rule.qualities)
                       \/ disposition.name = "accepted_delayed" /\ Get(r, "delayed") # Bool(TRUE),
                       <<"disposition">>, "invalid_value")
        ELSE {<<<<"disposition">>, "unsupported">>}

ProcessingResultIssues(r) ==
    IF r.type # "record" THEN {<<<<>>, "invalid_type">>}
    ELSE Unexpected(r, ResultFields \cup IF OneOf(Get(r, "disposition"), {"accepted_delayed"})
                                         THEN {"delayed"} ELSE {})
         \cup VersionIssues(r)
         \cup TextIssues(Get(r, "idempotencyIdentity"), <<"idempotencyIdentity">>, 256)
         \cup Optional(Get(r, "clientEventId"), TextIssues(Get(r, "clientEventId"), <<"clientEventId">>, 128))
         \cup Issue(~OneOf(Get(r, "persistenceStatus"), {"not_attempted"}),
                    <<"persistenceStatus">>, "invalid_value")
         \cup Issue(~OneOf(Get(r, "reasonCode"), ProcessingReasons), <<"reasonCode">>, "unsupported")
         \cup DispositionIssues(r)

ResolutionRequestIssues(q) ==
    IF q.type # "record" THEN {<<<<>>, "invalid_type">>}
    ELSE Unexpected(q, {"contractVersion", "authenticatedDeviceExternalId", "capturedAt"})
         \cup VersionIssues(q)
         \cup TextIssues(Get(q, "authenticatedDeviceExternalId"), <<"authenticatedDeviceExternalId">>, 128)
         \cup TimeIssues(Get(q, "capturedAt"), <<"capturedAt">>)

ContextNames == {"deviceId", "authenticatedDeviceExternalId", "deviceVehicleLinkId", "vehicleId",
                 "adWorkAssignmentId", "adWorkId", "driverId", "workReleaseId", "workDayId"}

\* The context a resolver returns: released no later than started, started
\* no later than ended.
ContextIssues(c) ==
    IF c.type # "record" THEN {<<<<>>, "invalid_type">>}
    ELSE LET released == Get(c, "releasedAt")
             started == Get(c, "actualWorkStartedAt")
             ended == Get(c, "actualWorkEndedAt")
             Wrong(v) == TimeIssues(v, <<>>) # {}
         IN  Unexpected(c, ContextNames \cup {"driverAuthority", "releasedAt", "actualWorkStartedAt",
                                              "actualWorkEndedAt", "physicalTrackingSessionId"})
             \cup (UNION {TextIssues(Get(c, f), <<f>>, 128) : f \in ContextNames})
             \cup Optional(Get(c, "physicalTrackingSessionId"),
                    TextIssues(Get(c, "physicalTrackingSessionId"), <<"physicalTrackingSessionId">>, 128))
             \cup Issue(~OneOf(Get(c, "driverAuthority"), {"ad_work_assignment"}),
                        <<"driverAuthority">>, "invalid_value")
             \cup TimeIssues(released, <<"releasedAt">>)
             \cup TimeIssues(started, <<"actualWorkStartedAt">>)
             \cup Optional(ended, TimeIssues(ended, <<"actualWorkEndedAt">>))
             \cup Issue(~Wrong(released) /\ ~Wrong(started) /\ released.at > started.at,
                        <<"releasedAt">>, "invalid_value")
             \cup Issue(/\ ended.type # "absent" /\ ~Wrong(started) /\ ~Wrong(ended)
                        /\ ended.at < started.at, <<"actualWorkEndedAt">>, "invalid_value")

ResolutionResultIssues(r) ==
    IF r.type # "record" THEN {<<<<>>, "invalid_type">>}
    ELSE LET outcome == Get(r, "outcome")
             Reason(names) == Issue(~OneOf(Get(r, "reasonCode"), names), <<"reasonCode">>, "unsupported")
             resolved == OneOf(outcome, {"resolved"})
         IN  Unexpected(r, {"contractVersion", "outcome", "reasonCode"}
                           \cup IF resolved THEN {"context"} ELSE {})
             \cup VersionIssues(r)
             \cup (IF OneOf(outcome, {"no_match"}) THEN Reason(NoMatchReasons)
                   ELSE IF OneOf(outcome, {"ambiguous"}) THEN Reason(AmbiguousReasons)
                   ELSE IF resolved
                   THEN Reason({"unique_event_time_match"})
                        \cup Below(<<"context">>, ContextIssues(Get(r, "context")))
                   ELSE {<<<<"outcome">>, "unsupported">>})

(***************************************************************************)
(* Properties of a record that a validator accepts.                        *)
(***************************************************************************)
Null == [type |-> "null"]
With(r, f, v) == Rec([g \in DOMAIN r.fields \cup {f} |-> IF g = f THEN v ELSE r.fields[g]])

\* The record with one field, or one field of a part of it, made null; and
\* with a field nobody knows in the record or in a part.
Nulled(r) ==
    LET parts == {f \in DOMAIN r.fields : r.fields[f].type = "record"}
    IN  {With(r, f, Null) : f \in DOMAIN r.fields}
        \cup (UNION {{With(r, f, With(r.fields[f], g, Null)) :
                     g \in DOMAIN r.fields[f].fields \cup {"unknown"}} : f \in parts})
        \cup {With(r, "unknown", Null)}

\* No field goes unchecked: the record is valid, and not when any of its
\* fields is null or one is added.
EveryFieldCounts(r, Issues(_)) == Issues(r) = {} /\ \A worse \in Nulled(r) : Issues(worse) # {}

\* What the event time decision decides is a result of the contract, under
\* no other disposition.
ResultOf(decision) ==
    LET fixed == [contractVersion |-> Txt("1", 1), idempotencyIdentity |-> Txt("i", 64),
                  disposition |-> Txt(decision.disposition, 16), reasonCode |-> Txt(decision.reasonCode, 32),
                  freshness |-> Txt(decision.freshness, 16), offlineBackfill |-> Bool(decision.offlineBackfill),
                  quality |-> Txt(decision.quality, 8), persistenceStatus |-> Txt("not_attempted", 13)]
    IN  IF decision.delayed THEN With(Rec(fixed), "delayed", Bool(TRUE)) ELSE Rec(fixed)

DecisionIsAResult(decision) ==
    \A d \in DOMAIN Expected \cup {"rejected"} :
        ProcessingResultIssues(With(ResultOf(decision), "disposition", Txt(d, 16))) = {}
        <=> d = decision.disposition
=============================================================================
