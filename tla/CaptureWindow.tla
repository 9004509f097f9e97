---------------------------- MODULE CaptureWindow ----------------------------
(***************************************************************************)
(* The event time decision of packages/shared/src/physicalTelemetry/       *)
(* eventTime.ts: may a position captured at one instant and received at     *)
(* another be used as evidence of one execution window, and as what?        *)
(*                                                                         *)
(* An input has instants (NoTime when the text is no strict UTC timestamp), *)
(* `identified` (the identity text is not blank), `ended` (an end was       *)
(* given) and a state for each kind of evidence.  The client reference the  *)
(* result repeats is left out.                                             *)
(***************************************************************************)
EXTENDS Integers, Sequences

NoTime == -1
EvidenceStates == {"valid", "invalid", "ambiguous"}

\* INVALID_REASON_BY_EVIDENCE: consulted in this order.
ReasonByEvidence ==
    << <<"authentication", "authentication_failed">>,
       <<"eventIdentity", "event_identity_invalid">>,
       <<"deviceVehicleLink", "device_vehicle_link_invalid">>,
       <<"adWorkAssignment", "ad_work_assignment_invalid">>,
       <<"workRelease", "work_not_released">>,
       <<"timestamp", "captured_time_invalid">>,
       <<"clockOffset", "captured_time_invalid">>,
       <<"sequenceReplay", "sequence_replay_invalid">> >>
EvidenceKinds == {"authentication", "eventIdentity", "deviceVehicleLink", "adWorkAssignment",
                  "workRelease", "timestamp", "clockOffset", "sequenceReplay"}

Rejected(reason) == [disposition |-> "rejected", reasonCode |-> reason,
    freshness |-> "not_applicable", delayed |-> FALSE, offlineBackfill |-> FALSE, quality |-> "rejected"]
AcceptedLive == [disposition |-> "accepted_live", reasonCode |-> "inside_live_freshness_window",
    freshness |-> "live", delayed |-> FALSE, offlineBackfill |-> FALSE, quality |-> "valid"]
AcceptedDelayed == [disposition |-> "accepted_delayed", reasonCode |-> "inside_delayed_backfill_window",
    freshness |-> "degraded_freshness", delayed |-> TRUE, offlineBackfill |-> TRUE, quality |-> "degraded"]

ValidPolicy(policy) == policy.live >= 0 /\ policy.backfill >= 0 /\ policy.skew >= 0

\* Every instant parses and the window does not end before it starts.
TimesParseStrictly(input) ==
    /\ input.captured # NoTime /\ input.received # NoTime /\ input.started # NoTime
    /\ input.ended => input.end > input.started
TimesParse(input) ==
    /\ input.captured # NoTime /\ input.received # NoTime /\ input.started # NoTime
    /\ input.ended => input.end # NoTime /\ input.end >= input.started

FirstUnproved(input) ==
    CHOOSE i \in 1..Len(ReasonByEvidence) :
        /\ input.evidence[ReasonByEvidence[i][1]] # "valid"
        /\ \A j \in 1..(i - 1) : input.evidence[ReasonByEvidence[j][1]] = "valid"

AllProved(input) == \A kind \in EvidenceKinds : input.evidence[kind] = "valid"

\* What the first evidence that is not valid answers.
EvidenceReason(input) ==
    LET entry == ReasonByEvidence[FirstUnproved(input)]
    IN  IF input.evidence[entry[1]] = "invalid" THEN entry[2] ELSE "event_time_evidence_ambiguous"

BackfillCutoff(input, policy) ==
    (IF input.ended THEN input.end ELSE input.captured) + policy.backfill

InsideLive(input, policy) ==
    /\ ~(input.ended /\ input.received > input.end)
    /\ input.received - input.captured <= policy.live

\* decideCaptureWindowV1
Decide(input, policy) ==
    IF ~ValidPolicy(policy) \/ ~input.identified \/ ~TimesParse(input)
    THEN Rejected("captured_time_invalid")
    ELSE IF ~AllProved(input) THEN Rejected(EvidenceReason(input))
    ELSE IF input.captured < input.started THEN Rejected("captured_before_work_start")
    ELSE IF input.ended /\ input.captured > input.end THEN Rejected("captured_after_work_end")
    ELSE IF input.captured > input.received + policy.skew THEN Rejected("captured_time_future_skew")
    ELSE IF InsideLive(input, policy) THEN AcceptedLive
    ELSE IF input.received <= BackfillCutoff(input, policy) THEN AcceptedDelayed
    ELSE Rejected("delayed_backfill_expired")
=============================================================================
