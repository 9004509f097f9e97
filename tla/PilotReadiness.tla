---------------------------- MODULE PilotReadiness ----------------------------
(***************************************************************************)
(* What must be shown before hardware and analyses are used: capability     *)
(* manifests (m24fContracts.ts and the database's                            *)
(* admin_create_m24f_capability_manifest_v1), physical evidence              *)
(* (m26Readiness.ts and service_record_physical_pilot_evidence_v1) and the   *)
(* readiness of the statistical analyses (m25Readiness.ts).  The shape of    *)
(* identifiers, hashes and safe texts is one flag per part of a manifest;     *)
(* instants are hours.                                                      *)
(***************************************************************************)
EXTENDS Integers, FiniteSets

(***************************************************************************)
(* Capability manifests: [lengths, transport, authentication, metrics,      *)
(* secret, missing]: `lengths` of its texts when trimmed, `missing` the      *)
(* nested capabilities that are not there, `metrics` a set and their count.  *)
(***************************************************************************)
TextFields == [adapterId |-> 64, adapterVersion |-> 32, vendorDeviceFamilyLabel |-> 160,
               dataResidencyNote |-> 500, supportEscalationNote |-> 500]
Nested == {"transport", "authentication", "timestamp", "replay", "health", "sensor"}
m24fAdapterTransportTypesV1 == {"vendor_webhook", "vendor_polling", "direct_http", "mqtt", "tcp", "udp"}
m24fAdapterAuthenticationTypesV1 == {"bearer", "hmac_signature", "api_key", "mutual_tls", "protocol_native"}
m24fCertificationStatesV1 == {"not_started", "in_progress", "passed", "failed", "expired"}
ApprovedMetrics == {"fuel_level", "temperature", "door_state", "vibration", "external_power", "ignition", "tamper"}

\* validateAdapterCapabilityManifestV1
validateAdapterCapabilityManifestV1(m) ==
    /\ \A f \in DOMAIN TextFields : m.lengths[f] \in 1..TextFields[f]
    /\ m.certificationState \in m24fCertificationStatesV1
    /\ m.missing = {}
    /\ m.transport \in m24fAdapterTransportTypesV1
    /\ m.authentication \in m24fAdapterAuthenticationTypesV1
    /\ m.metricCount <= 16

\* The manifest that admin_create_m24f_capability_manifest_v1 stores, when it does.
CreatesManifest(p) ==
    /\ \A f \in DOMAIN TextFields : p.lengths[f] \in 1..TextFields[f]
    /\ p.metricCount <= 16 /\ p.metrics \subseteq ApprovedMetrics
    /\ p.transport \in m24fAdapterTransportTypesV1
    /\ p.authentication \in m24fAdapterAuthenticationTypesV1
StoredManifest(p) ==
    [lengths |-> p.lengths, transport |-> p.transport, authentication |-> p.authentication,
     metricCount |-> p.metricCount, missing |-> {}, certificationState |-> "not_started"]

isApApprovedAdapterCandidateV1(c) == c.decisionStatus = "approved_by_ap" /\ c.certificationStatus = "passed"

(***************************************************************************)
(* Physical evidence.  A manifest: [flawed, classification, physicalEvidence, *)
(* disposition, start, end, count, outcomes, reasons]; `flawed` are the parts  *)
(* whose identifiers or texts are not well formed, `capabilities` says what    *)
(* the adapter supports.                                                      *)
(***************************************************************************)
Parts == {"contractVersion", "repository", "adapter", "device", "network", "receipt"}
Outcomes == {"passed", "failed", "not_supported"}
Binary == {"authentication", "replay", "freshness", "health"}
Capable == {"sequence", "reconnect"}
MaxCount == 10000000
Day == 24

Window(m, now) == m.end > m.start /\ m.end <= now /\ m.end - m.start <= Day
Counted(m) == m.count \in 0..MaxCount /\ ~(m.disposition = "pass" /\ m.count = 0)

\* A pass shows what the adapter supports, and only that.
Shown(m, capabilities) ==
    /\ \A o \in Binary : m.outcomes[o] = "passed"
    /\ \A o \in Capable : m.outcomes[o] = IF capabilities[o] THEN "passed" ELSE "not_supported"

\* validatePhysicalEvidenceManifestV1
validatePhysicalEvidenceManifestV1(m, capabilities, now) ==
    /\ m.flawed = {}
    /\ m.classification \in {"physical", "synthetic"}
    /\ m.physicalEvidence <=> m.classification = "physical"
    /\ m.disposition \in {"pass", "partial", "blocked"}
    /\ Window(m, now) /\ Counted(m)
    /\ \A o \in Binary : m.outcomes[o] \in {"passed", "failed"}
    /\ \A o \in Capable : m.outcomes[o] = "not_supported" => ~capabilities[o]
    /\ m.classification = "physical" /\ m.disposition = "pass" => Shown(m, capabilities)
    /\ m.reasons <= 20

\* service_record_physical_pilot_evidence_v1, when its caller names the present
\* authority: `proven` is what the stored telemetry of the window shows.
RecordsEvidence(m, capabilities, now, proven) ==
    /\ Window(m, now) /\ Counted(m) /\ m.reasons <= 20 /\ m.flawed = {}
    /\ m.classification \in {"physical", "synthetic"} /\ m.disposition \in {"pass", "partial", "blocked"}
    /\ \A o \in Capable : m.outcomes[o] = "not_supported" => ~capabilities[o]
    /\ m.classification = "physical" /\ m.disposition = "pass" =>
          /\ proven.count = m.count /\ proven.failureFree
          /\ \A o \in Binary : m.outcomes[o] = "passed"
          /\ \A o \in Capable : IF capabilities[o] THEN m.outcomes[o] = "passed" /\ proven[o]
                                ELSE m.outcomes[o] = "not_supported"

\* admin_get_physical_pilot_readiness_v1: does the newest receipt make ready?
MakesReady(m, capabilities, proven) ==
    /\ m.classification = "physical" /\ m.physicalEvidence /\ m.disposition = "pass"
    /\ m.count > 0 /\ m.count = proven.count /\ proven.failureFree
    /\ \A o \in Binary : m.outcomes[o] = "passed"
    /\ \A o \in Capable : m.outcomes[o] # "failed" /\ (m.outcomes[o] = "not_supported" => ~capabilities[o])

(***************************************************************************)
(* Readiness of an analysis.  Percentages are integers.                     *)
(***************************************************************************)
Thresholds == [calendarDays |-> 28, deviceModelDays |-> 30, workDaySessions |-> 1000]
Reached(i) == \A t \in DOMAIN Thresholds : i[t] >= Thresholds[t]

readinessDecision(i) ==
    IF i.syntheticEvidence /\ ~i.realReviewedEvidence THEN "production_ml_not_authorized"
    ELSE IF i.workDaySessions <= 0 \/ i.calendarDays <= 0 THEN "insufficient_data"
    ELSE IF ~i.realReviewedEvidence \/ ~Reached(i) THEN "collection_in_progress"
    ELSE IF i.featureCompleteness < 80 \/ i.missingness > 20 \/ i.trainHoldout = "infeasible"
    THEN "ready_for_offline_statistical_evaluation"
    ELSE IF i.reviewedLabelCount < 30 THEN "ready_for_offline_ml_experiment"
    ELSE IF i.securityStatus # "reviewed" \/ i.pilotStatus = "not_started" THEN "ready_for_model_review"
    ELSE "production_ml_not_authorized"

\* The label counts of assessM25ReadinessV1: [reviewed, positive, negative].
Least(a, b) == IF a < b THEN a ELSE b
NotNegative(n) == IF n < 0 THEN 0 ELSE n
LabelCounts(labels) ==
    LET reviewed == NotNegative(labels.reviewed)
        positive == NotNegative(Least(reviewed, labels.positive))
    IN  [reviewed |-> reviewed, positive |-> positive,
         negative |-> NotNegative(Least(reviewed - positive, labels.negative))]

m25ReadinessAllowsOfflineEvaluationV1(decision) ==
    decision \in {"ready_for_offline_statistical_evaluation", "ready_for_offline_ml_experiment",
                  "ready_for_model_review"}

canActivateM25AnalysisVersionV1(v) ==
    IF v.kind \in {"offline_ml_candidate", "reviewed_ml_model"} THEN "production_ml_not_authorized_in_m25"
    ELSE IF v.status # "active" THEN "analysis_version_not_active"
    ELSE IF v.kind = "robust_statistical_baseline" THEN "deterministic_statistical_review_only"
    ELSE IF ~(v.apApproved /\ v.securityApproved /\ v.pilotApproved) THEN "approval_gates_incomplete"
    ELSE "analysis_activation_guard"

(***************************************************************************)
(* Properties.                                                             *)
(***************************************************************************)

\* A manifest the database stores is one every reader of it accepts.
StoredManifestsAreValid(p) == CreatesManifest(p) => validateAdapterCapabilityManifestV1(StoredManifest(p))

\* A manifest the validator passes is one the database records, once its
\* telemetry is there; what it records as a physical pass passes the validator
\* and makes the device ready, and nothing else does.
EvidenceAgrees(m, capabilities, now) ==
    LET proven == [count |-> m.count, failureFree |-> TRUE, sequence |-> TRUE, reconnect |-> TRUE]
        coherent == m.physicalEvidence <=> m.classification = "physical"
        valid == validatePhysicalEvidenceManifestV1(m, capabilities, now)
        recorded == RecordsEvidence(m, capabilities, now, proven)
    IN  /\ valid => recorded
        /\ coherent /\ recorded =>
               /\ m.classification = "physical" /\ m.disposition = "pass" => valid
               /\ MakesReady(m, capabilities, proven) <=> m.classification = "physical" /\ m.disposition = "pass"

\* More evidence never takes an analysis a step back, except the last one that
\* only a later release may take; labels never exceed what was reviewed.
Rank(decision) ==
    CASE decision = "insufficient_data" -> 0 [] decision = "collection_in_progress" -> 1
      [] decision = "ready_for_offline_statistical_evaluation" -> 2
      [] decision = "ready_for_offline_ml_experiment" -> 3 [] decision = "ready_for_model_review" -> 4
      [] OTHER -> 5
Better(i, j) ==
    /\ \A f \in DOMAIN Thresholds \cup {"featureCompleteness", "reviewedLabelCount"} : i[f] >= j[f]
    /\ i.missingness <= j.missingness
    /\ j.realReviewedEvidence => i.realReviewedEvidence
    /\ i.trainHoldout = "infeasible" => j.trainHoldout = "infeasible"
    /\ j.securityStatus = "reviewed" => i.securityStatus = "reviewed"
    /\ j.pilotStatus # "not_started" => i.pilotStatus # "not_started"
MoreEvidenceIsNeverWorse(i, others) ==
    /\ m25ReadinessAllowsOfflineEvaluationV1(readinessDecision(i)) => i.realReviewedEvidence /\ Reached(i)
    /\ \A j \in others :
           /\ Better(i, j) /\ (j.realReviewedEvidence \/ ~(i.syntheticEvidence \/ j.syntheticEvidence))
           => Rank(readinessDecision(i)) >= Rank(readinessDecision(j))
LabelsFit(labels) ==
    LET c == LabelCounts(labels) IN c.positive + c.negative <= c.reviewed /\ c.negative >= 0
=============================================================================
