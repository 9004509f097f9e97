----------------------------- MODULE MCOperations -----------------------------
(***************************************************************************)
(* The analyses, the intake, the registry and the rules for TLC.  A         *)
(* behaviour is of one part: a background queue, the stream of windows of    *)
(* a signal, a driver's submissions, the public intake, the retention sweep, *)
(* the device registry, its page, or one sample of a rule; the others stay   *)
(* where they begin.                                                        *)
(***************************************************************************)
EXTENDS AnalysisQueue, Sequences, TLC

CONSTANTS DeviceValues, OtherValues, Samples, BaselineSupport, CurrentSupport, MaxWindows, MaxOther,
          MaxEvents, MaxObservations, Details, MaxIds, MaxTroubles,
          Admins, WindowLimit, MaxRequests, MaxTokens, IntakeWindows,
          Proofs, PageSize, Devices, Vehicles, Keys, MaxReads

VARIABLES part, sample,
          windows, evaluations, shared,
          form, phone, memory, storage, ids, table, world, seen, flying, sent, replaced, troubles,
          visitor, used, request, window, counted, enquiry, reported, works, customers, converting,
          rows, files, expired, sweep,
          device, link, credential, retired, view

Stream == INSTANCE StatisticsProofs
\* The reference vendor; the simulator next to it is not used here.
Vendor == INSTANCE SharedTelemetryProofs WITH Interval <- 1, ClockOffset <- 0, NetworkDelay <- 0, Limit <- 1, MaxNow <- 0,
                                              sim <- sample, flushed <- sample
\* The driver app, the intake, the sweep, the registry, the evidence of hardware
\* and the rules of works and releases.
Site == INSTANCE OperationsProofs WITH page <- visitor, MaxWindows <- IntakeWindows

(***************************************************************************)
(* Samples: values on either side of every limit a rule has.               *)
(***************************************************************************)

(* Telemetry events and points of the statistics. *)
Evidence(id, at, disposition, fix, flags, readings, minutes, synthetic) ==
    [id |-> id, at |-> at, disposition |-> disposition, fix |-> fix, flags |-> flags, accuracy |-> readings,
     interarrival |-> readings, gsm |-> [i \in DOMAIN readings |-> -readings[i]], battery |-> readings,
     minutes |-> [m \in Stream!Minutes |-> minutes], synthetic |-> synthetic]
EvidenceSamples ==
    {Evidence(1, 1, "accepted_live", "none", {"gap", "unpowered", "speed"}, <<70>>, 1, FALSE),
     Evidence(2, 1, "duplicate", "two_dimensional", {"heartbeat"}, <<101>>, -1, FALSE),
     Evidence(3, 2, "health_only", Stream!Null, {"unpowered", "quality"}, <<>>, 2, FALSE),
     Evidence(4, 3, "rejected", "three_dimensional", {}, <<30>>, 0, FALSE),
     Evidence(5, 4, "accepted_delayed", "none", {"mismatch", "pair"}, <<-1>>, 0, TRUE)}
EvidenceLists == {<<>>} \cup (EvidenceSamples \X EvidenceSamples)
                 \cup (EvidenceSamples \X EvidenceSamples \X EvidenceSamples)
Distinct(list) == \A i, j \in DOMAIN list : i # j => list[i].id # list[j].id
PointLists(numbers) ==
    UNION {[1..n -> numbers \X (0..3)] : n \in 0..3}
AsPoints(list) == [i \in DOMAIN list |-> [id |-> list[i][1], at |-> list[i][2]]]

(* Requests and events of the vendor webhook. *)
VendorKeys == [k |-> Vendor!Key("secret", "active"), l |-> Vendor!Key("other", "rotated"),
               m |-> Vendor!Key("secret", "revoked"), n |-> Vendor!Key("secret", "rotated")]
VendorOptions == [keys : {VendorKeys}, deviceStatus : {"active", "inactive", "unknown"},
                  receivedAt : {480, 0, 180, 181, 750, 751}]
VendorBodies == {Vendor!Body, <<"event", "other">>}
VendorTimes == {450, 750, 149, 150, Vendor!NoTime}
SignedWith(k, body, time) == Vendor!signedRequest(body, time, [keyId |-> k])
BadlySigned == Vendor!signedRequest(Vendor!Body, 450, [signature |-> Vendor!Malformed])
NotSigned == [body |-> Vendor!Body, timestamp |-> 450, keyId |-> "k"]
SignedByOther ==
    Vendor!signedRequest(Vendor!Body, 450,
        [keyId |-> "l", signature |-> Vendor!createReferenceVendorSignatureV1(Vendor!Body, 450, "other")])
VendorRequests ==
    {SignedWith(k, b, t) : k \in DOMAIN VendorKeys \cup {"z"}, b \in VendorBodies, t \in VendorTimes}
    \cup {BadlySigned, NotSigned, SignedByOther}

Num(n) == Vendor!Num(n)
Txt(name, length) == Vendor!Txt(name, length)
Yes == Vendor!Bool(TRUE)
No == Vendor!Bool(FALSE)
Only(fields, value) == [f \in fields |-> value]
GoodPosition == [latitude |-> Num(13), longitude |-> Num(78), accuracyMeters |-> Num(8), speedMetersPerSecond |-> Num(5),
                 headingDegrees |-> Num(90)]
GoodHealth == [heartbeat |-> Yes, batteryPercent |-> Num(88), externalPower |-> Yes,
               gpsFix |-> Txt("none", 4), gsmSignalDbm |-> Num(-72)]
Position(f, value) == Only({"location"}, Vendor!Rec(Vendor!Spread(GoodPosition, Only({f}, value))))
Health(f, value) == Only({"health"}, Vendor!Rec(Vendor!Spread(GoodHealth, Only({f}, value))))
Reading(metric, value, unit) == [metric |-> Txt(metric, 11), value |-> value, unit |-> Txt(unit, 7)]
Sensor(metric, value, unit) == Only({"observations"}, Vendor!List(<<Vendor!Rec(Reading(metric, value, unit))>>))
Without ==
    {Only(fields, Vendor!Absent) :
        fields \in {{}, {"sequence", "streamEpoch"}, {"streamEpoch"}, {"sequence"}, {"location"}, {"health"},
                   {"observations"}, {"offline"}}}
With == {Only({"sequence"}, Num(2)), Only({"deviceId"}, Txt("other", 5)), Only({"eventId"}, Txt("vendor-event-002", 16)),
         Only({"eventId"}, Txt("v", 129)), Only({"offline"}, Yes), Only({"capturedAt"}, Vendor!Stamp(421)),
         Only({"capturedAt"}, Num(4)), Only({"observations"}, Vendor!List(<<>>)),
         Only({"capturedAt"}, Vendor!Stamp(Vendor!YearOne - 1))}
Odd(length, oddity) == Vendor!Odd(Txt(oddity, length), {oddity})
Oddities == {Txt("", 0), Odd(0, "outer"), Odd(16, "outer"), Odd(16, "control"), Odd(16, "nul"), Odd(16, "surrogate")}
OddTexts == {Only({f}, v) : f \in {"eventId", "streamEpoch"}, v \in Oddities}
Positions ==
    {Position("latitude", Num(n)) : n \in {-91, -90, 90, 91}}
    \cup {Position("longitude", Num(n)) : n \in {-181, -180, 180, 181}}
    \cup {Position(f, v) : f \in {"accuracyMeters", "speedMetersPerSecond", "headingDegrees"},
                           v \in {Num(-1), Num(0), Num(361), Vendor!Absent}}
Healths ==
    {Health(f, v) : f \in {"batteryPercent", "gsmSignalDbm"}, v \in {Num(-201), Num(-1), Num(0), Num(101), Vendor!Absent}}
    \cup {Health(f, v) : f \in {"heartbeat", "externalPower"}, v \in {No, Num(0), Vendor!Absent}}
Readings == {Num(-1), Num(100), Num(300), Yes, Txt("open", 4)}
Sensors ==
    {Sensor(m, v, u) : m \in {"temperature", "fuel_level", "door_state", "ignition", "mood"}, v \in Readings,
                       u \in {"celsius", "percentage", "boolean"}}
VendorChanges == Without \cup With \cup OddTexts \cup Positions \cup Healths \cup Sensors
VendorEvents == {Vendor!baseEvent(c) : c \in VendorChanges}

(* Manifests, physical evidence and readiness of an analysis. *)
Lengths ==
    LET Every(n) == [f \in DOMAIN Site!TextFields |-> n]
    IN  {Every(5), Every(0), Site!TextFields}
        \cup {[Every(5) EXCEPT ![f] = Site!TextFields[f] + 1] : f \in DOMAIN Site!TextFields}
Manifests == [lengths : Lengths, transport : Site!m24fAdapterTransportTypesV1 \cup {"smoke"},
              authentication : Site!m24fAdapterAuthenticationTypesV1 \cup {"none"},
              metrics : {{}, Site!ApprovedMetrics, {"mood"}}, metricCount : {0, 16, 17}]
EvidenceOutcomes ==
    {o \in [Site!Binary \cup Site!Capable -> Site!Outcomes] : Cardinality({x \in DOMAIN o : o[x] # "passed"}) <= 2}
Claims == [classification : {"physical", "synthetic", "other"}, disposition : {"pass", "partial", "blocked"},
           outcomes : EvidenceOutcomes]
Rest == [flawed : {{}, {"device"}}, physicalEvidence : BOOLEAN, start : {0}, end : {0, 1, 24, 25},
         count : {0, 1, Site!MaxCount + 1}, reasons : {0, 21}]
Readiness == [calendarDays : {0, 27, 28}, deviceModelDays : {30}, workDaySessions : {0, 999, 1000},
              featureCompleteness : {79, 80}, missingness : {20, 21}, trainHoldout : {"infeasible", "feasible"},
              reviewedLabelCount : {29, 30}, securityStatus : {"reviewed", "not_reviewed"},
              pilotStatus : {"not_started", "passed"}, syntheticEvidence : BOOLEAN, realReviewedEvidence : BOOLEAN]

(* Enquiries, applications, photos, works and those who do them. *)
Plain(n) == Site!Text(n, n, n)
GoodForm == [customerName |-> Plain(5), businessName |-> Plain(5), cityTown |-> Plain(5), areasToCover |-> Plain(5),
             advertisementDetails |-> Plain(5), notes |-> Plain(5), companyWebsite |-> Plain(0),
             phone |-> Site!Phone(Plain(10), FALSE, "none"), date |-> "iso", days |-> 3,
             packageInterest |-> "listed", liveTrackingNeeded |-> "listed", consent |-> TRUE, notice |-> "current"]
WithText(t, text) == [GoodForm EXCEPT ![t] = text]
WithPhone(p) == [GoodForm EXCEPT !.phone = p]
WithDays(n, d) == [GoodForm EXCEPT !.days = n, !.date = d]
\* As written, trimmed and cleaned.
FormLengths == {<<n, n, n>> : n \in {0, 80, 81, 120, 121, 500, 501, 600, 601, 1000, 1001}}
               \cup {<<5, 0, 0>>, <<5, 5, 0>>, <<5, 5, 1>>, <<82, 80, 80>>}
FormTexts == {Site!Text(l[1], l[2], l[3]) : l \in FormLengths}
NumberLengths == {l \in (6..21) \X (6..21) \X (6..21) : l[3] \in {l[2], l[2] - 2} /\ l[2] \in {l[1], l[1] - 1}}
Numbers == {Site!Phone(Site!Text(l[1], l[2], l[3]), plus, others) :
               l \in NumberLengths, plus \in BOOLEAN, others \in {"none", "blanks", "controls", "brackets", "letters"}}
Forms ==
    {WithText(t, text) : t \in DOMAIN Site!TextLimits, text \in FormTexts}
    \cup {WithPhone(p) : p \in Numbers}
    \cup {WithDays(n, d) : n \in {-1, 0, 1, 30, 31}, d \in {"missing", "iso", "other"}}
    \cup {[GoodForm EXCEPT !.consent = FALSE], [GoodForm EXCEPT !.companyWebsite = Plain(1)], [GoodForm EXCEPT !.notice = "old"],
          [GoodForm EXCEPT !.packageInterest = "other"]}

Text(n, m) == [length |-> n, trimmed |-> m]
GoodApplication ==
    [companyWebsite |-> Text(0, 0), mobileNumber |-> Text(10, 10), phoneLike |-> TRUE, vehicleType |-> "car",
     ownership |-> "own_vehicle", gps |-> "yes", consent |-> TRUE, held |-> TRUE, driverName |-> Text(3, 3), cityTown |-> Text(3, 3),
     serviceAreas |-> Text(3, 3), vehicleNumber |-> Text(3, 3), preferredWorkingCities |-> Text(3, 3),
     notes |-> Text(3, 3)]
Texts == {t \in {Text(n, m) : n, m \in {0, 7, 20, 21, 80, 81, 100, 101}} : t.trimmed <= t.length}
Applied(f, t, o) ==
    [GoodApplication EXCEPT ![f] = t, !.ownership = o, !.phoneLike = f # "mobileNumber" \/ t.trimmed \in 7..20]
Applications ==
    {Applied(f, t, o) :
        f \in DOMAIN Site!MaxLengths, t \in Texts, o \in {"own_vehicle", "driver_only", "unlisted"}}
    \cup {[GoodApplication EXCEPT !.held = FALSE]}

Drivers == {Site!NotChosen} \cup {[chosen |-> TRUE, onboardingStatus |-> d[1], approvalStatus |-> d[2]] :
                                d \in ({"approved"} \X Site!ApprovalStatuses) \cup (Site!OnboardingStatuses \X {"approved"})}
Vans == {Site!NotChosen} \cup [chosen : {TRUE}, onboardingStatus : {"approved", "blocked"}, active : BOOLEAN, mic : BOOLEAN,
                          gps : {"planned"}]
Templates == {Site!deliveryMethodTemplates[m] : m \in DOMAIN Site!deliveryMethodTemplates}
Silent == [Site!deliveryMethodTemplates["vehicle_announcement"] EXCEPT !.speakerRequired = FALSE]
PlannedWorks == [needs : Templates \cup {Silent}, startDate : BOOLEAN, areas : BOOLEAN, title : {TRUE}, packageChosen : BOOLEAN,
                 assignmentStatus : Site!AssignmentStatuses, releaseStatus : Site!ReleaseStatuses,
                 closureStatus : {"not_ready", "closed"}, locationProofRequired : {TRUE}, summaryReviewed : BOOLEAN,
                 overallCompleted : BOOLEAN,
                 updatesReviewed : {FALSE}, proofNotRequired : {FALSE}, reviews : {{}}, sharing : {{}}]
AdWorks == {w \in PlannedWorks : Cardinality({f \in {"startDate", "areas", "packageChosen"} : ~w[f]}) <= 1}
DaySets == {{}} \cup {{s} : s \in {"planned", "ready", "running", "completed"}} \cup {{"completed", "issue_reported"}}
Photos == [area : {0, 1}, note : {0, 1}, mimeType : {"image/png", "other"},
           size : {0, 1, Site!MaxPhotoBytes, Site!MaxPhotoBytes + 1}]

(* Environments, exported tables and export limits. *)
GoodEnvironment ==
    [n \in Site!Names |->
        IF n \in Site!MustBeFalse \cup DOMAIN Site!FEATURE_DEPENDENCIES THEN "false"
        ELSE IF n \in Site!UrlNames THEN "p1" ELSE IF n \in Site!AnonKeys THEN "anon" ELSE "secret"]
EntryValues == {"missing", "placeholder", "true", "false", "anon", "privileged", "secret", "short", "p1", "p2"}
Environments ==
    {[values |-> [[GoodEnvironment EXCEPT ![n] = v] EXCEPT ![m] = w], others |-> {}, leaks |-> {}] :
        n \in Site!Names, v \in EntryValues,
        m \in Site!UrlNames \cup DOMAIN Site!FEATURE_DEPENDENCIES, w \in {"true", "missing", "p2"}}
    \cup {[values |-> GoodEnvironment, others |-> {"VITE_SERVICE_ROLE"}, leaks |-> {}],
          [values |-> GoodEnvironment, others |-> {}, leaks |-> {"VITE_APP_RELEASE"}]}
Cells == UNION {[1..n -> {"a", "=", "quote", "comma", "cr", "lf"}] : n \in 0..2}
Tables == {<<<<c, d>>>> : c, d \in Cells} \cup {<<<<c>>, <<d>>>> : c, d \in Cells}

(***************************************************************************)
(* The composition.                                                        *)
(***************************************************************************)
streamVars == <<windows, evaluations, shared>>
submissionVars == <<form, phone, memory, storage, ids, table, world, seen, flying, sent, replaced, troubles>>
intakeVars == <<visitor, used, request, window, counted, enquiry, reported, works, customers, converting>>
retentionVars == <<rows, files, expired, sweep>>
registryVars == <<device, link, credential, retired, view>>
allVars == <<part, sample, vars, streamVars, submissionVars, intakeVars, retentionVars, registryVars>>

SampleInit ==
    \/ \E e \in EvidenceLists : Distinct(e) /\ sample = [of |-> "evidence", evidence |-> e]
    \/ \E p \in PointLists({1, 2, 3}) : sample = [of |-> "points", points |-> AsPoints(p)]
                                        /\ Distinct(AsPoints(p))
    \/ \E o \in VendorOptions, r \in VendorRequests : sample = [of |-> "request", options |-> o, request |-> r]
    \/ \E e \in VendorEvents : sample = [of |-> "event", event |-> e]
    \/ \E m \in Manifests : sample = [of |-> "manifest", manifest |-> m]
    \/ \E c \in Claims : sample = [of |-> "claim", claim |-> c]
    \/ \E i \in Readiness : sample = [of |-> "readiness", readiness |-> i]
    \/ \E f \in Forms : sample = [of |-> "form", form |-> f]
    \/ \E a \in Applications : sample = [of |-> "application", application |-> a]
    \/ \E w \in AdWorks : sample = [of |-> "work", work |-> w]
    \/ \E e \in Environments : sample = [of |-> "environment", environment |-> e]
    \/ \E t \in Tables : sample = [of |-> "table", table |-> t]
    \/ sample = [of |-> "amounts"]

MCInit ==
    /\ Init /\ Stream!StreamInit /\ Site!SubmissionInit /\ Site!IntakeInit /\ Site!RetentionInit
    /\ Site!RegistryInit
    /\ part \in {"queue", "stream", "submissions", "intake", "retention", "devices", "page", "sample"}
    /\ IF part = "sample" THEN SampleInit ELSE sample = [of |-> "none"]
    /\ part # "queue" => kind = CHOOSE k \in Kinds : TRUE
    /\ part # "submissions" => form = "application"
    /\ part # "retention" => files = rows

\* Bound: the credentials of two devices never meet in a function, so that one
\* device has some at a time.
OneHasCredentials == Cardinality({d \in Devices : \E k \in Keys : credential[d][k] # "absent"}) <= 1

MCNext ==
    /\ UNCHANGED <<part, sample>>
    /\ \/ /\ part = "queue" /\ Next
          /\ UNCHANGED <<streamVars, submissionVars, intakeVars, retentionVars, registryVars>>
       \/ /\ part = "stream" /\ Stream!StreamNext
          /\ UNCHANGED <<vars, submissionVars, intakeVars, retentionVars, registryVars>>
       \/ /\ part = "submissions" /\ Site!SubmissionNext
          /\ UNCHANGED <<vars, streamVars, intakeVars, retentionVars, registryVars>>
       \/ /\ part = "intake" /\ Site!IntakeNext
          /\ UNCHANGED <<vars, streamVars, submissionVars, retentionVars, registryVars>>
       \/ /\ part = "retention" /\ Site!RetentionNext
          /\ UNCHANGED <<vars, streamVars, submissionVars, intakeVars, registryVars>>
       \/ /\ \/ part = "devices" /\ Site!RegistryNext /\ OneHasCredentials'
             \/ part = "page" /\ Site!PageNext
          /\ UNCHANGED <<vars, streamVars, submissionVars, intakeVars, retentionVars>>

MCSpec == MCInit /\ [][MCNext]_allVars /\ Fairness

(***************************************************************************)
(* The properties of the other parts.                                      *)
(***************************************************************************)

\* The database and the shared evaluator agree on every window, a device is
\* investigated only after a run of anomalous windows, and features and pairs
\* do not depend on the order in which the evidence was read.
StatisticsAreSound ==
    /\ part = "stream" => Stream!EvaluatorsAgree /\ Stream!InvestigationNeedsARun
    /\ sample.of = "evidence" => Stream!SnapshotsAreStable(sample.evidence)
    /\ sample.of = "points" =>
          \A q \in PointLists({7, 8}) :
              Len(q) <= 2 /\ Distinct(AsPoints(q)) => Stream!PairingIsComplete(sample.points, AsPoints(q), 1)

\* Only what a vendor signed is taken, and what it normalises to is stored unless
\* PostgreSQL has no value for its instant or a text of it; no hardware is ready
\* without the evidence its manifest promises, and the registry and its page
\* agree on which device is installed and ready.
HardwareIsProven ==
    /\ sample.of = "request" =>
          Vendor!OnlyTheSignedRequest(sample.request, sample.options, VendorBodies, VendorTimes, DOMAIN VendorKeys)
    /\ sample.of = "event" => Vendor!EventsAreSound(sample.event, VendorEvents, 480, 600)
    /\ sample.of = "manifest" => Site!StoredManifestsAreValid(sample.manifest)
    /\ sample.of = "claim" =>
          \A rest \in Rest, capabilities \in [Site!Capable -> BOOLEAN] :
              Site!EvidenceAgrees(Vendor!Spread(sample.claim, rest), capabilities, 24)
    /\ sample.of = "readiness" => Site!MoreEvidenceIsNeverWorse(sample.readiness, Readiness)
    /\ sample.of = "amounts" =>
          \A labels \in [reviewed : -1..3, positive : -1..3, negative : -1..3] : Site!LabelsFit(labels)
    /\ part \in {"devices", "page"} =>
          /\ Site!ActiveMeansInstalled /\ Site!RetiredIsForever /\ Site!IdentityIsItsOwn
          /\ Site!TransitionsAgree /\ Site!PageIsAboutTheSelected

\* What a visitor, a driver or an administrator submits is stored once, as the
\* page that accepted it said, and what the rules of the pages let through the
\* function or the database behind them takes: submissions, assignments, the
\* next action, a day's actions, payments, histories, exports and environments;
\* enquiries, unless cleaning shortens a text too much; and applications, unless
\* PostgreSQL has no value for one of their texts.
SubmissionsAreKept ==
    /\ part = "submissions" => Site!SubmissionsAreSound
    /\ part = "intake" => Site!IntakeIsProtected /\ Site!OneWorkPerEnquiry
    /\ part = "retention" => Site!FilesAreNamed /\ Site!OnlyExpiredIsDeleted
    /\ sample.of = "form" => Site!FormsAreAccepted(sample.form)
    /\ sample.of = "application" => Site!ApplicationsAgree(sample.application)
    /\ sample.of = "environment" => Site!EnvironmentsAreSafe(sample.environment)
    /\ sample.of = "table" => Site!ExportsReadBack(sample.table)
    /\ sample.of = "work" =>
          /\ \A d \in Drivers, v \in Vans :
                /\ Site!AssignmentsAgree(sample.work, d, v)
                /\ \A days \in DaySets : Site!NextActionIsPossible(sample.work, days, d, v)
          /\ \A status \in Site!DayStatuses, action \in Site!DriverActions, note \in BOOLEAN, photo \in Photos :
                Site!DayActionsAgree(sample.work, status, action, note, photo)
    /\ sample.of = "amounts" =>
          /\ \A status \in Site!PaymentStatuses, total, paid \in -1..2 : Site!PaymentsAgree(status, total, paid)
          /\ \A total \in 1..5, before \in 0..6, limit \in 1..3 : Site!HistoryPagesAgree(total, before, limit)
          /\ \A start, today \in 0..3, n \in -1..3 : today # 0 => Site!PlansAgree(start, n, today)
          /\ \A whole \in BOOLEAN, n \in {-1, 0, 1, 200, 500, 501}, k \in {0, 1, 2, 199, 200, 201, 499, 500, 501, 600} :
                Site!ExportsAreBounded([whole |-> whole, n |-> n], [i \in 1..k |-> i])
=============================================================================
