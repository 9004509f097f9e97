------------------------------- MODULE WorkRules -------------------------------
(***************************************************************************)
(* The rules about one Ad Work that the shared package gives the pages and  *)
(* the app, beside the guards of the database functions the pages call.     *)
(* A text is a Boolean (it holds more than blanks) or a length.            *)
(***************************************************************************)
EXTENDS Integers, Sequences, FiniteSets

NotChosen == [chosen |-> FALSE]
OnboardingStatuses == {"pending_review", "approved", "inactive", "blocked"}
ApprovalStatuses == {"waiting_for_approval", "approved", "rejected", "need_more_details"}
DayStatuses == {"planned", "ready", "running", "on_break", "completed", "issue_reported", "cancelled"}
AssignmentStatuses == {"not_assigned", "assigned", "needs_review", "ready_for_execution", "cancelled"}
ReleaseStatuses == {"not_released", "released_to_driver", "access_revoked"}
ClosureStatuses == {"not_ready", "ready_for_review", "ready_to_close", "closed", "closed_with_issues", "cancelled"}
Finished == {"closed", "closed_with_issues", "cancelled"}

(* A delivery method sets what its work needs.                             *)
Needs(mode, driver, vehicle, speaker, areas) ==
    [executionMode |-> mode, driverRequired |-> driver, vehicleRequired |-> vehicle, speakerRequired |-> speaker,
     areasRequired |-> areas, photoProofRequired |-> TRUE]
adminManagedDefaults == Needs("admin_managed", FALSE, FALSE, FALSE, FALSE)
deliveryMethodTemplates ==
    [vehicle_announcement |-> Needs("driver_app", TRUE, TRUE, TRUE, TRUE),
     field_promotion |-> Needs("driver_app", TRUE, FALSE, FALSE, TRUE),
     print_placement |-> [adminManagedDefaults EXCEPT !.areasRequired = TRUE],
     digital_media |-> adminManagedDefaults,
     event_campaign |-> [adminManagedDefaults EXCEPT !.areasRequired = TRUE],
     custom |-> adminManagedDefaults]

(***************************************************************************)
(* Assignment: what the page calls ready, and what the database saves.      *)
(***************************************************************************)
driverCanBeAssigned(driver) ==
    /\ driver # NotChosen
    /\ driver.onboardingStatus = "approved" /\ driver.approvalStatus = "approved"
vehicleCanBeAssigned(vehicle) == vehicle # NotChosen /\ vehicle.onboardingStatus = "approved" /\ vehicle.active
vehicleHasMicSystem(vehicle) == vehicle # NotChosen /\ vehicle.mic
vehicleHasGpsReadiness(vehicle) == vehicle # NotChosen /\ vehicle.gps \in {"planned", "installed"}

AssignmentChecks(work, driver, vehicle) ==
    /\ work.startDate
    /\ work.needs.areasRequired => work.areas
    /\ work.needs.driverRequired => driverCanBeAssigned(driver)
    /\ work.needs.vehicleRequired => vehicleCanBeAssigned(vehicle)
    /\ work.needs.speakerRequired => vehicleHasMicSystem(vehicle)

\* The panel shows the vehicle field only when the work needs a vehicle.
SubmitsAssignment(work, driver, vehicle) ==
    driver # NotChosen /\ (IF work.needs.vehicleRequired THEN vehicle # NotChosen ELSE vehicle = NotChosen)

SavesAssignment(work, driver, vehicle, changes, confirmed) ==
    /\ work.needs.driverRequired
    /\ driverCanBeAssigned(driver)
    /\ work.needs.vehicleRequired => vehicle # NotChosen
    /\ vehicle # NotChosen => /\ vehicleCanBeAssigned(vehicle)
                              /\ work.needs.speakerRequired => vehicleHasMicSystem(vehicle)
    /\ changes => confirmed

(***************************************************************************)
(* Release.                                                                *)
(***************************************************************************)
buildExecutionReleaseReadiness(work, driver, vehicle) ==
    /\ work.assignmentStatus = "ready_for_execution"
    /\ driver # NotChosen /\ vehicle # NotChosen
    /\ work.startDate /\ work.areas /\ work.packageChosen

ReleasesToDriver(work, driver, vehicle) ==
    /\ work.needs.executionMode = "driver_app" /\ work.needs.driverRequired
    /\ work.assignmentStatus = "ready_for_execution" /\ driverCanBeAssigned(driver)
    /\ work.needs.vehicleRequired => /\ vehicleCanBeAssigned(vehicle)
                                     /\ work.needs.speakerRequired => vehicleHasMicSystem(vehicle)
    /\ work.startDate
    /\ work.needs.areasRequired => work.areas

(***************************************************************************)
(* The driver's actions, the location proof and the photo proof.           *)
(***************************************************************************)
canStartWork(status) == status \in {"planned", "ready"}
canTakeBreak(status) == status = "running"
canResumeWork(status) == status = "on_break"
canEndWork(status) == status \in {"running", "on_break"}
canUploadPhotoProof(status) == status \in {"running", "on_break"}

DriverActions == {"start", "take_break", "resume", "end", "issue", "add_proof_note"}
validateDriverExecutionAction(status, action, note) ==
    /\ action = "start" => canStartWork(status)
    /\ action = "take_break" => canTakeBreak(status)
    /\ action = "resume" => canResumeWork(status)
    /\ action = "end" => canEndWork(status)
    /\ action \in {"end", "issue", "add_proof_note"} => note

\* The guards of driver_update_work_day, and the status it leaves.
UpdatesWorkDay(status, action, note) ==
    \/ action = "start" /\ status \in {"planned", "ready"}
    \/ action = "take_break" /\ status = "running"
    \/ action = "resume" /\ status = "on_break"
    \/ action = "end" /\ status \in {"running", "on_break"} /\ note
    \/ action \in {"issue", "add_proof_note"} /\ note
DayAfter(status, action) ==
    CASE action \in {"start", "resume"} -> "running" [] action = "take_break" -> "on_break"
      [] action = "end" -> "completed" [] action = "issue" -> "issue_reported" [] OTHER -> status

canStartMobileLocationProof(work, status) ==
    /\ work.locationProofRequired /\ work.assignmentStatus = "ready_for_execution"
    /\ work.releaseStatus = "released_to_driver"
    /\ status = "running" /\ work.closureStatus \notin Finished

MaxPhotoBytes == 5 * 1024 * 1024
PhotoTypes == {"image/jpeg", "image/png", "image/webp"}
validatePhotoProofInput(status, photo) ==
    /\ canUploadPhotoProof(status) /\ photo.area > 0 /\ photo.note > 0
    /\ photo.mimeType \in PhotoTypes /\ photo.size <= MaxPhotoBytes

\* The guards of request_proof_upload_slot about the day and the photo.
SlotBytes == 5242880
RequestsProofSlot(status, photo) ==
    /\ status \in {"running", "on_break"} /\ photo.area > 0 /\ photo.note > 0
    /\ photo.mimeType \in PhotoTypes /\ photo.size \in 1..SlotBytes

\* How a position of this accuracy is described (accuracy -1: unknown).
getLocationQualityFromAccuracy(accuracy) ==
    IF accuracy < 0 THEN "unknown" ELSE IF accuracy <= 50 THEN "good" ELSE "weak"
getTrackingStopReasonForWorkAction(action) ==
    CASE action = "take_break" -> "break_started" [] action = "end" -> "work_ended"
      [] action \in {"revoke", "admin_stop"} -> "admin_stopped"
      [] action \in {"permission_removed", "app_error"} -> action [] OTHER -> "other"

(***************************************************************************)
(* Closure and the next action.                                            *)
(***************************************************************************)
HardStops(work) ==
    {s \in {"assignment", "release", "summary", "updates"} :
        \/ s = "assignment" /\ work.needs.driverRequired /\ work.assignmentStatus # "ready_for_execution"
        \/ s = "release" /\ work.needs.executionMode = "driver_app" /\ work.releaseStatus # "released_to_driver"
        \/ s = "summary" /\ ~work.summaryReviewed
        \/ s = "updates" /\ ~work.updatesReviewed}
BlockingWarnings(work, days) ==
    {w \in {"days", "issue", "missing", "waiting", "rejected", "sharing"} :
        \/ w = "days" /\ days # {"completed"}
        \/ w = "issue" /\ "issue_reported" \in days
        \/ /\ work.needs.photoProofRequired /\ ~work.proofNotRequired
           /\ \/ w = "missing" /\ work.reviews = {}
              \/ w = "waiting" /\ work.reviews \cap {"waiting_review", "needs_more_info"} # {}
              \/ w = "rejected" /\ "rejected" \in work.reviews
        \/ w = "sharing" /\ "pending_sharing" \in work.sharing}
\* The third status, ready_for_review, has a condition that cannot hold.
ClosureStatus(work) == IF HardStops(work) = {} THEN "ready_to_close" ELSE "not_ready"

ClosesWork(work) ==
    work.needs.executionMode = "driver_app" =>
        work.releaseStatus = "released_to_driver" /\ work.assignmentStatus = "ready_for_execution"

\* The page's own reading of what a work still needs.
assignmentReady(work) == work.needs.driverRequired => work.assignmentStatus = "ready_for_execution"
SetupComplete(work) == work.title /\ work.startDate /\ (work.needs.areasRequired => work.areas)
HasStarted(days) == days \cap {"running", "on_break", "completed", "issue_reported"} # {}
pendingProof(work) == work.overallCompleted /\ ~work.summaryReviewed

deriveAdWorkNextAction(work, days) ==
    IF work.closureStatus \in Finished THEN "finished"
    ELSE IF ~SetupComplete(work) THEN "complete_setup"
    ELSE IF ~assignmentReady(work) THEN "choose_resources"
    ELSE IF work.needs.executionMode = "driver_app" /\ work.releaseStatus # "released_to_driver" THEN "send_to_driver"
    ELSE IF ~HasStarted(days) /\ work.needs.executionMode = "admin_managed" THEN "start_work"
    ELSE IF days # {"completed"} THEN "monitor_work"
    ELSE IF work.needs.photoProofRequired /\ pendingProof(work) THEN "review_proof" ELSE "finish_work"

(***************************************************************************)
(* A driver's application and a payment.                                   *)
(***************************************************************************)
MaxLengths == [driverName |-> 100, mobileNumber |-> 20, cityTown |-> 80, serviceAreas |-> 600, vehicleNumber |-> 40,
               preferredWorkingCities |-> 400, notes |-> 800]
\* A text is its length with and without the blanks around it; `held` says that
\* each is one that the type text holds: without \u0000 or half a surrogate pair.
validateDriverApplication(a) ==
    /\ a.companyWebsite.trimmed = 0
    /\ \A f \in {"driverName", "mobileNumber", "cityTown"} : a[f].trimmed > 0
    /\ a.phoneLike
    /\ a.vehicleType # "unlisted" /\ a.ownership # "unlisted" /\ a.gps # "unlisted"
    /\ a.ownership \in {"own_vehicle", "hired_vehicle"} => a.vehicleNumber.trimmed > 0
    /\ a.consent
    /\ \A f \in DOMAIN MaxLengths : a[f].length <= MaxLengths[f]

AcceptsDriverApplication(a) ==
    /\ a.held
    /\ \A f \in {"driverName", "cityTown"} : a[f].trimmed \in 1..MaxLengths[f]
    /\ a.mobileNumber.trimmed \in 7..20
    /\ \A f \in {"serviceAreas", "vehicleNumber", "preferredWorkingCities", "notes"} : a[f].trimmed <= MaxLengths[f]
    /\ a.ownership # "unlisted" /\ a.vehicleType # "unlisted" /\ a.gps # "unlisted"
    /\ a.ownership # "driver_only" => a.vehicleNumber.trimmed > 0
    /\ a.consent /\ a.companyWebsite.trimmed = 0

validatePaymentDraft(status, total, paid) ==
    /\ total >= 0 /\ paid >= 0 /\ paid <= total
    /\ status = "not_paid" => paid = 0
    /\ status \in {"advance_paid", "partially_paid"} => total > 0 /\ paid > 0 /\ paid < total
    /\ status = "fully_paid" => total > 0 /\ paid = total
PaymentStatuses == {"not_paid", "advance_paid", "partially_paid", "fully_paid", "refund_adjustment"}
m28ValidatePayment(status, total, paid) ==
    /\ status \in PaymentStatuses /\ total >= 0 /\ paid >= 0
    /\ ~(paid > total) /\ ~(status = "not_paid" /\ paid # 0)
    /\ ~(status \in {"advance_paid", "partially_paid"} /\ ~(total > 0 /\ paid > 0 /\ paid < total))
    /\ ~(status = "fully_paid" /\ ~(total > 0 /\ paid = total))

(* One page of the money or schedule history: versions newest first.        *)
Versions(total, before) == {v \in 1..total : before = 0 \/ v < before}
HistoryPage(total, before, limit) ==
    LET older == Versions(total, before)
        found == {v \in older : Cardinality({w \in older : w > v}) < limit}
        last == CHOOSE v \in found : \A w \in found : v <= w
        more == found # {} /\ Versions(total, last) # {} IN
    [events |-> found, limit |-> limit, returned |-> Cardinality(found), hasMore |-> more,
     nextBeforeVersion |-> IF more THEN last ELSE 0]
\* The page's guard over what it receives; 0 is a cursor that is null.
isCommercialEventPageMetadata(page) ==
    /\ page.limit \in 1..100 /\ page.returned \in 0..page.limit
    /\ page.nextBeforeVersion >= 0 /\ (page.hasMore => page.nextBeforeVersion # 0)
validateCommercialHistoryPage(page) ==
    isCommercialEventPageMetadata(page) /\ Cardinality(page.events) = page.returned

(***************************************************************************)
(* Properties.                                                             *)
(***************************************************************************)
\* What the assignment panel submits with every check passed is saved, and the work can then be sent to the driver;
\* a driver or a vehicle that is not approved is never saved.
AssignmentsAgree(work, driver, vehicle) ==
    LET assigned == [work EXCEPT !.assignmentStatus = "ready_for_execution"]
        saved == SavesAssignment(work, driver, vehicle, TRUE, TRUE) IN
    work.needs.driverRequired /\ SubmitsAssignment(work, driver, vehicle) =>
        /\ AssignmentChecks(work, driver, vehicle) => saved
        /\ AssignmentChecks(work, driver, vehicle) /\ work.needs.executionMode = "driver_app"
               => ReleasesToDriver(assigned, driver, vehicle)
        /\ saved /\ SetupComplete(work) => AssignmentChecks(work, driver, vehicle)

\* The next action the page names can be done: what it says to send the database sends, what it says to finish the
\* database closes, and a work that needs its vehicle is offered to be sent when its package is chosen.  (A work that
\* needs no vehicle is never offered, since the panel asks every work for a vehicle.)
NextActionIsPossible(work, days, driver, vehicle) ==
    LET action == deriveAdWorkNextAction(work, days)
        chosen == driverCanBeAssigned(driver) /\ AssignmentChecks(work, driver, vehicle) IN
    /\ action = "send_to_driver" /\ chosen =>
           /\ ReleasesToDriver(work, driver, vehicle)
           /\ work.needs.vehicleRequired /\ work.packageChosen => buildExecutionReleaseReadiness(work, driver, vehicle)
    /\ action \in {"review_proof", "finish_work"} => ClosesWork(work) /\ HardStops(work) \subseteq {"summary", "updates"}
    /\ action = "finish_work" => BlockingWarnings(work, days) \cap {"days", "issue"} = {}
    /\ HardStops(work) = {} => ClosesWork(work)

\* The app offers exactly the actions the database takes, and any sequence of them leaves a day on which the location
\* proof runs only while the day runs.
DayActionsAgree(work, status, action, note, photo) ==
    /\ validateDriverExecutionAction(status, action, note) <=> UpdatesWorkDay(status, action, note)
    /\ UpdatesWorkDay(status, action, note) /\ canStartMobileLocationProof(work, DayAfter(status, action))
           => action \in {"start", "resume", "add_proof_note"}
    /\ photo.size > 0 => (validatePhotoProofInput(status, photo) <=> RequestsProofSlot(status, photo))
    /\ RequestsProofSlot(status, photo) => UpdatesWorkDay(status, "end", TRUE)

\* An application the app accepts the database accepts, if it can hold its texts.
ApplicationsAgree(application) ==
    validateDriverApplication(application) => (AcceptsDriverApplication(application) <=> application.held)

\* Every history page of the database passes the page's guard, and a page that has no more ends at the first version.
HistoryPagesAgree(total, before, limit) ==
    LET page == HistoryPage(total, before, limit) IN
    /\ validateCommercialHistoryPage(page)
    /\ page.hasMore => page.events \cup Versions(total, page.nextBeforeVersion) = Versions(total, before)
    /\ ~page.hasMore => page.events = Versions(total, before)

\* The payment form and the database take the same amounts and states.
PaymentsAgree(status, total, paid) == validatePaymentDraft(status, total, paid) <=> m28ValidatePayment(status, total, paid)
================================================================================
