# Kootha: a verification development

Kootha plans field advertising work ("Ad Works"), assigns it to drivers with
vehicles, lets them execute it with a Work Code on a phone, collects proof
(photos, notes, phone location points, telemetry of vehicle devices) and closes
the work with a summary for the customer. The core logic is PostgreSQL: 80
migrations of tables, triggers and `security definer` functions that replace one
another (`create or replace`; what runs is the last definition). Around it are
Netlify functions, a React admin web and an Expo driver app.

This directory holds TLA+ modules of the parts whose behaviour depends on the
order of steps of several actors, the TLC configurations that check them, and
proofs of their most important invariants. `PROJECT.json` maps every definition
to the source lines it models.

## 1. Inventory

| Component | State | Operations | Interacts with | Hard behaviour | Correct when |
|---|---|---|---|---|---|
| **Ad Work lifecycle** (M3-M6, M28, closure) | `ad_works` (mode, release, code hash, overall, closure), `ad_work_days`, `ad_work_assignments`, `final_proof_summaries` | save/assign, release, revoke, driver day actions, admin day actions, reschedule work/day, cancel, prepare, close | triggers on sessions; driver RPCs | many functions of different age write the same rows; some without the global lock | cancellation is final, evidence keeps its date, a reschedule revokes authority, code agrees with release |
| **Phone tracking sessions** (M9-M12, M29) | `tracking_sessions`, `location_points` | start, deny, record, sync, driver stop, admin stop, stop triggers | day and work status by triggers | start reads the Ad Work unlocked | sessions run only on running days and end with access |
| **Offline point buffer** (driver app) | AsyncStorage list with retry counts, generation counter, app row | capture, send, save, sync, mark, remove, restart | record and sync RPCs over a bad network | awaits between read and write, timeouts, late delivery, crashes | a point is counted once, never lost, delivered if acceptable |
| **M28 mutation replay, payments** | `m28_mutation_operations`, payment columns, versions, event rows; the page's snapshot, history and `requestSequence` | claim, version check, effect, receipt, snapshot, page of history | every M28 function; the admin page | lost answers, retries under the same key, stale versions, answers out of order | a change is made once, answers are true, the page never goes back or has a hole |
| **Proof uploads, customer updates** (M7, M29) | `proof_uploads`, `customer_updates` | request slot, complete, review, share | lifecycle | same request id retried after loss | one slot per request, only approved proofs shared |
| **Final summary** (M8, M12) | `final_proof_summaries`, location review | prepare, close, mark shared | lifecycle | re-preparing closed work | summary and closure agree |
| **Driver app forms** | one attempt per form in memory and AsyncStorage | submit an application; request, upload and complete a photo | M29 slot functions, storage | retries after lost answers and restarts, late requests | what was reported as sent is stored, once |
| **Enquiries, planning, onboarding** (M1-M4) | leads, rate-limit buckets, tokens, Ad Works | submit, convert, review | human verification, admin page | each call a chain of outside calls that may be cut; two admins convert at once | no insert without its own token and within the limit, one Ad Work per enquiry |
| **Device registry** (M20A) | devices, vehicle links, credentials, history events; the page's selected device | link, remove, replace, status, credential; select, edit, save | ingestion, commissioning | replace = two links in one transaction; answers about another device | an active device is installed, one per vehicle; the page shows and saves the selected device |
| **Telemetry ingestion** (M21, Netlify) | receipts, conflicts, high water marks, sessions, rate windows | reserve, verify, charge, persist | device, lifecycle history | repeats, authority changing in flight, cuts between calls | one receipt per event, judged by the authority when it was captured |
| **Shared telemetry algorithms** | - | validate, identify, decide, simulate | the host, the tests | ranges stated three times | what passes the adapter is stored, if PostgreSQL has values for it; a retry is recognised |
| **Analysis queues** (M22 rules, M23 comparisons, M25 statistics) | jobs with attempts, generations and backoff; the worker of each minute | enqueue, sweep, claim a page, evaluate, commit, retry | ingestion, points | pages side by side, rollbacks, timeouts, deadlocks | every change is evaluated or its job marked failed; reports are true |
| **Alerts** (M22) | signals, rule state and episodes per key, health and session of the device | evaluate a signal, count samples, clear, sweep, transition | ingestion, the rule queue, administrators | jobs in any order; today's health read for yesterday's receipt; closing between detections | one open alert per condition, no detection lost or counted twice, an alert is quiet when it should be |
| **Statistics** (M25) | baselines, evaluations, signal states | features, baselines, scores, hysteresis | comparison | two implementations | both say the same of every window |
| **Certification** (M24F), **commissioning** (M26) | manifests, evidence, readiness | verify a signature, parse, record, decide | registry | bounds on both sides | only signed requests are taken, nothing is ready without its evidence |
| **Export** (M27), **retention**, **release scripts** | files and rows; environments | export, sweep, check | all | a sweep cut between file and row | a file never outlives its row; an exported cell reads back |

Locks: the M28 functions, release, assignment and the day actions take the
transaction-level advisory lock `m21-authority-global` first, so each is one
atomic step of the others. The M29 driver RPCs (start, permission missing, proof
slot, record, sync) do not take it; they lock the session or the day.

The hazards, each at its line with the properties that would notice it going
wrong, are listed under "hazards" in `PROJECT.json`.

## 2. Plan

1. `WorkAccess`, `AdWorkLifecycle` and its proofs: the core. *Done.*
2. `PhoneLocationSync` and its proofs: phone and database over a bad network.
   *Done; deliverability stays with TLC.*
3. `MutationReplay` and its proofs: M28 claim, effect, receipt and retry, and the
   admin's page over a bad network. *Done.*
4. `AnalysisQueue` and its proofs: the three queues and their scheduled worker.
   Liveness by TLC, exclusiveness and the truth of the reports as theorems. *Done.*
5. `TelemetryIngest` with the abstract `EvidenceOnce`, its proofs, and the shared
   contracts, identities, scenarios and simulator beside it. *Done.*
6. `DeviceRegistry` and its page, with proofs. *Done.*
7. `DriverSubmissions`, `PublicIntake`, `RetentionSweep`: what is submitted, planned
   and swept, with proofs. *Done.*
8. `VendorWebhook`, `PilotReadiness`, `RobustStatistics`, `SignalStream`, `WorkRules`,
   `ReleaseRules`: rules that exist twice, compared. *Done.*
9. `AlertEpisodes` and its proofs: what the M22 rules make of signals that are evaluated
   in any order. *Done; all three properties are proved.*

Left, in this order: the propagation of corrections and the promotion records of
M25; the verdict of a comparison (M23); the records of certification and
commissioning (M24F, M26); adding and removing days of a planned work; sharing of
proofs and summaries; the order of row locks (`prepare_final_proof_summary` against
the M28 functions, link against replace in the registry); several devices under one
health sweep (M22).

## 3. Modules

### WorkAccess
The abstract contract: access to an Ad Work is granted and withdrawn any number
of times, withdrawing stops every running session at once, and the end is final.
It admits the one weakness the code has: a session may start after a withdrawal.

### AdWorkLifecycle
One Ad Work and its rows. `work` is the record of lifecycle columns of
`ad_works`; `exec`, `date`, `started`, `ended`, `observed` are columns of the days
(`observed`: any of the trace tables `m28_assert_day_unobserved_v1` counts);
`sessions` are `tracking_sessions` rows; `pending` holds the driver RPCs that have
made their unlocked reads. Triggers are operators applied inside the actions:
`GuardWrite` (the cancellation guards), `AfterWorkUpdate` and `AfterDayUpdate` (the
session stop triggers).

| Actions | Code |
|---|---|
| `SaveAssignment`, `AssignDriverVehicle` | `save_ad_work_assignment`, `assign_driver_vehicle_to_ad_work` |
| `ReleaseToDriver`, `RevokeAccess` | `release_flexible_ad_work_to_driver` |
| `DriverStart` ... `DriverAddProofNote` | `driver_update_work_day`, one action per `p_action` |
| `AdminStartDay` ... `AdminReportIssue` | `admin_update_ad_work_day` |
| `BeginRequest`, `AbortRequest`, `FinishStart`, `FinishDeny`, `FinishUpload` | `driver_start_mobile_tracking`, `driver_mark_mobile_location_permission_missing`, `request_driver_proof_upload`, split where the lock is taken |
| `RecordLocationPoint`, `SyncLocationPoints`, `DriverStopTracking`, `AdminStopTracking` | the M29 and M9 RPCs on a session |
| `RescheduleAdWork`, `RescheduleDay`, `CancelAdWork` | the M28 functions |
| `PrepareSummary`, `CloseAdWork` | `prepare_...` and `close_flexible_...` |
| `PatchExecutionMode` | the admin web's direct PATCH |

Abstracted: customer, vehicle and driver approval checks; the rule that a day may
be started only on its date; warnings of the summary (one Boolean, `clean`);
`driver_required` is always true. `request_admin_proof_upload` reads without a
lock but is one action. `VariableConflict` is a setting of the PostgreSQL server:
with the default `error`, functions whose body names an output column raise. The
passing runs use `use_column`, so that closure takes part in them.

### PhoneLocationSync
One work day, one driver, one phone. The database half is the day, the session
(`session`, `status`: only the latest row can be running), the stored points and the
counter. The phone half has one program counter per asynchronous job: `capture`
(sent, save), `sync` (sent, remove, recheck, mark) and `action`; every `await` of the
app is a step boundary, and a write of the buffer puts back the snapshot read
before the await. A request is answered, applied without an answer ("lost"), or
not received before the app's 15-second timeout ("late": it may `Arrive` later).
`current` of a job is whether the generation counter still has the value the job
started with. `taken` and `owner` record when and for which session a point was
captured; no action of the code reads `taken` except through the capture time.

### MutationReplay
Payments and the schedule of one Ad Work, changed by several admins. `version` are
`commercial_version` and `schedule_version`; `events` are the rows of the two event
tables and, for planning changes, of the audit log; `operations` are the completed
rows of `m28_mutation_operations`. A function that raises leaves nothing behind, so
that a claimed row without a response is never visible. `stage` stands for the status
columns the guards look at; `AdWorkLifecycle` has them one by one.

`view` is the snapshot of each admin's page and `shown` the history rows on it;
`request` is the call whose answer the page will apply (its number is still
`requestSequence.current`) and `late` are those it has given up and the database may
still receive.

| Actions | Code |
|---|---|
| `Load`, `Renew`, `Leave` | `loadSnapshot`, the effects on the connection and on `selectedAdWorkId` |
| `Submit` | `savePayment`, `rescheduleWork`, `rescheduleDay`, `cancelWork` |
| `LoadOlder` | `loadOlderCommercialHistory`, `loadOlderScheduleHistory` |
| `Receive`, `Fail` | the continuations of `postRpc` in these functions, `applySnapshot` |
| `ServeCurrent`, `ServeLate` | `m28_claim_replay_v1`, then the `admin_..._v1` function |
| `PlanningForm` | `admin_sync_ad_work_days_v2`, `admin_update_ad_work_days_v2` from the planning form, which ignores the snapshot it gets |
| `ChangeStage` | every other function; the guard triggers keep them away from versions and dates |

Abstracted: amounts, dates and reasons are the members of `Change`, told apart by
`request_hash` only; whether the days of the work admit a schedule change is a free
choice (`Refuses`). A transport error of the page is the same as an answer that
never comes. The comparison of `snapshotFingerprint` with the value captured at the
call is left out: both are the same constant of one closure, so it is always true
and `requestSequence` alone fences old answers.

### TelemetryIngest, EvidenceOnce
One device, credential, vehicle and work day. A request in `host` goes through the
stages `reserve`, `verify`, `request`, `body`, `events`; each is one call of the host
to the database, which may fail before it happens (`Fail`) or lose its answer
(`LoseAnswer`). `history` is `m21_execution_history`, `ended`, `rival` and `device` are
what ends authority while a request is on its way. `EvidenceOnce` is the promise to a
device that repeats itself: an event is stored at most once and adds at most one
point to one session.

| Actions | Code |
|---|---|
| `Send` | the device; a batch carries what `GenericHttpAdapter` tells apart |
| `Reserve`, `Verify` | `m21_reserve_unauthenticated_rate_limit`, the credential lookup, `m21_mark_credential_verified` |
| `ChargeRequest`, `ChargeEvents` | `m21_consume_authenticated_rate_limits`, before and after the body is read |
| `PersistEvent`, `RejectEvent`, `PersistRaises` | `m21_persist_telemetry_event`: dedupe, authority, disposition, session, high water, health |
| `MoveDay` | the day's transitions with the triggers that keep history and sessions |
| `EndAuthority`, `AssignElsewhere`, `SuspendDevice`, `EndCredential`, `Tick` | the other functions that end authority |

### TelemetryContracts, BoundaryContracts, GenericHttpAdapter, CaptureWindow
The validators of the shared package as sets of issues, the adapter's parsing,
normalization, identity and canonical JSON, the parameters and checks of the
database call, and the event time decision. A digest is its own material.

A text is its length (0 when it is blank), an identity, and the kinds of characters that
some step treats specially (`odd`): blanks at its ends, `\u0000`, other control
characters, half a surrogate pair. `Converts` is the conversion of the call's parameters to the types
of the database function: `text` holds neither `\u0000` nor half a surrogate pair, and
`timestamptz` has no year 0, which the strict timestamps of the code have. Instants are
numbers around the present; those before `YearOne` stand for year 0.

### TelemetryScenarios, TelemetrySimulator
The synthetic scenarios with what they declare, delivered in any order and
repeatedly, and what M22 and M23 say of them; the simulator's clock, lifecycle and
queue.

### AnalysisQueue
One module for three queues, told apart by `kind`. A page is one database transaction:
it locks rows with SKIP LOCKED, evaluates each in a subtransaction and commits all or
nothing; `processing` is therefore never visible and the lock stands for it. A worker
invocation runs waves of pages, compacts and reports. Time is the minute of the
schedule: `wait` is the backoff in invocations.

| Actions | Code |
|---|---|
| `WriterLocks`, `WriterCommits` | the transaction that changes evidence and enqueues (M22, M23 and M25 enqueue functions) |
| `PageStarts`, `PageEvaluates`, `PageCommits` | `m22_`, `m23_` and `m25_process_..._queue`, with the sweep of due days |
| `PageAborts`, `PageDeadlocks` | a rollback, a statement timeout, a deadlock over two cohorts |
| `InvocationStarts` ... `Compacts` | the three scheduled Netlify functions |

### AlertEpisodes
The alerts of one device. A receipt, the health sweep or a report leaves a signal and a
job; jobs run in any order or are given up. Whatever M22 knows is kept per key, a rule
with its source: `episodes` are the rows of `alerts`, `state` the row of
`m22_rule_state`, `assessed` the assessments. `health`, `heartbeat`, `session` and
`located` are what the registry and the session hold *now*: the rules read them when
the job runs and combine them with the time of the receipt. `work` is one stretch of the
work day, which M21 needs to classify a receipt.

| Actions | Code |
|---|---|
| `WorkStarts`, `WorkEnds` | the execution history with its session updates |
| `ReceiptCommits` | `m21_persist_telemetry_event`, as far as alerts depend on it, with the trigger that enqueues |
| `HealthSweep` | `m22_run_health_sweep`: silence, recovery, missing locations, each once a minute |
| `JobCompletes`, `JobFails` | one job of `m22_process_rule_queue`: `m22_evaluate_signal`, `m22_evaluate_long_stop`, then per key `m22_condition_threshold_met`, `m22_apply_rule_observation` or `m22_clear_rule_condition` |
| `TransitionAlert` | `admin_transition_alert` |

Abstracted: a signal touches each key at most once, so a job is a function of the keys;
what the location points say of stops and speeds is a free choice; rules that treat a
reason alike are one (`sequence_gap`).

### RobustStatistics, SignalStream
Features, robust baselines, scores and states of the shared evaluator, and the windows
of one device evaluated by the database and by it. Numbers are kept as integers
(a median doubled, a deviation four times) so that nothing is rounded.

### VendorWebhook, PilotReadiness
The reference vendor's signature, timestamp, key and parse checks, what its events
normalise to and whether the database can hold it, and its certification scenarios, which the run `telemetry` evaluates. A
signature is the material it signs; a hash is what it covers, so that a list of
observations that is missing is hashed as an empty one. Next to it the manifests, physical evidence and readiness of hardware
and of the statistics, on the shared side and in the database.

### DeviceRegistry
Status, link, credential and the page. `ChangeStatus`, `LinkVehicle`, `RemoveVehicle`,
`RecordEvent`, `ReplaceDevice` and `SaveCredential` are the `admin_...` functions of
M20A, each one step because each locks the device first. `Select`, `Reload`,
`ReadinessArrives`, `EditDevice`, `DetailArrives` and `SaveIdentity` are the page's
effects and handlers, with readings and details on their way in any order.

### DriverSubmissions, PublicIntake, RetentionSweep
`DriverSubmissions`: an application is one call, a photo is a slot, a file and a
completion; `memory` and `storage` hold the attempt, `flying` the requests the phone
gave up. `PublicIntake`: the form function's verification, count and insert, each of
which may be the last, and two administrators converting an enquiry. A text of the form is
three lengths: as it is written, without the blanks around it, which is what the page
looks at, and cleaned, which is what the function looks at (`cleanText` makes one space
of each run of blanks and control characters). `RetentionSweep`:
candidates, deletions of files one by one, deletion of the rows whose files are gone.

### WorkRules, ReleaseRules
Rules without state that exist on two sides. `WorkRules`: assignment checks, release,
day actions, next action, closure warnings, payments, history pages, applications, whose
texts the database may or may not be able to hold (`held`).
`ReleaseRules`: environments and feature dependencies, worker switches, CSV cells and
limits of an export.



## 4. Runs

| Run | Checks | Shows |
|---|---|---|
| `lifecycle_driver` | `TypeOK`, `CodeMatchesRelease`, `CompletedMeansAllDays`, `EvidenceKeepsItsDate`, `RescheduleRevokesAuthority` | two days, three dates, driver mode |
| `lifecycle_mixed` | `CancelledWorkIsInert`, `RunningSessionOnRunningDay`, `CancelledIsFrozen`, `ImplementsWorkAccess` | one day, two drivers, two sessions, both modes and switches between them |
| `sync_main` | `TypeOK`, `CountMatchesStored`, `NothingAfterEnd`, `KeptUntilStored`, `DeliveredAlone` | two points, three failures, in two instances of one run: batches of two and two sessions for safety, batches of one and one session for delivery. Points are counted once, none captured after the end is stored, none leaves the phone unstored except when two buffer writes overtake each other, and a point the database would take does not wait for ever behind one it always rejects |
| `replay_main` | `TypeOK`, `OneChangePerVersion`, `AnswersAreTrue`, `HistoryHasNoHole`, `SnapshotsAreFresh` | two admins, two payments, one change of the schedule, pages of one row, one late request: each change is made once, "ok" and "refresh and retry" mean what they say, no page goes back in time or skips a row |
| `telemetry` | ingestion: `TypeOK`, `StoredOnce`, `OnlyDuringWork`, `HighWaterIsNewest`, `LimitsHold`, `AnswersAreTrue`, `DatabaseAgreesWithContract`, `OnlyLateLiveReopens`, `ImplementsEvidenceOnce`; adapter and contracts: `AdapterEventsAreStorable`, `ContractsAreKept`; scenarios, simulator and certification: `ScenariosMeetExpectations`; alerts: `EpisodesAreSound`, `QuietMeansTrue`, `EpisodesOnlyGrow` | two requests in flight over four instants, five events of which two share a place in the stream, one failure or loss of authority: evidence is stored once and judged by the work it was captured in. Vendor events on both sides of every limit: what passes the adapter the database stores, unless PostgreSQL has no value for its instant or for one of its texts. Every scenario in every order of delivery, and the scenarios of the vendor's certification. Three signals over three minutes, evaluated in any order, one of them given up, an administrator who acknowledges and resolves: one open alert per key, every detection counted once, closed alerts stay closed, and when all jobs have run an alert on health is active only if the health is bad |
| `operations` | `EveryChangeIsSettled`, `ReportIsTrue`, `RowsAreExclusive` (queues); `StatisticsAreSound`, `HardwareIsProven`, `SubmissionsAreKept` | two jobs, three pages, one failed evaluation and one abort in each of the three queues; up to four windows of a device; a registry of two devices, one vehicle and two credentials; one driver form, one visitor and two administrators; three photos; samples on both sides of every limit of the rules |
| `lifecycle_startrace`, `lifecycle_cancel`, `lifecycle_close`, `sync_loss`, `sync_break`, `queue_lost` | one violated property each | the findings below |

`telemetry` and `operations` check modules that share no state side by side: a
behaviour is of one `part`, and the others stay where they begin. The properties of a
part whose rules have no steps look at one `sample` per behaviour.

Bounds. Lifecycle: two days are the least for "the other days" and for moving a
day between dates; three dates leave room to move both; one request in flight
(`MaxPending`) suffices because every property is violated, if at all, by one
request that outlives a change. Symmetry is used in safety runs only. Sync: two
points (one can starve or overwrite the other), one retry before the filter of
unforced syncs excludes a point (five in the code) and a retry counter that sticks
above it. A failure is a lost or late write or a restart of the app. A batch of two
lets the database take part of a batch and the sync read the buffer again, and a second
session, with two failures in all, is a restarted proof; a batch of one is the size at which a rejected point can
starve the other, and three failures are one to put each point into the buffer and one
to hide the end of the work from the phone. Replay: two admins are one whose change the
other overtakes; two reasons are two requests under one replay identity; two payments
and pages of one row make history longer than a page; one late request is enough to
arrive after its successor. Reschedules take the same path as a cancellation and are
left to the theorems, which are about every set of types and contents.

Telemetry: two requests are a request and its repetition, or two that interleave; four
instants (0..3) hold a start, a break or an end, and one more; the policy's spans are
one or two instants, so that live, delayed, too late and ahead all occur; limits of one
or two events per window of two instants are reached. Operations: two jobs are the
least for a page with two rows and for two pages that meet the cohorts in different
orders; three attempts instead of eight, two waves instead of four, and three pages so
that one outlives its invocation; baselines of two windows instead of eight. Two
proofs fill a page of candidates, a third does not fit. Two devices and one vehicle
are a replacement; one of them has credentials at a time, since no function looks at
those of two; four readings let an old answer come after a newer selection.

Alerts: three signals are a detection, a recovery and one of either between or after
them, in all orders of commit and of evaluation; three minutes hold silence, offline and
a sample outside the window of one that counts; a receipt commits at most a minute late,
enough to overtake another. A device off work reports its
battery (60, 23, 5 percent: normal, low, critical; late, too), another is at work from the
first minute and reports its position. The theorems have no such bounds.

Fairness. Of `MCPhoneLocationSync` (for `DeliveredAlone`): requests end, because the
app gives up after 15 seconds; the driver presses Sync Now while points wait, as the
pilot runbook tells him to. Nothing is assumed of the network or of later captures.
Of `AnalysisQueue`: the schedule calls the function every minute, the worker and a
transaction that began go on (a deadlock counts as an end), and a writer commits;
evaluations may fail and pages abort within their bounds. `FairSpec` of
`AdWorkLifecycle` (used in `lifecycle_close` only): an admin who can close the work does
so sooner or later.

### Findings
* `NoTrackingWithoutAccess` (`lifecycle_startrace`): a session starts after the
  Work Code was revoked, because the start RPC read the Ad Work before.
* `CancelSparesCompletedWork` (`lifecycle_cancel`): a second release of completed
  work resets its overall status, after which it can be cancelled.
* `ClosableWorkIsClosed` (`lifecycle_close`): with PostgreSQL's default settings
  `prepare_final_proof_summary` always raises (42702), so no work can be closed.
* `OfflineCaptureRetained` (`sync_loss`): buffer writes of a capture and a sync that
  overlap lose a point.
* `BreakIsNotTracked` (`sync_break`): points captured during a break the phone has
  not heard about are stored after the work resumes.
* `LateChangesAreEvaluated` (`queue_lost`): a comparison job counts an attempt for every
  claim and never sets the count back, so after eight claims, successful ones
  included, a later change of that work day stays pending for ever.

### Observed while modelling
What the models describe as it is and no run states as a property:

* Release panel: `buildExecutionReleaseReadiness` asks every work for a vehicle, while
  the assignment panel hides the vehicle of work that needs none. Such work can never be
  sent from the page (`NextActionIsPossible` leaves that case out). The planning
  form lets an administrator untick the driver of driver-app work, or ask for a speaker
  without a vehicle (`admin.tsx:7368-7370`). The page then names "send to driver" as the
  next action of work that the release function refuses for having no driver
  (`20260822121500`, line 35), and the speaker's check can never pass, since the panel shows
  no vehicle. The runs sample needs as the delivery methods set them, and the theorems say
  which needs they take. A photo of size 0 is accepted by the app and refused by the database. The shared validator of an
  enquiry accepts phones in parentheses, which the form function refuses.
* Enquiry form: the page checks texts as they are written (`PublicWebsite.tsx:48`, 66, 86), the
  function what `cleanText` leaves of them (`enquiries.mjs:16-20`). A phone `987   654`, or a
  required text of control characters only, passes the page and is answered 400; the
  visitor is told only to check the details and try again. `FormsAreAccepted` says that nothing else
  separates them. An application to drive that holds `\u0000` passes the app, and the database
  refuses it.
* M21: three kinds of event pass every check of the host, and PostgreSQL has no value for them:
  a `firmwareVersion` with `\u0000` (`validation.ts:377-379`; the adapter looks for it in identifiers and
  the capture time only), half a surrogate pair in a text that is passed on, and a capture
  time of year 0 (`timestamp.ts:1-25`). The function's call then raises, the whole request is
  answered 503 as if the database were away, and so is every retry of it, with the good
  events of its batch. The vendor's webhook refuses `\u0000` everywhere and lets the other two
  through (`reference-vendor-adapter.ts:153-155`, 168-172). `Storable` and `EventsAreSound` say that
  these are all.
* M22: a rule that asks for two bad samples counts one for any live receipt that is
  evaluated while the health is bad, whatever that receipt said, so that one bad report
  can open its alert; `m22_alert_behavior.test.sql:302` ("first sample stays below
  required count") calls the counting with bad samples only. A recovery evaluated before
  the detection it answers leaves no trace where there is no alert yet; the detection
  then opens an active one, whereas line 191 of the test ("observation older than the
  clear cannot reactivate current state") has an alert to clear. The catalogue opens the
  battery alert at 20 percent, the classification it reads says "low" from 25. The reason
  `captured_after_end_work`, which has a rule, is never given; evidence after the end is
  an off-work attempt.
* M22: a heartbeat without a position, sent while no work runs, opens an alert for an
  off-work *location* attempt. Delayed evidence is never looked at for impossible
  speeds, although the catalogue calls that rule `live_or_historical`.
* M22: a page that always times out is repeated for ever, since its rollback takes
  the attempts back. M25: a first snapshot that arrives late does not mark later periods,
  only a corrected one does; `selectM25BaselineV1` takes the first of several compatible
  baselines although its comment claims independence of order.
* M21: a live request that arrived before a break and is persisted after it shows
  the session running again (`OnlyLateLiveReopens`; the tests take it as given).
  `health` with fix "none" makes the device not ready, so its next call is refused. An
  answer lost by `m21_mark_credential_verified` becomes a 401 although the charge was
  given back.
* Vendor webhook: its content identity includes the observed clock offset, so a real
  retry at a later time is a conflict; optional fields become explicit `undefined`,
  for which the identity throws; some values pass the vendor's ranges and fail the
  canonical ones.
* Retention: a row without a file is never removed; five hundred of them, in no
  order, can fill every page of candidates.
* Registry: `pending` credentials may be stored for a stopped device; link locks device
  then vehicle, replace the other way round. Two conversions of enquiries with one new
  phone number create two customers.

## 5. Proofs

`AdWorkLifecycleProofs` proves for every set of days, drivers, sessions and dates
(finite or not), every `VariableConflict` and every bound the theorems listed in
`PROJECT.json`: all properties of `lifecycle_driver` and `lifecycle_mixed`, and that the
lifecycle implements `WorkAccess`. They use the assumptions on the constants in
`AdWorkLifecycle` only; `CompletedMeansAllDays` needs `Modes = {"driver_app"}` as
well: `admin_update_ad_work_day` with `report_issue` changes a day of completed work
and leaves `ad_works` alone (`lifecycle_driver` has the instance of drivers only).

`CancelledWorkIsInert` is not inductive: a cancelled Ad Work could be revived by a
step whose guard looks at another column. The inductive invariant `AccessInv` adds
`CodeMatchesRelease`, `SummaryAgrees` (the summary and `closure_status` agree, so a
cancelled summary means cancelled work), `RequestsFollowRelease` (a request in
flight was preceded by a release, needed for the first start in `WorkAccess`) and
`RunningSessionOnRunningDay`. One lemma per group of actions shows that it is kept;
the action properties and the refinement follow from it step by step.

`PhoneLocationSyncProofs` proves the four safety properties of `sync_main` for any
number of points, sessions, retries and failures and any batch size. Its inductive
invariant `SyncInv` adds to them

* `OnlyCaptured`: the database, the requests in flight and the late ones know only
  points that were captured, so capturing a fresh point relabels none of them;
* `EndIsFinal`: ended work does not run again and only ended work has late points,
  so neither RPC, both of which ask for a running day or a capture time before the
  end, accepts one of them;
* `AcknowledgedIsStored`: what a sync is about to remove from the buffer is in the
  database, which gives `KeptUntilStored`.

`MutationReplayProofs` proves all properties of `replay_main` for any number of
admins, any contents and types of change, any page size and any bounds. The inductive
invariant `ReplayInv` has, next to the properties themselves,

* `LateFits` and `RequestFits`: a request under way expects a version that has
  existed. Without it a request could be "ahead" of the database, and neither a
  conflict nor a success could be read off the history;
* in `RequestFits`, that a request for older rows continues the oldest row shown
  (`OlderFits` then gives that the union has no hole, `NewestUpward` that a page is
  the upper end of what it is taken from);
* in `PageOK`, that a page shows versions that have existed.

A step of the database only makes versions and history grow (`Grows`), and below the
version a page has seen the history does not change (`GrownView`), so that the pages
the step does not touch keep what holds of them.

`AnalysisQueueProofs` proves `RowsAreExclusive` in all three queues, for any bounds. Its invariant `QueueInv` ties the locks to the pages in
both directions: a running page holds what it has evaluated and swept
(`RunningHolds`), what is held is listed by a page that runs (`HeldIsListed`), a page that
was only called has done nothing (`CalledIsEmpty`). `WritersInsert` (an M22 writer that
holds a row found none) and `CompletedIsCurrent` (a completed row has had its newest
evidence evaluated) are about the rows.

It also proves `ReportIsTrue`, for finitely many jobs and pages, at least two pages and limits
of at least one (`LimitsAssumption`). `ReportInv`, inductive next to `QueueInv`, says

* what a wave has open (`PagesOfWave`) and that rules and comparisons hold what they still
  have to evaluate (`ListedIsHeld`);
* `CountsAreTrue`: as long as no call was lost, what was tallied and what lies in answered
  pages is all the database committed for this invocation; otherwise it is at most that,
  and the invocation is no longer able to say "ok";
* `DueIsHandled`: what was due at the start is still due or was evaluated, failed or changed.
  A statistics row on a list that is no longer due was taken by another call of the same
  wave, since no other was open;
* `ShortPageSawAll`: M22 and M23 stop after a wave that is not full, so one call listed
  less than its batch (`FullPages` counts this); that call saw every due row nobody else
  held, and the others are in the hands of calls of the same wave, all of which commit
  before the wave is tallied. M25 locks after selecting, so its list may hold rows of another call
  and be worked off without a claim: it stops only when a wave claims nothing, and
  there an empty list means that nothing was due or something had been claimed before;
* `DrainedIsHandled`: what then follows for the rows, up to the summary.

`OperationsProofs` proves about `RegistryNext \/ PageNext`, every interleaving of the
functions with the page, for any devices, vehicles and credentials whose names are
not the mark "none" (`NoneIsNoName`): `ActiveMeansInstalled`, whose five parts are inductive
only together, `RetiredIsForever`, `TransitionsAgree`, and that the page shows and saves
the selected device only. It also proves of `PilotReadiness`, for any manifest, counts and
percentages, `EvidenceAgrees`, `MoreEvidenceIsNeverWorse`, `LabelsFit` and
`StoredManifestsAreValid`. All are parts of the run's `HardwareIsProven`, to which
`SharedTelemetryProofs` adds the vendor and `AnalysisQueueProofs` the samples.

`OperationsProofs` also proves the parts of `SubmissionsAreKept`.

* `SubmissionsAreSound`, for any ids, details and bounds. `SubmissionInv` says that the phone
  knows one attempt, the stored one (`OneAttempt`), that every late request is of an
  attempt that was reported, replaced or is still stored (`LateIsAccounted`), so a row it
  creates is not forgotten, and that the table announces a proof once and with its photo
  (`AnnouncedIn`).
* `IntakeIsProtected` and `OneWorkPerEnquiry`, for any number of calls, windows and
  administrators and any limit (`IntakeBounds`). A stored enquiry does not say how its call
  came there, since an insert may be carried out although the call was refused. `IntakeInv`
  therefore follows calls: one that *passed* holds a token that is spent, and no two hold
  the same one; those *admitted* to a window are no more than were counted in it, nor than
  its limit, also before they are inserted.
* `PlansAgree`, for all numbers of days, and `FormsAreAccepted`, for all lengths of texts: a form
  the page sends passes the function exactly if cleaning leaves enough of it
  (`CleaningKeeps`). `IsForm` says that a text without the blanks around it is no longer than
  written, and cleaned no longer than that.
* `AssignmentsAgree`, for any work that asks for a speaker only with a vehicle
  (`SpeakerHasVehicle`), and `NextActionIsPossible`, for any work that has a driver and
  areas where the driver app carries it (`DriverAppHasDriver`). Every delivery method sets
  such needs (`EveryMethodFits`); the planning form can change them into others, for which
  the rules really disagree (section 4, release panel). `DayActionsAgree` and
  `PaymentsAgree` have no such hypothesis; `ApplicationsAgree` assumes that a number the
  app's pattern takes has 7 to 20 characters, that an ownership is of the form's list and that
  trimming makes no text longer; it says that the database takes the application exactly if it can
  hold its texts.
* `HistoryPagesAgree`, for any history and cursor and every limit the page allows: a page is
  the upper end of the versions below its cursor, so what is missing is below its last.
* `EnvironmentsAreSafe` for every environment and `ExportsAreBounded` for any number of
  rows.
* `ExportsReadBack`, for any number of rows of any number of cells of any length: the export
  always writes its header line first (`serializeOperationsCsv`), no line has no cell, and no cell holds
  the mark that begins the file (`Texts`). Reading is followed along the file: what a
  spreadsheet has read after a text depends only on what it had read before it
  (`ReadOn`), a quoted text comes back with its doubled marks halved
  (`ReadQuoted`), a text that needed no quotes comes back as it is (`ReadUnquoted`), and so
  cell by cell (`ReadLine`) and line by line.
* `FilesAreNamed` and `OnlyExpiredIsDeleted`, for any proofs and page size: what a sweep is
  about to tell the database is gone (`ToldIsGone`) and all it swept had expired
  (`OnlyExpiredIsSwept`).

`TelemetryProofs` proves of the ingestion `TypeOK`, `StoredOnce`, `OnlyDuringWork`, `HighWaterIsNewest`,
that evidence only grows, and that the ingestion implements `EvidenceOnce`, for any
catalog of events, batches, number of requests in flight, policy, limits and bounds
(`PolicyAssumption`, `CatalogAssumption`). The invariant `IngestInv` adds `Arrived` (a receipt
came before now and names a row of the day, so opening a row claims no old receipt),
`HostInv` (a request that still has to be processed came before now, carries a batch and
has an event left) and the types. The heart is `PositionIsAuthorised`: an event that
becomes a position passed every check of authority at its capture; from then on
`ended`, `rival` and the history only change at the present, after the receipt.

The other four invariants of the ingestion need more, proved next to `IngestInv`:

* `LimitsHold`: `ChargesInv` counts for each window what is stored and what requests
  in flight still owe a result (`Owed`): together they never exceed what was charged
  within the limit. `ReservationsInv` bounds the reservations nobody gave back by their
  bucket: the bucket is lowered only together with one of them.
* `AnswersAreTrue` is inductive with `IngestInv`, because evidence only grows. The proof
  showed what "duplicate" means: an event can be answered by its place in the stream
  while later another event is stored under its id, so the content stands under the
  id or at the place, not always where a next look would find it first.
* `DatabaseAgreesWithContract` follows from `DayInv` (the day's rows follow each other
  and it ends once): a running row lies within the work (`RunsInsideWork`), and an
  event that is live by the contract has not expired, if `Live <= Backfill`. That is a
  hypothesis of the theorem. The policy that is installed has 120 s and 86400 s
  (`20260727010000_*.sql:59-63`), but the table admits 3600 s with 60 s (lines 46-47);
  there the contract says live of an event the database calls expired.
* `OnlyLateLiveReopens` is inductive together with `SessionsOfRuns`: only rows of running
  work have a session, so the row a break or an end closes is the one it stops.

`TelemetryProofs` also proves `EpisodesAreSound`, `EpisodesOnlyGrow` and `QuietMeansTrue` for any rules,
receipts, minutes of the policy and bounds. `AlertInv`, for the first two, adds the types and
`AssessmentsAreReal` (an assessment names a completed job and an episode that exists, so
evaluating a pending job counts something new). `QuietMeansTrue` is about the end of a
run of jobs whose order is unknown. `QuietInv` adds `LiveAreReceipts`; `DetectedAtReceipts`
(an alert on health was last detected no later than some live receipt, hence no later
than the last one); and `QuietAfterDecisive`: if the receipt that is both the last to commit
and the latest has been evaluated, and the health is good, every open alert is inactive,
because that receipt cleared it and no job after it finds bad health.

`StatisticsProofs` proves the parts of `StatisticsAreSound`. The library's induction over
data takes an operator as a parameter, which the provers cannot instantiate; here a
statement about all lengths is proved by its least counterexample (`LeastOf`), and a
recursive function, which is a CHOOSE, is shown to exist first.

* `EvaluatorsAgree` and `InvestigationNeedsARun`, for any values, samples, supports and
  numbers of windows. `SideBySide` relates the two histories: as many evaluations, window
  by window of one state, and a window opens for the shared evaluator exactly when the
  database calls it anomalous. `BaselinesAreOfScopes` says that filtering all observations
  for a cohort gives the windows of its tier, so both select the same statistics; the
  scores are then equal fractions, provided that a deviation and an interquartile range
  are never negative, which needs that sorting orders.
* `SnapshotsAreStable`, for evidence of any length with distinct ids (`WindowEvidence`). Sorting
  by a total order does not see the order of its input (`SortingForgetsOrder`): a place
  is the number of elements before it, which a bijection keeps.
* `PairingIsComplete`, for any points with distinct ids (`PointList`). `PairsOf` says what holds
  when the first n phone points have been paired, and `PairIsAdded` that the next keeps it.

`MCOperations` takes the stream from `StatisticsProofs`, so that `AnalysisQueueProofs`, which extends
it, can prove the run's `StatisticsAreSound` itself (`StatisticsAlwaysSound`) from those theorems:
`StatisticsInv` says that the stream keeps its invariant whatever the other parts do and that
what is sampled has distinct ids.
It takes the forms, the intake, the sweep and the rules from `OperationsProofs` in the same
way, so that the run's `SubmissionsAreKept` follows from the parts proved there
(`SubmissionsAlwaysKept`, for the bounds `IntakeBounds`). What is left to show is that each sample fits
the hypotheses of its rule (`SubmissionSamples`), among them that sampled forms are forms (`FormsAreForms`) and that the needs of a sampled work fit
each other (`NeedsFit`), as those set by every delivery method do.
The run's `HardwareIsProven` follows in the same way (`HardwareAlwaysProven`) from the theorems about
the vendor, the registry and readiness, for any names other than "none" (`NoneIsNoName`).
`HardwareSamples` says that a sampled request has an instant and that a sampled event is JSON: the
certification's good event with some fields changed to JSON is JSON (`ChangedEventsAreJson`).

`SharedTelemetryProofs` proves of the shared telemetry code, for whatever JSON a device sends:

* `Storable`: what the adapter lets through the database function and its tables take exactly if
  PostgreSQL has values for its instant and for the texts passed on as they are (`HoldsEvent`). The
  hypothesis `Json` says what a parser can answer: a text has a length, a list its items,
  three levels deep, which is as deep as an event is looked into. The adapter lets an event
  through only without an issue of the canonical contract; the proof shows field by field
  that the ranges and lengths of the database, stated in a place of their own, follow;
* `RetryIsTheSame` and `IdentitiesTellApart`: neither depends on when the host received an event;
* `AcknowledgementIsValid`, for any results, and `DecisionIsAResult`, for any times, context and policy:
  of all dispositions of the contract only the decision's own fits;
* `StreamIsWhole` and `TimeCutsDoNotMatter` of the simulator, for any interval, delay, offset and limit
  (`SimulatorBounds`). The queue and what was flushed form one stream that goes up by one
  (`InTurn`); two advances are one because a turn past the target changes nothing.

Of the reference vendor it proves

* `OnlyTheSignedRequest`, for any keys, bodies, instants and signatures. Signatures tell what
  they sign apart (`SignaturesTellApart`): the model's idea of a hash, and all it takes of one;
* `EventsAreSound`, for whatever JSON the vendor sends: what is let through has no issue of the
  canonical contract and is therefore stored exactly if PostgreSQL has values for it
  (`HoldsVendorEvent`); the hash covers the observations as they are
  normalised, and these still tell the vendor's apart (`ObservationsTellApart`).

`TelemetryProofs` extends `MCTelemetry`, which takes the adapter from there, and so proves the run's
`AdapterEventsAreStorable` for every event a device can send (`AdapterEventsAlwaysStorable`).

Two habits of tlapm shape these modules: `UNION A \cup B` is read as the union of both, so that it
is written with parentheses, and a set `{e : <<a, b>> \in S}` is not read at all.

Only model-checked:
* liveness, which this prover does not reach: `DeliveredAlone`, `EveryChangeIsSettled`;
* `ContractsAreKept`, of which the acknowledgements and the event time decision are proved, and
  `ScenariosMeetExpectations`, of which the simulator is: the rest compares validators field by
  field, or follows one listed scenario, over exactly the samples that the run enumerates. The
  certification of the reference vendor is such a list.

## 6. Not modelled

`PROJECT.json` says it for each component. In short:
* the verdict on a comparison (M23), the propagation of corrections and the
  promotion records (M25): the queues treat an evaluation as one step that may fail;
* of M22: rules on rejected vendor events, identity conflicts and failed
  authentications, expired backfill, new versions of a policy, alert notes, compaction of
  completed jobs, and the sweep's cursor over many devices;
* the records of certification and commissioning (M24F, M26) beyond what is recorded
  as evidence and what makes a device ready;
* several devices or work days at once in the ingestion, and the retention of its
  buckets; the vendor's clock;
* adding and removing days of a planned work, the rule that a day starts on its
  date, superseded functions of M6 and M12;
* sharing links, notes, filters, forms, lists, messages and layout of the web and the
  app: they call the functions and keep no state of their own;
* the order in which a function takes its row locks: each function is one step.
