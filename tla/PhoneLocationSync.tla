---------------------------- MODULE PhoneLocationSync ----------------------------
(***************************************************************************)
(* Phone Location Proof of one work day: the driver app captures points,   *)
(* sends each one, buffers what a bad network did not answer for, and      *)
(* syncs the buffer in batches; the database checks and deduplicates.      *)
(*                                                                         *)
(* The app is single-threaded but asynchronous: a capture, a sync and a    *)
(* work action interleave at every await.  Each request is one step that   *)
(* the server answers, applies without its answer arriving in time         *)
(* ("lost"), or has not received when the app gives up ("late"): points    *)
(* sent in such a request may still arrive afterwards.  The generation     *)
(* counter that cancels work in flight is a flag, `current`, of each       *)
(* piece of work.                                                          *)
(***************************************************************************)
EXTENDS Integers, FiniteSets

CONSTANTS
    MaxPoints,    \* bound on captured points
    MaxRetries,   \* maxLocationSyncRetries
    BatchSize,    \* maxLocationSyncBatchSize
    RetryCap,     \* bound on the retry counter: it sticks there
    MaxSession,   \* bound on tracking sessions of the day
    MaxFailures   \* bound on unanswered writes and app restarts

ASSUME PointAssumption == MaxPoints \in Nat
ASSUME RetryAssumption == MaxRetries \in Nat /\ RetryCap \in Nat /\ MaxRetries < RetryCap
ASSUME BoundAssumption == BatchSize \in Nat \ {0} /\ MaxSession \in Nat \ {0} /\ MaxFailures \in Nat

Point == 1 .. MaxPoints                 \* client_point_ids in the order of their use
NoPoint == 0
DayStatus == {"running", "on_break", "completed", "issue_reported"}
SessionStatus == {"running", "paused", "stopped"}
WorkAction == {"take_break", "resume", "end", "issue"}
Outcome == {"answered", "lost", "late"}
Absent == -1                            \* the retry count of a point not in the buffer

VARIABLES
    \* the database
    day,        \* ad_work_days.execution_status
    ended,      \* execution_completed_at is not null
    released,   \* the Work Code is valid and the assignment is ready
    session,    \* number of the latest tracking_sessions row of this driver and day
    status,     \* its status; every earlier row is stopped
    stored,     \* the location_points rows
    count,      \* tracking_sessions.point_count of each session
    \* the phone
    view,       \* the work row the app shows and the state of Location Proof
    buffer,     \* AsyncStorage: retry_count of each buffered point
    capture,    \* recordCurrentLocationPoint in flight
    sync,       \* syncBufferedLocationPointsForWork in flight
    action,     \* handleWorkAction in flight
    \* the environment
    owner,      \* the session each captured point was captured for, 0 if unused
    taken,      \* what the day was when the point was captured
    late,       \* points of timed-out requests that may still arrive
    failures

server == <<day, ended, released, session, status, stored, count>>
phone == <<view, buffer, capture, sync, action>>
captures == <<owner, taken>>
vars == <<server, phone, captures, late, failures>>

Buffers == [Point -> Absent .. RetryCap]
Buffered(b) == {p \in Point : b[p] # Absent}

Views == [day : DayStatus \cup {"none"}, session : 0 .. MaxSession, status : SessionStatus]
NoWork == [day |-> "none", session |-> 0, status |-> "stopped"]
NoCapture == [pc |-> "idle", point |-> NoPoint, snap |-> [p \in Point |-> Absent],
              current |-> FALSE]
NoSync == [pc |-> "idle", batch |-> {}, accepted |-> {},
           snap |-> [p \in Point |-> Absent], current |-> FALSE]

TypeOK ==
    /\ day \in DayStatus /\ ended \in BOOLEAN /\ released \in BOOLEAN
    /\ session \in 1 .. MaxSession /\ status \in SessionStatus
    /\ stored \subseteq Point
    /\ count \in [1 .. MaxSession -> 0 .. Cardinality(Point)]
    /\ view \in Views
    /\ buffer \in Buffers
    /\ capture \in [pc : {"idle", "sent", "save"}, point : Point \cup {NoPoint},
                    snap : Buffers, current : BOOLEAN]
    /\ capture.pc # "idle" => capture.point \in Point
    /\ sync \in [pc : {"idle", "sent", "remove", "recheck", "mark"}, batch : SUBSET Point,
                 accepted : SUBSET Point, snap : Buffers, current : BOOLEAN]
    /\ action \in WorkAction \cup {"none"}
    /\ owner \in [Point -> 0 .. MaxSession]
    /\ taken \in [Point -> DayStatus \cup {"after_end", "unused"}]
    /\ late \subseteq {"record", "sync"} \X Point
    /\ failures \in 0 .. MaxFailures

\* The driver has started Work and Location Proof; nothing is captured yet.
Init ==
    /\ day = "running" /\ ended = FALSE /\ released = TRUE
    /\ session = 1 /\ status = "running"
    /\ stored = {} /\ count = [s \in 1 .. MaxSession |-> 0]
    /\ view = [day |-> "running", session |-> 1, status |-> "running"]
    /\ buffer = [p \in Point |-> Absent]
    /\ capture = NoCapture /\ sync = NoSync /\ action = "none"
    /\ owner = [p \in Point |-> 0] /\ taken = [p \in Point |-> "unused"]
    /\ late = {}
    /\ failures = 0

--------------------------------------------------------------------------------
\* The database.

\* driver_record_mobile_location_point.
RecordAccepts(p) ==
    /\ released
    /\ day = "running" /\ status = "running" /\ owner[p] = session

\* The part of RecordAccepts that driver_sync_mobile_location_points checks once.
SyncAuthorised == released

\* Mutant of SyncAccepts: the capture time is not compared with the end of work.
SyncAcceptsAnyTime(p) ==
    \/ day = "running" /\ status = "running" /\ owner[p] = session
    \/ day \in {"completed", "issue_reported"} /\ ended

\* Its check of one point.
SyncAccepts(p) ==
    \/ day = "running" /\ status = "running" /\ owner[p] = session
    \/ day \in {"completed", "issue_reported"} /\ ended /\ taken[p] # "after_end"

\* Mutant of Store: a duplicate delivery is counted again.
StoreCountingDuplicates(ps) ==
    /\ stored' = stored \cup ps
    /\ count' = [s \in 1 .. MaxSession |->
                   count[s] + Cardinality({p \in ps : owner[p] = s})]

\* insert ... on conflict do nothing; only new rows are counted.
Store(ps) ==
    /\ stored' = stored \cup ps
    /\ count' = [s \in 1 .. MaxSession |->
                   count[s] + Cardinality({p \in ps \ stored : owner[p] = s})]

\* driver_get_assigned_work: no row without a valid code.
Loaded == IF released THEN [day |-> day, session |-> session, status |-> status] ELSE NoWork

\* The tracking triggers of AdWorkLifecycle, for the latest session.
StatusAfter(d) ==
    CASE d = "on_break" /\ status = "running" -> "paused"
      [] d \in {"completed", "issue_reported"} -> "stopped"
      [] OTHER -> status

\* driver_update_work_day.
WorkAllowed(a, d) ==
    CASE a = "take_break" -> d = "running"
      [] a = "resume"     -> d = "on_break"
      [] a = "end"        -> d \in {"running", "on_break"}
      [] a = "issue"      -> d # "none"

Target(a) == CASE a = "take_break" -> "on_break"
               [] a = "resume"     -> "running"
               [] a = "end"        -> "completed"
               [] a = "issue"      -> "issue_reported"

ApplyWork(a) ==
    IF released /\ WorkAllowed(a, day)
    THEN /\ day' = Target(a)
         /\ status' = StatusAfter(Target(a))
         /\ ended' = (ended \/ a = "end")
    ELSE UNCHANGED <<day, status, ended>>

--------------------------------------------------------------------------------
\* Requests, generations and views.

\* A write that is not answered in time uses up one of the failures.
Network(out) ==
    /\ out # "answered" => failures < MaxFailures
    /\ failures' = IF out = "answered" THEN failures ELSE failures + 1

Cancelled(w) == [w EXCEPT !.current = FALSE]

\* locationCaptureGeneration.current += 1.
NextGeneration == capture' = Cancelled(capture) /\ sync' = Cancelled(sync)

\* setWorkRows and the effect that runs when the current work row changes.
Show(v) ==
    /\ view' = v
    /\ IF v # view /\ v.status # "running" THEN NextGeneration ELSE UNCHANGED <<capture, sync>>

--------------------------------------------------------------------------------
\* Capture: recordCurrentLocationPoint.

Active(v) == v.day = "running" /\ v.status = "running"

CanCapture ==
    /\ capture.pc = "idle" /\ action = "none" /\ Active(view)

\* The refreshed authorisation, or the stale one if the network is down, allows
\* a fix; the point is created and sent.
Capture(p, out) ==
    /\ CanCapture
    /\ out = "answered" => Active(Loaded) /\ Loaded.session = view.session
    /\ owner[p] = 0 /\ \A q \in Point : q < p => owner[q] # 0
    /\ owner' = [owner EXCEPT ![p] = view.session]
    /\ taken' = [taken EXCEPT ![p] = IF ended THEN "after_end" ELSE day]
    /\ capture' = [NoCapture EXCEPT !.pc = "sent", !.point = p, !.current = TRUE]
    /\ UNCHANGED <<server, view, buffer, sync, action, late, failures>>

\* refreshActiveLocationAuthorization learns that the work is no longer active.
StopCapture ==
    /\ CanCapture
    /\ ~(Active(Loaded) /\ Loaded.session = view.session)
    /\ view' = Loaded
    /\ NextGeneration
    /\ UNCHANGED <<server, buffer, action, captures, late, failures>>

\* recordMobileLocationPoint and what the app does with its outcome: an answer
\* ends the capture, a rejection stops it and drops the point, no answer buffers it.
SendPoint(out) ==
    /\ capture.pc = "sent"
    /\ Network(out)
    /\ LET p == capture.point
           accepted == RecordAccepts(p)
       IN  /\ IF out # "late" /\ accepted
              THEN Store({p}) /\ UNCHANGED <<day, ended, released, session, status>>
              ELSE UNCHANGED server
           /\ late' = IF out = "late" THEN late \cup {<<"record", p>>} ELSE late
           /\ IF out # "answered" /\ capture.current
              THEN /\ capture' = [capture EXCEPT !.pc = "save", !.snap = buffer]
                   /\ UNCHANGED view
              ELSE /\ capture' = NoCapture
                   /\ view' = IF out = "answered" /\ ~accepted /\ capture.current
                              THEN [view EXCEPT !.status = "stopped"] ELSE view
    /\ UNCHANGED <<buffer, sync, action, captures>>

\* saveBufferedLocationPoint writes what it read plus the point.
SavePoint ==
    /\ capture.pc = "save"
    /\ buffer' = IF capture.snap[capture.point] # Absent THEN capture.snap
                 ELSE [capture.snap EXCEPT ![capture.point] = 0]
    /\ capture' = NoCapture
    /\ UNCHANGED <<server, view, sync, action, captures, late, failures>>

--------------------------------------------------------------------------------
\* Sync: syncBufferedLocationPointsForWork.

\* pruneBufferedLocationPointsForWork and the retry filter.
Eligible(force) ==
    {p \in Buffered(buffer) : owner[p] = view.session /\ (force \/ buffer[p] < MaxRetries)}

\* Mutant of Selections: the batch is not sorted by retry count.
SelectionsUnsorted(force) ==
    {b \in SUBSET Eligible(force) : b # {} /\ Cardinality(b) <= BatchSize}

\* selectLocationPointsForSync: the points that failed least come first.
Selections(force) ==
    {b \in SUBSET Eligible(force) :
       /\ b # {} /\ Cardinality(b) <= BatchSize
       /\ b # Eligible(force) => Cardinality(b) = BatchSize
       /\ \A p \in b, q \in Eligible(force) \ b : buffer[p] <= buffer[q]}

\* Sync Now (force), the timer after a capture, or the effect on a loaded row.
StartSync(force) ==
    /\ sync.pc = "idle" /\ view.session # 0
    /\ \E b \in Selections(force) :
         sync' = [NoSync EXCEPT !.pc = "sent", !.batch = b, !.current = TRUE]
    /\ UNCHANGED <<server, view, buffer, capture, action, captures, late, failures>>

\* driver_sync_mobile_location_points_v2 and the branches after its outcome;
\* the next read of the buffer happens when the answer is in.
SendBatch(out) ==
    /\ sync.pc = "sent"
    /\ Network(out)
    /\ LET accepted == IF SyncAuthorised /\ out # "late"
                       THEN {p \in sync.batch : SyncAccepts(p)} ELSE {}
           rejected == out = "answered" /\ ~SyncAuthorised
       IN  /\ Store(accepted) /\ UNCHANGED <<day, ended, released, session, status>>
           /\ late' = IF out = "late" THEN late \cup ({"sync"} \X sync.batch) ELSE late
           /\ sync' =
                IF out = "answered" /\ accepted # {}
                THEN [sync EXCEPT !.pc = "remove", !.accepted = accepted, !.snap = buffer]
                ELSE IF sync.current /\ ~rejected
                THEN [sync EXCEPT !.pc = "mark", !.snap = buffer]
                ELSE NoSync
           /\ view' = IF rejected /\ sync.current
                      THEN [view EXCEPT !.status = "stopped"] ELSE view
    /\ UNCHANGED <<buffer, capture, action, captures>>

\* Mutant of AfterRemoval: the whole batch is acknowledged.
AfterBatchRemoval == [p \in Point |-> IF p \in sync.batch THEN Absent ELSE sync.snap[p]]

\* removeAcceptedLocationPoints.
AfterRemoval == [p \in Point |-> IF p \in sync.accepted THEN Absent ELSE sync.snap[p]]

\* Accepted points are acknowledged even after a local stop.
RemoveAccepted ==
    /\ sync.pc = "remove"
    /\ buffer' = AfterRemoval
    /\ sync' = IF sync.current /\ sync.batch # sync.accepted
               THEN [sync EXCEPT !.pc = "recheck"] ELSE NoSync
    /\ UNCHANGED <<server, view, capture, action, captures, late, failures>>

RereadBuffer ==
    /\ sync.pc = "recheck"
    /\ sync' = [sync EXCEPT !.pc = "mark", !.snap = buffer]
    /\ UNCHANGED <<server, view, buffer, capture, action, captures, late, failures>>

\* markLocationPointsFailed, with the counter stuck at RetryCap.
MarkFailed ==
    /\ sync.pc = "mark"
    /\ buffer' = [p \in Point |->
                    IF p \in sync.batch \ sync.accepted /\ sync.snap[p] \in 0 .. RetryCap - 1
                    THEN sync.snap[p] + 1 ELSE sync.snap[p]]
    /\ sync' = NoSync
    /\ UNCHANGED <<server, view, capture, action, captures, late, failures>>

--------------------------------------------------------------------------------
\* The driver.

\* handleWorkAction up to its request.
BeginWork(a) ==
    /\ action = "none" /\ WorkAllowed(a, view.day)
    /\ action' = a
    /\ IF a = "resume" THEN UNCHANGED <<capture, sync>> ELSE NextGeneration
    /\ UNCHANGED <<server, view, buffer, captures, late, failures>>

\* The request; the app then reloads the work, unless that fails as well.
FinishWork(out, reloaded) ==
    /\ action # "none"
    /\ Network(out)
    /\ IF out = "late" THEN UNCHANGED <<day, status, ended>> ELSE ApplyWork(action)
    /\ IF out = "answered" \/ reloaded
       THEN Show(IF released THEN [day |-> day', session |-> session, status |-> status']
                 ELSE NoWork)
       ELSE UNCHANGED <<view, capture, sync>>
    /\ action' = "none"
    /\ UNCHANGED <<released, session, stored, count, buffer, captures, late>>

\* handleStartLocationProof; driver_start_mobile_tracking reuses a live session.
StartProof(out) ==
    /\ view.day = "running" /\ Loaded.day = "running"
    /\ Network(out)
    /\ NextGeneration
    /\ IF out = "late" THEN UNCHANGED <<session, status>>
       ELSE /\ status = "stopped" => session < MaxSession
            /\ session' = IF status = "stopped" THEN session + 1 ELSE session
            /\ status' = "running"
    /\ view' = IF out = "answered"
               THEN [view EXCEPT !.session = session', !.status = "running"] ELSE view
    /\ UNCHANGED <<day, ended, released, stored, count, buffer, action, captures, late>>

\* handleStopLocationProof: the phone stops whatever the server answers.
StopProof(out) ==
    /\ view.session # 0 /\ view.status # "stopped"
    /\ Network(out)
    /\ NextGeneration
    /\ view' = [view EXCEPT !.status = "stopped"]
    /\ status' = IF out # "late" /\ view.session = session THEN "stopped" ELSE status
    /\ UNCHANGED <<day, ended, released, session, stored, count, buffer, action, captures, late>>

\* handleOpenWork.
OpenWork ==
    /\ Show(Loaded)
    /\ UNCHANGED <<server, buffer, action, captures, late, failures>>

\* The app is killed and started again: only AsyncStorage survives.
Restart ==
    /\ failures < MaxFailures /\ failures' = failures + 1
    /\ view' = NoWork
    /\ capture' = NoCapture /\ sync' = NoSync /\ action' = "none"
    /\ UNCHANGED <<server, buffer, captures, late>>

\* A request that the app has given up reaches the database.
Arrive(rpc, p) ==
    /\ <<rpc, p>> \in late
    /\ late' = late \ {<<rpc, p>>}
    /\ IF rpc = "record" THEN RecordAccepts(p) ELSE SyncAuthorised /\ SyncAccepts(p)
    /\ Store({p})
    /\ UNCHANGED <<day, ended, released, session, status, phone, captures, failures>>

--------------------------------------------------------------------------------
\* The admin revokes the Work Code; a later release needs a new one on the phone.
Revoke ==
    /\ released
    /\ released' = FALSE /\ status' = "stopped"
    /\ UNCHANGED <<day, ended, session, stored, count, phone, captures, late, failures>>

Captures ==
    \/ \E p \in Point, out \in {"answered", "late"} : Capture(p, out)
    \/ StopCapture \/ SavePoint
    \/ \E out \in {"answered", "late"} : SendPoint(out)

SyncSteps ==
    \/ \E out \in {"answered", "late"} : SendBatch(out)
    \/ RemoveAccepted \/ RereadBuffer \/ MarkFailed

DriverSteps ==
    \/ \E a \in WorkAction : BeginWork(a)
    \/ \E out \in Outcome, reloaded \in BOOLEAN : FinishWork(out, reloaded)
    \/ \E out \in Outcome : StartProof(out) \/ StopProof(out)
    \/ OpenWork \/ Restart

Next ==
    \/ Captures \/ SyncSteps \/ DriverSteps \/ Revoke
    \/ \E force \in BOOLEAN : StartSync(force)
    \/ \E rpc \in {"record", "sync"}, p \in Point : Arrive(rpc, p)

Spec == Init /\ [][Next]_vars

\* Requests in flight end (they time out after 15 seconds) and the driver keeps
\* pressing Sync Now, as the pilot runbook asks, while points are waiting.
FairSpec ==
    /\ Spec
    /\ WF_vars(SyncSteps) /\ WF_vars(SavePoint)
    /\ WF_vars(\E out \in {"answered", "late"} : SendPoint(out))
    /\ WF_vars(StartSync(TRUE))

--------------------------------------------------------------------------------
\* Properties.

\* Retries, lost answers and both RPCs together never count a point twice, and
\* never store one without counting it.
CountMatchesStored ==
    \A s \in 1 .. MaxSession : count[s] = Cardinality({p \in stored : owner[p] = s})

\* A phone that has not heard of the end of work keeps capturing; nothing it
\* captured after the end is ever stored.
NothingAfterEnd == \A p \in stored : taken[p] # "after_end"

\* A write of the buffer is about to put back an older copy than it holds.
Overtaken ==
    \/ capture.pc = "save" /\ capture.snap # buffer
    \/ sync.pc \in {"remove", "mark"} /\ sync.snap # buffer

\* Whatever is lost, rejected, cancelled or restarted, a point leaves the phone
\* only when the database has it or when a capture and a sync wrote the buffer
\* over each other.
KeptUntilStored ==
    [][\A p \in Buffered(buffer) \ Buffered(buffer)' : p \in stored \/ Overtaken]_vars

\* The work is released, the point is in the scope of Sync Now and the database
\* would take it.
Deliverable(p) ==
    /\ released /\ p \in Buffered(buffer) /\ owner[p] = view.session
    /\ SyncAccepts(p) /\ buffer[p] < RetryCap

\* No such point waits for ever behind points that the database always rejects,
\* unless the driver keeps cancelling syncs with work actions.
Delivered == \A p \in Point : ~<>[](Deliverable(p) /\ action = "none")

--------------------------------------------------------------------------------
\* What documents say and the code does not do (checked as violations).

\* phone-location-cancellation.test.ts: a capture made offline is retained.
OfflineCaptureRetained ==
    [][\A p \in Buffered(buffer) \ Buffered(buffer)' : p \in stored]_vars

\* m13-driver-consent-text.md: Location Proof stops when the driver takes a break.
BreakIsNotTracked == \A p \in stored : taken[p] # "on_break"
================================================================================
