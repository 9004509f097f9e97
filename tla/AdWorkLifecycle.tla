---------------------------- MODULE AdWorkLifecycle ----------------------------
(***************************************************************************)
(* The life of one Ad Work in the Kootha database: assignment, release of  *)
(* the Work Code, execution of its days by a driver or by the admin team,  *)
(* phone tracking sessions, reschedule, cancellation and closure.          *)
(*                                                                         *)
(* Every SQL function below filters on one ad_works row, so the rows of    *)
(* one Ad Work are the whole state.  Functions that first take the         *)
(* transaction lock 'm21-authority-global' are one atomic action each.     *)
(* The driver RPCs that start tracking, report a missing permission or     *)
(* ask for a proof slot read the Ad Work WITHOUT that lock and write       *)
(* later: they are two actions, Begin... and Finish..., with the request   *)
(* in `pending` in between.                                                *)
(***************************************************************************)
EXTENDS Integers, FiniteSets

CONSTANTS
    Day,              \* the ad_work_days rows of the Ad Work
    Driver,           \* approved drivers with distinct phone numbers
    Session,          \* identities for tracking_sessions rows (a bound)
    Date,             \* calendar dates a day may be moved to (a bound)
    Modes,            \* the execution modes an admin PATCH may set
    NoDay, NoDriver,  \* null foreign keys
    FormStatus,       \* the assignment statuses the assignment form submits
    MaxPending,       \* bound on unlocked driver requests in flight
    VariableConflict  \* plpgsql.variable_conflict of the PostgreSQL server

DayStatus == {"planned", "ready", "running", "on_break", "completed",
              "issue_reported", "cancelled"}
AssignmentStatus == {"not_assigned", "assigned", "needs_review",
                     "ready_for_execution", "cancelled"}
Closed == {"closed", "closed_with_issues"}
LiveSession == {"running", "paused", "permission_missing"}
RequestKind == {"start", "deny", "upload"}   \* the driver RPCs outside the lock

ASSUME ModesAssumption == Modes # {} /\ Modes \subseteq {"driver_app", "admin_managed"}
ASSUME DateAssumption == Date \subseteq Int /\ Date # {}
ASSUME NullAssumption == NoDay \notin Day /\ NoDriver \notin Driver
ASSUME FormAssumption == FormStatus \subseteq AssignmentStatus
ASSUME PendingAssumption == MaxPending \in Nat
ASSUME ConflictAssumption == VariableConflict \in {"error", "use_column"}

VARIABLES
    mode,           \* ad_works.execution_mode
    proofRequired,  \* ad_works.mobile_location_proof_required
    work,           \* the lifecycle columns of the ad_works row
    assignment,     \* the ad_work_assignments row, driver NoDriver if absent
    exec,           \* ad_work_days.execution_status of each day
    date,           \* ad_work_days.work_date of each day
    started,        \* days whose execution_started_at is not null
    ended,          \* days whose execution_completed_at is not null
    observed,       \* days with location points, proof uploads or proof notes
    sessions,       \* the tracking_sessions rows of phone tracking
    summary,        \* final_proof_summaries.closure_status, "none" if absent
    pending         \* unlocked driver requests that passed their first reads

dayVars == <<exec, date, started, ended, observed>>
vars == <<mode, proofRequired, work, assignment, dayVars, sessions, summary, pending>>

Work == [planning   : {"planned", "cancelled"},
         assignment : AssignmentStatus,
         release    : {"not_released", "released_to_driver", "access_revoked"},
         code       : BOOLEAN,
         overall    : {"not_started", "running", "on_break", "completed",
                       "issue_reported", "cancelled"},
         closure    : {"not_ready", "ready_for_review", "ready_to_close",
                       "cancelled"} \cup Closed]

\* sawNone: the request found no live session before another one was inserted.
Request == [op : RequestKind, driver : Driver, day : Day, sawNone : BOOLEAN]

TypeOK ==
    /\ mode \in Modes
    /\ proofRequired \in BOOLEAN
    /\ work \in Work
    /\ assignment \in [driver : Driver \cup {NoDriver}, status : AssignmentStatus]
    /\ exec \in [Day -> DayStatus]
    /\ date \in [Day -> Date]
    /\ started \subseteq Day /\ ended \subseteq Day /\ observed \subseteq Day
    /\ sessions \in [Session -> [status : LiveSession \cup {"unused", "stopped"},
                                 day    : Day \cup {NoDay},
                                 driver : Driver \cup {NoDriver}]]
    /\ \A s \in Session : sessions[s].status # "unused" => sessions[s].day \in Day
    /\ summary \in {"none", "not_ready", "ready_for_review", "ready_to_close",
                    "cancelled"} \cup Closed
    /\ pending \subseteq Request

\* The Ad Work right after its schedule was saved: nothing assigned yet.
Init ==
    /\ mode \in Modes
    /\ proofRequired \in BOOLEAN
    /\ work = [planning |-> "planned", assignment |-> "not_assigned",
               release |-> "not_released", code |-> FALSE,
               overall |-> "not_started", closure |-> "not_ready"]
    /\ assignment = [driver |-> NoDriver, status |-> "not_assigned"]
    /\ exec = [d \in Day |-> "planned"]
    /\ date \in [Day -> Date]
    /\ \A d, e \in Day : d # e => date[d] # date[e]
    /\ started = {} /\ ended = {} /\ observed = {}
    /\ sessions = [s \in Session |->
                     [status |-> "unused", day |-> NoDay, driver |-> NoDriver]]
    /\ summary = "none"
    /\ pending = {}

--------------------------------------------------------------------------------
\* Triggers.

\* What m28_guard_schedule_write_v1 and its siblings call a cancelled parent.
ParentCancelled ==
    work.planning = "cancelled" \/ work.overall = "cancelled" \/ work.closure = "cancelled"

\* m28_guard_day_schedule_write_v1 and m28_guard_schedule_write_v1 reject a write
\* of execution or lifecycle columns under a cancelled parent.
\* Mutant of GuardWrite: the guard triggers are missing.
NoGuardWrite == TRUE

GuardWrite == ~ParentCancelled

StopLive(ss) ==
    [s \in Session |-> IF ss[s].status \in LiveSession
                       THEN [ss[s] EXCEPT !.status = "stopped"] ELSE ss[s]]

\* m9_stop_tracking_for_ad_work_lock, after an update of the release, overall
\* or closure column to the row w.
AfterWorkUpdate(w, ss) ==
    IF \/ w.release = "access_revoked"
       \/ w.closure \in Closed \cup {"cancelled"}
       \/ w.overall \in {"completed", "cancelled"}
    THEN StopLive(ss) ELSE ss

\* m9_stop_tracking_for_day_status, after day d goes to execution status st.
AfterDayUpdate(d, st, ss) ==
    [s \in Session |->
       IF ss[s].day # d \/ exec[d] = st THEN ss[s]
       ELSE IF st = "on_break" /\ ss[s].status = "running"
            THEN [ss[s] EXCEPT !.status = "paused"]
       ELSE IF /\ st \in {"completed", "cancelled", "issue_reported"}
               /\ ss[s].status \in LiveSession
            THEN [ss[s] EXCEPT !.status = "stopped"]
       ELSE ss[s]]

--------------------------------------------------------------------------------
\* Admin: planning, assignment and release.

\* updateAdminAdWork: the admin form PATCHes execution_mode at any time.
PatchExecutionMode ==
    /\ mode' \in Modes \ {mode}
    /\ UNCHANGED <<proofRequired, work, assignment, dayVars, sessions, summary, pending>>

SetMobileLocationProof ==
    /\ proofRequired' = ~proofRequired
    /\ UNCHANGED <<mode, work, assignment, dayVars, sessions, summary, pending>>

\* The assignment row and its mirror on ad_works, written by both assignment RPCs.
WriteAssignment(drv, status) ==
    /\ GuardWrite
    /\ assignment' = [driver |-> drv, status |-> status]
    /\ work' = [work EXCEPT !.assignment = status]
    /\ UNCHANGED <<mode, proofRequired, dayVars, sessions, summary, pending>>

SaveAssignment(drv) == WriteAssignment(drv, "ready_for_execution")

AssignDriverVehicle(drv, status) == WriteAssignment(drv, status)

\* Mutant of RevokeAccess: the Work Code hash is left in place.
RevokeAccessKeepingCode ==
    /\ mode = "driver_app"
    /\ work' = [work EXCEPT !.release = "access_revoked"]
    /\ sessions' = AfterWorkUpdate(work', sessions)
    /\ UNCHANGED <<mode, proofRequired, assignment, dayVars, summary, pending>>

RevokeAccess ==
    /\ mode = "driver_app"
    /\ work' = [work EXCEPT !.release = "access_revoked", !.code = FALSE]
    /\ sessions' = AfterWorkUpdate(work', sessions)
    /\ UNCHANGED <<mode, proofRequired, assignment, dayVars, summary, pending>>

ReleaseToDriver ==
    /\ mode = "driver_app"
    /\ GuardWrite
    /\ assignment.status = "ready_for_execution"
    /\ work' = [work EXCEPT !.release = "released_to_driver", !.code = TRUE,
                            !.overall = "not_started"]
    /\ exec' = [d \in Day |-> IF exec[d] = "planned" THEN "ready" ELSE exec[d]]
    /\ sessions' = AfterWorkUpdate(work', sessions)
    /\ UNCHANGED <<mode, proofRequired, assignment, date, started, ended, observed,
                   summary, pending>>

--------------------------------------------------------------------------------
\* Execution by the driver: driver_update_work_day.

\* The join on Work Code and mobile number; the status of the assignment row
\* is not part of it.
DriverAuthorised(drv) ==
    /\ work.release = "released_to_driver" /\ work.code
    /\ assignment.driver = drv

\* Mutant of OthersCompleted: a day with an issue counts as finished.
OthersFinished(d) == \A e \in Day \ {d} : exec[e] \in {"completed", "issue_reported"}

OthersCompleted(d) == \A e \in Day \ {d} : exec[e] = "completed"

\* One action of the RPC: day d goes to st and the Ad Work to overall.
MoveDay(d, st, overall) ==
    /\ GuardWrite
    /\ exec' = [exec EXCEPT ![d] = st]
    /\ work' = [work EXCEPT !.overall = overall]
    /\ sessions' = AfterWorkUpdate(work', AfterDayUpdate(d, st, sessions))
    /\ UNCHANGED <<mode, proofRequired, assignment, date, summary, pending>>

DriverStart(drv, d) ==
    /\ DriverAuthorised(drv)
    /\ exec[d] \in {"planned", "ready"}
    /\ MoveDay(d, "running", "running")
    /\ started' = started \cup {d}
    /\ UNCHANGED <<ended, observed>>

DriverTakeBreak(drv, d) ==
    /\ DriverAuthorised(drv)
    /\ exec[d] = "running"
    /\ MoveDay(d, "on_break", "on_break")
    /\ UNCHANGED <<started, ended, observed>>

DriverResume(drv, d) ==
    /\ DriverAuthorised(drv)
    /\ exec[d] = "on_break"
    /\ MoveDay(d, "running", "running")
    /\ UNCHANGED <<started, ended, observed>>

\* Only the last day to complete writes the Ad Work row.
DriverEnd(drv, d) ==
    /\ DriverAuthorised(drv)
    /\ exec[d] \in {"running", "on_break"}
    /\ IF OthersCompleted(d)
       THEN MoveDay(d, "completed", "completed")
       ELSE /\ GuardWrite
            /\ exec' = [exec EXCEPT ![d] = "completed"]
            /\ sessions' = AfterDayUpdate(d, "completed", sessions)
            /\ UNCHANGED <<mode, proofRequired, work, assignment, date, summary, pending>>
    /\ ended' = ended \cup {d}
    /\ UNCHANGED <<started, observed>>

\* No guard on the day: an issue is accepted on a completed day too.
DriverIssue(drv, d) ==
    /\ DriverAuthorised(drv)
    /\ MoveDay(d, "issue_reported", "issue_reported")
    /\ observed' = observed \cup {d}
    /\ UNCHANGED <<started, ended>>

DriverAddProofNote(drv, d) ==
    /\ DriverAuthorised(drv)
    /\ observed' = observed \cup {d}
    /\ UNCHANGED <<mode, proofRequired, work, assignment, exec, date, started, ended,
                   sessions, summary, pending>>

--------------------------------------------------------------------------------
\* Execution by the admin team: admin_update_ad_work_day, without a status guard.

AdminStartDay(d) ==
    /\ mode = "admin_managed"
    /\ MoveDay(d, "running", "running")
    /\ started' = started \cup {d}
    /\ UNCHANGED <<ended, observed>>

AdminCompleteDay(d) ==
    /\ mode = "admin_managed"
    /\ MoveDay(d, "completed", IF OthersCompleted(d) THEN "completed" ELSE "running")
    /\ ended' = ended \cup {d}
    /\ UNCHANGED <<started, observed>>

\* The ad_works row is left alone.
AdminReportIssue(d) ==
    /\ mode = "admin_managed" /\ GuardWrite
    /\ exec' = [exec EXCEPT ![d] = "issue_reported"]
    /\ sessions' = AfterDayUpdate(d, "issue_reported", sessions)
    /\ UNCHANGED <<mode, proofRequired, work, assignment, date, started, ended,
                   observed, summary, pending>>

\* request_admin_proof_upload: the proof_uploads row is the evidence.
AdminRequestProofUpload(d) ==
    /\ mode = "admin_managed"
    /\ exec[d] \in {"running", "on_break"}
    /\ observed' = observed \cup {d}
    /\ UNCHANGED <<mode, proofRequired, work, assignment, exec, date, started, ended,
                   sessions, summary, pending>>

--------------------------------------------------------------------------------
\* Driver requests outside the global lock.

\* The authority a request reads from ad_works and ad_work_assignments.
RequestAuthority(drv) ==
    DriverAuthorised(drv) /\ assignment.status = "ready_for_execution"

LiveOf(drv, d) == {s \in Session : /\ sessions[s].status \in LiveSession
                                   /\ sessions[s].day = d /\ sessions[s].driver = drv}

SawNone(op, drv, d) == op = "deny" /\ LiveOf(drv, d) = {}

\* The first reads of a request, checked on what they returned.
BeginRequest(op, drv, d) ==
    /\ Cardinality(pending) < MaxPending
    /\ RequestAuthority(drv)
    /\ op \in {"start", "deny"} => proofRequired
    /\ op = "start" => /\ work.closure \notin Closed \cup {"cancelled"}
                       /\ work.overall \notin {"completed", "cancelled"}
    /\ op = "deny" => exec[d] = "running"
    /\ pending' = pending \cup {[op |-> op, driver |-> drv, day |-> d,
                                 sawNone |-> SawNone(op, drv, d)]}
    /\ UNCHANGED <<mode, proofRequired, work, assignment, dayVars, sessions, summary>>

\* A request whose locked re-read fails raises and rolls back.
AbortRequest(r) ==
    /\ r.op = "start" => exec[r.day] # "running"
    /\ r.op = "upload" => exec[r.day] \notin {"running", "on_break"}
    /\ r.op # "deny"
    /\ pending' = pending \ {r}
    /\ UNCHANGED <<mode, proofRequired, work, assignment, dayVars, sessions, summary>>

WriteSession(s, r, status) ==
    sessions' = [sessions EXCEPT
                   ![s] = [status |-> status, day |-> r.day, driver |-> r.driver]]

InsertSession(r, status) ==
    \E s \in Session : sessions[s].status = "unused" /\ WriteSession(s, r, status)

\* The live session of this day and driver is reused, else a row is inserted.
UpsertSession(r, status) ==
    LET live == LiveOf(r.driver, r.day)
    IN  IF live # {} THEN \E s \in live : WriteSession(s, r, status)
        ELSE InsertSession(r, status)

\* Mutant of FinishStart: the day is not read again under its lock.
FinishStartUnlocked(r) ==
    /\ r.op = "start"
    /\ UpsertSession(r, "running")
    /\ pending' = pending \ {r}
    /\ UNCHANGED <<mode, proofRequired, work, assignment, dayVars, summary>>

\* driver_start_mobile_tracking from the FOR UPDATE read of the day onwards:
\* the day is current, the Ad Work is what BeginRequest read.
FinishStart(r) ==
    /\ r.op = "start"
    /\ exec[r.day] = "running"
    /\ UpsertSession(r, "running")
    /\ pending' = pending \ {r}
    /\ UNCHANGED <<mode, proofRequired, work, assignment, dayVars, summary>>

\* driver_mark_mobile_location_permission_missing: not even the day is locked,
\* so a session inserted since its read does not keep it from inserting another.
FinishDeny(r) ==
    /\ r.op = "deny"
    /\ \/ UpsertSession(r, "permission_missing")
       \/ r.sawNone /\ InsertSession(r, "permission_missing")
    /\ pending' = pending \ {r}
    /\ UNCHANGED <<mode, proofRequired, work, assignment, dayVars, summary>>

\* request_driver_proof_upload inserts the slot under the lock of the day.
FinishUpload(r) ==
    /\ r.op = "upload"
    /\ exec[r.day] \in {"running", "on_break"}
    /\ observed' = observed \cup {r.day}
    /\ pending' = pending \ {r}
    /\ UNCHANGED <<mode, proofRequired, work, assignment, exec, date, started, ended,
                   sessions, summary>>

--------------------------------------------------------------------------------
\* Tracking sessions: location points and the two ways to stop.

\* What record_point and sync both require of the Ad Work and the session.
PointAuthority(s) ==
    /\ sessions[s].status # "unused"
    /\ work.release = "released_to_driver"
    /\ assignment.status = "ready_for_execution"
    /\ proofRequired

StorePoint(s) ==
    /\ observed' = observed \cup {sessions[s].day}
    /\ UNCHANGED <<mode, proofRequired, work, assignment, exec, date, started, ended,
                   sessions, summary, pending>>

RecordLocationPoint(s) ==
    /\ PointAuthority(s)
    /\ sessions[s].status = "running" /\ exec[sessions[s].day] = "running"
    /\ work.closure \notin Closed \cup {"cancelled"}
    /\ StorePoint(s)

\* Buffered points of a running or a finished day.
SyncLocationPoints(s) ==
    /\ PointAuthority(s)
    /\ work.overall # "cancelled" /\ work.closure # "cancelled"
    /\ LET d == sessions[s].day IN
         \/ exec[d] = "running" /\ sessions[s].status = "running"
         \/ exec[d] \in {"completed", "issue_reported"} /\ d \in ended
    /\ StorePoint(s)

\* driver_stop_mobile_tracking guards neither the session status nor a null
\* Work Code hash (NULL <> x is not true, so the check does not raise).
DriverStopTracking(s, status) ==
    /\ sessions[s].status # "unused"
    /\ sessions' = [sessions EXCEPT ![s].status = status]
    /\ UNCHANGED <<mode, proofRequired, work, assignment, dayVars, summary, pending>>

\* admin_stop_mobile_tracking names the column `status`, which is also one of
\* its output parameters: PostgreSQL raises 42702 unless the server resolves
\* such names to columns.
AdminStopTracking(s) ==
    /\ VariableConflict = "use_column"
    /\ sessions[s].status \in LiveSession
    /\ sessions' = [sessions EXCEPT ![s].status = "stopped"]
    /\ UNCHANGED <<mode, proofRequired, work, assignment, dayVars, summary, pending>>

--------------------------------------------------------------------------------
\* Reschedule and cancellation (M28).

\* Mutant of Unobserved: only the execution columns are looked at.
Unexecuted(d) ==
    /\ d \notin started \cup ended
    /\ exec[d] \notin {"running", "on_break", "completed", "issue_reported"}

\* m28_assert_day_unobserved_v1.
Unobserved(d) ==
    /\ d \notin started \cup ended \cup observed
    /\ exec[d] \notin {"running", "on_break", "completed", "issue_reported"}

\* Mutant of Downgraded: a release status is written to the assignment columns.
DowngradedToUnreleased(status) ==
    IF status = "ready_for_execution" THEN "not_released" ELSE status

Downgraded(status) ==
    IF status = "ready_for_execution" THEN "needs_review" ELSE status

\* Mutant of InvalidateAuthority: the release survives a reschedule.
InvalidateAssignmentOnly ==
    /\ assignment' = [assignment EXCEPT !.status = Downgraded(@)]
    /\ work' = [work EXCEPT !.assignment = Downgraded(@)]
    /\ sessions' = [s \in Session |-> IF sessions[s].status \in {"running", "paused"}
                                      THEN [sessions[s] EXCEPT !.status = "stopped"]
                                      ELSE sessions[s]]

\* m28_invalidate_execution_authority_v1 without its day rows.
InvalidateAuthority ==
    /\ assignment' = [assignment EXCEPT !.status = Downgraded(@)]
    /\ work' = [work EXCEPT
                  !.assignment = Downgraded(@), !.code = FALSE,
                  !.release = IF @ = "released_to_driver" THEN "access_revoked" ELSE @]
    /\ sessions' = AfterWorkUpdate(work',
          [s \in Session |-> IF sessions[s].status \in {"running", "paused"}
                             THEN [sessions[s] EXCEPT !.status = "stopped"]
                             ELSE sessions[s]])

RescheduleAdWork(delta) ==
    /\ work.planning # "cancelled"
    /\ work.closure \notin Closed \cup {"cancelled"}
    /\ work.overall \notin {"running", "on_break", "completed", "issue_reported", "cancelled"}
    /\ delta # 0
    /\ \A d \in Day : Unobserved(d) /\ date[d] + delta \in Date
    /\ InvalidateAuthority
    /\ date' = [d \in Day |-> date[d] + delta]
    /\ exec' = [d \in Day |-> "planned"]
    /\ UNCHANGED <<mode, proofRequired, started, ended, observed, summary, pending>>

RescheduleDay(d, newDate) ==
    /\ work.planning # "cancelled"
    /\ work.closure \notin Closed \cup {"cancelled"}
    /\ exec[d] \in {"planned", "ready"}
    /\ \A e \in Day : date[e] # newDate
    /\ \A e \in Day \ {d} : exec[e] \notin {"running", "on_break"}
    /\ \A s \in Session : sessions[s].status \in {"running", "paused"} => sessions[s].day = d
    /\ Unobserved(d)
    /\ InvalidateAuthority
    /\ date' = [date EXCEPT ![d] = newDate]
    /\ exec' = [e \in Day |-> IF exec[e] = "ready" THEN "planned" ELSE exec[e]]
    /\ UNCHANGED <<mode, proofRequired, started, ended, observed, summary, pending>>

\* Mutant of CancelAdWork: the summary row and the running sessions are forgotten.
CancelAdWorkRowsOnly ==
    /\ work.planning # "cancelled"
    /\ work.closure \notin Closed
    /\ work.overall # "completed"
    /\ work' = [planning |-> "cancelled", assignment |-> "cancelled",
                release |-> "access_revoked", code |-> FALSE,
                overall |-> "cancelled", closure |-> "cancelled"]
    /\ assignment' = IF assignment.driver = NoDriver THEN assignment
                     ELSE [assignment EXCEPT !.status = "cancelled"]
    /\ exec' = [d \in Day |-> IF exec[d] = "completed" THEN "completed" ELSE "cancelled"]
    /\ UNCHANGED <<mode, proofRequired, date, started, ended, observed, sessions,
                   summary, pending>>

CancelAdWork ==
    /\ work.planning # "cancelled"
    /\ work.closure \notin Closed
    /\ work.overall # "completed"
    /\ work' = [planning |-> "cancelled", assignment |-> "cancelled",
                release |-> "access_revoked", code |-> FALSE,
                overall |-> "cancelled", closure |-> "cancelled"]
    /\ assignment' = IF assignment.driver = NoDriver THEN assignment
                     ELSE [assignment EXCEPT !.status = "cancelled"]
    /\ exec' = [d \in Day |-> IF exec[d] = "completed" THEN "completed" ELSE "cancelled"]
    /\ sessions' = StopLive(sessions)
    /\ summary' = IF summary \in Closed \cup {"none"} THEN summary ELSE "cancelled"
    /\ UNCHANGED <<mode, proofRequired, date, started, ended, observed, pending>>

--------------------------------------------------------------------------------
\* Final proof summary and closure.

AllCompleted == \A d \in Day : exec[d] = "completed"

\* prepare_final_proof_summary names ad_work_id, a column and an output
\* parameter, so it too runs only on a server that resolves to the column.
SummaryRuns == VariableConflict = "use_column" /\ GuardWrite

\* `clean` stands for the checks on proofs, updates and location review.
PreparedStatus(reviewed, clean) ==
    IF mode = "admin_managed"
    THEN IF reviewed THEN "ready_to_close" ELSE "ready_for_review"
    ELSE IF assignment.status # "ready_for_execution" \/ work.release # "released_to_driver"
    THEN "not_ready"
    ELSE IF reviewed /\ clean /\ AllCompleted THEN "ready_to_close" ELSE "ready_for_review"

SetClosure(status) ==
    /\ work' = [work EXCEPT !.closure = status]
    /\ summary' = status
    /\ sessions' = AfterWorkUpdate(work', sessions)
    /\ UNCHANGED <<mode, proofRequired, assignment, dayVars, pending>>

PrepareSummary(reviewed, clean) ==
    SummaryRuns /\ SetClosure(PreparedStatus(reviewed, clean))

\* "closed" needs an empty warning list, which always names an unassigned or
\* unreleased Ad Work and an incomplete day, in either mode.
CloseAdWork(status) ==
    /\ SummaryRuns
    /\ mode = "driver_app" => /\ work.release = "released_to_driver"
                              /\ assignment.status = "ready_for_execution"
    /\ status = "closed" => /\ work.release = "released_to_driver"
                            /\ assignment.status = "ready_for_execution"
                            /\ AllCompleted
    /\ SetClosure(status)

--------------------------------------------------------------------------------
AdminPlanning ==
    \/ PatchExecutionMode \/ SetMobileLocationProof \/ RevokeAccess \/ ReleaseToDriver
    \/ \E drv \in Driver : SaveAssignment(drv)
    \/ \E drv \in Driver, st \in FormStatus : AssignDriverVehicle(drv, st)

DriverExecution ==
    \E drv \in Driver, d \in Day :
       \/ DriverStart(drv, d) \/ DriverTakeBreak(drv, d) \/ DriverResume(drv, d)
       \/ DriverEnd(drv, d) \/ DriverIssue(drv, d) \/ DriverAddProofNote(drv, d)

AdminExecution ==
    \E d \in Day : \/ AdminStartDay(d) \/ AdminCompleteDay(d) \/ AdminReportIssue(d)
                   \/ AdminRequestProofUpload(d)

UnlockedRequests ==
    \/ \E op \in RequestKind, drv \in Driver, d \in Day : BeginRequest(op, drv, d)
    \/ \E r \in pending : AbortRequest(r) \/ FinishStart(r) \/ FinishDeny(r) \/ FinishUpload(r)

Tracking ==
    \E s \in Session :
       \/ RecordLocationPoint(s) \/ SyncLocationPoints(s) \/ AdminStopTracking(s)
       \/ DriverStopTracking(s, "paused") \/ DriverStopTracking(s, "stopped")

Schedule ==
    \/ \E x, y \in Date : RescheduleAdWork(x - y)
    \/ \E d \in Day, newDate \in Date : RescheduleDay(d, newDate)
    \/ CancelAdWork

Closure ==
    \/ \E reviewed, clean \in BOOLEAN : PrepareSummary(reviewed, clean)
    \/ \E status \in Closed : CloseAdWork(status)

Next == \/ AdminPlanning \/ DriverExecution \/ AdminExecution \/ UnlockedRequests
        \/ Tracking \/ Schedule \/ Closure

Spec == Init /\ [][Next]_vars

\* The admin who can close the Ad Work sooner or later does.
FairSpec == Spec /\ WF_vars(\E status \in Closed : CloseAdWork(status))

--------------------------------------------------------------------------------
\* Properties.

\* A Work Code is stored exactly while the Ad Work is released: no path of
\* assignment, release, reschedule or cancellation leaves a usable code behind
\* or releases without one.
CodeMatchesRelease == work.code <=> work.release = "released_to_driver"

\* admin_cancel_ad_work_v1 ends everything at once and for good, whatever older
\* function, trigger or driver request runs later: no release, no code, no
\* assignment ready, no live day, and every cancellation marker agrees.
CancelledWorkIsInert ==
    ParentCancelled =>
       /\ work = [planning |-> "cancelled", assignment |-> "cancelled",
                  release |-> "access_revoked", code |-> FALSE,
                  overall |-> "cancelled", closure |-> "cancelled"]
       /\ assignment.driver # NoDriver => assignment.status = "cancelled"
       /\ \A d \in Day : exec[d] \in {"completed", "cancelled"}
       /\ summary \in {"none", "cancelled"}

\* A phone session runs only while its work day runs, although the RPC that
\* starts it, the two triggers and the admin's own day updates are separate
\* transactions.
RunningSessionOnRunningDay ==
    \A s \in Session : sessions[s].status = "running" =>
       sessions[s].day \in Day /\ exec[sessions[s].day] = "running"

\* The final summary and the Ad Work never disagree on the closure status.
SummaryAgrees == summary # "none" => summary = work.closure

\* In driver_app mode an Ad Work is marked completed only with all its days.
CompletedMeansAllDays == work.overall = "completed" => \A d \in Day : exec[d] = "completed"

\* Once cancelled, no later step changes the lifecycle, a day or the summary.
CancelledIsFrozen ==
    [][ParentCancelled => UNCHANGED <<work, assignment, dayVars, summary>>]_vars

\* A day that was started, ended or has points, proofs or notes keeps its date:
\* evidence is never moved to another date by a reschedule.
EvidenceKeepsItsDate ==
    [][\A d \in started \cup ended \cup observed : date'[d] = date[d]]_vars

\* A reschedule leaves nobody with authority over the new dates: the work must
\* be assigned and released again, and no phone session survives it.
RescheduleRevokesAuthority ==
    [][date' # date =>
         /\ work'.release # "released_to_driver" /\ ~work'.code
         /\ assignment'.status # "ready_for_execution"
         /\ \A s \in Session : sessions'[s].status # "running"]_vars

\* The phone sessions and the release columns implement WorkAccess.
Access ==
    IF work.planning = "cancelled" THEN "ended"
    ELSE IF work.release = "released_to_driver" THEN "granted"
    ELSE IF work.release = "access_revoked" THEN "withdrawn"
    ELSE "none"

RunningSessions == {s \in Session : sessions[s].status = "running"}

Contract == INSTANCE WorkAccess WITH access <- Access, running <- RunningSessions

\* Every step of the detailed specification is a step of WorkAccess or a stutter.
ImplementsWorkAccess == Contract!AccessSpec

--------------------------------------------------------------------------------
\* What documents say and the code does not do (checked as violations).

\* m13-driver-consent-text.md: a revoked Work Code or closure stops Phone
\* Location Proof.
NoTrackingWithoutAccess ==
    \A s \in Session : sessions[s].status = "running" =>
       work.release = "released_to_driver" /\ work.closure \notin Closed

\* m28-commercial-schedule.md: cancellation is for non-completed work.
CancelSparesCompletedWork == [][AllCompleted /\ ~ParentCancelled => ~ParentCancelled']_vars

\* m13-pilot-smoke-test-checklist.md: the admin can close an Ad Work.
Closable ==
    /\ ~ParentCancelled
    /\ mode = "driver_app" /\ work.release = "released_to_driver"
    /\ assignment.status = "ready_for_execution"

ClosableWorkIsClosed == <>[]Closable => <>(work.closure \in Closed)
================================================================================
