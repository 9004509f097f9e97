------------------------ MODULE AdWorkLifecycleProofs ------------------------
(***************************************************************************)
(* Theorems about AdWorkLifecycle, for every value of its constants.       *)
(***************************************************************************)
EXTENDS AdWorkLifecycle, TLAPS

--------------------------------------------------------------------------------
\* Sessions: what the triggers return.

SessionRow == [status : LiveSession \cup {"unused", "stopped"},
               day    : Day \cup {NoDay},
               driver : Driver \cup {NoDriver}]

SessionTable ==
    {ss \in [Session -> SessionRow] :
       \A s \in Session : ss[s].status # "unused" => ss[s].day \in Day}

\* The triggers and the stop of a reschedule return session tables.
LEMMA TriggerTypes ==
    ASSUME NEW ss \in SessionTable
    PROVE  /\ StopLive(ss) \in SessionTable
           /\ \A w : AfterWorkUpdate(w, ss) \in SessionTable
           /\ \A d, st : AfterDayUpdate(d, st, ss) \in SessionTable
BY DEF StopLive, AfterWorkUpdate, AfterDayUpdate, SessionTable, SessionRow, LiveSession

\* A trigger never makes a session run, and the trigger of the Ad Work stops
\* them all once the work is revoked, closed, completed or cancelled.
LEMMA TriggersOnlyStop ==
    ASSUME NEW ss \in SessionTable, NEW s \in Session
    PROVE  /\ StopLive(ss)[s].status # "running"
           /\ \A w : /\ AfterWorkUpdate(w, ss)[s].status = "running" =>
                          AfterWorkUpdate(w, ss)[s] = ss[s]
                     /\ w.release = "access_revoked" =>
                          AfterWorkUpdate(w, ss)[s].status # "running"
           /\ \A d, st : AfterDayUpdate(d, st, ss)[s].status = "running" =>
                 /\ AfterDayUpdate(d, st, ss)[s] = ss[s]
                 /\ \/ ss[s].day # d
                    \/ st \notin {"on_break", "completed", "cancelled", "issue_reported"}
                    \/ exec[d] = st
BY DEF StopLive, AfterWorkUpdate, AfterDayUpdate, SessionRow, LiveSession

--------------------------------------------------------------------------------
\* Type correctness.

LEMMA InitTyped == Init => TypeOK
BY NullAssumption DEF Init, TypeOK, Work, AssignmentStatus, DayStatus, LiveSession, Closed

LEMMA TableTyped == TypeOK => sessions \in SessionTable
BY DEF TypeOK, SessionTable, SessionRow

LEMMA PlanningTyped == TypeOK /\ AdminPlanning => TypeOK'
<1> SUFFICES ASSUME TypeOK, AdminPlanning PROVE TypeOK'
    OBVIOUS
<1> USE DEF TypeOK, dayVars
<1>1. CASE PatchExecutionMode
    BY <1>1 DEF PatchExecutionMode
<1>2. CASE SetMobileLocationProof
    BY <1>2 DEF SetMobileLocationProof
<1>3. CASE RevokeAccess
    BY <1>3, TriggerTypes DEF RevokeAccess, Work, SessionTable, SessionRow
<1>4. CASE ReleaseToDriver
    BY <1>4, TriggerTypes DEF ReleaseToDriver, Work, SessionTable, SessionRow, DayStatus
<1>5. ASSUME NEW drv \in Driver, NEW st \in AssignmentStatus, WriteAssignment(drv, st)
      PROVE  TypeOK'
    BY <1>5 DEF WriteAssignment, Work
<1> QED
    BY <1>1, <1>2, <1>3, <1>4, <1>5, FormAssumption
    DEF AdminPlanning, SaveAssignment, AssignDriverVehicle, AssignmentStatus

LEMMA MoveDayTyped ==
    ASSUME TypeOK, NEW d \in Day, NEW st \in DayStatus,
           NEW ov \in {"not_started", "running", "on_break", "completed", "issue_reported"},
           MoveDay(d, st, ov)
    PROVE  /\ work' \in Work /\ exec' \in [Day -> DayStatus]
           /\ sessions' \in SessionTable
           /\ UNCHANGED <<mode, proofRequired, assignment, date, summary, pending>>
BY TriggerTypes DEF TypeOK, MoveDay, Work, SessionTable, SessionRow

LEMMA DriverTyped == TypeOK /\ DriverExecution => TypeOK'
<1> SUFFICES ASSUME TypeOK, NEW drv \in Driver, NEW d \in Day,
                    \/ DriverStart(drv, d) \/ DriverTakeBreak(drv, d)
                    \/ DriverResume(drv, d) \/ DriverEnd(drv, d)
                    \/ DriverIssue(drv, d) \/ DriverAddProofNote(drv, d)
             PROVE  TypeOK'
    BY DEF DriverExecution
<1>1. CASE DriverStart(drv, d) \/ DriverTakeBreak(drv, d) \/ DriverResume(drv, d)
    BY <1>1, MoveDayTyped
    DEF TypeOK, DriverStart, DriverTakeBreak, DriverResume, DayStatus, SessionTable, SessionRow
<1>2. CASE DriverEnd(drv, d)
    <2>1. CASE OthersCompleted(d)
        BY <1>2, <2>1, MoveDayTyped DEF TypeOK, DriverEnd, DayStatus, SessionTable, SessionRow
    <2>2. CASE ~OthersCompleted(d)
        <3>1. sessions' \in SessionTable
            BY <1>2, <2>2, TableTyped, TriggerTypes DEF DriverEnd
        <3>2. exec' \in [Day -> DayStatus] /\ ended' \subseteq Day
            BY <1>2, <2>2 DEF TypeOK, DriverEnd, DayStatus
        <3> QED
            BY <1>2, <2>2, <3>1, <3>2 DEF TypeOK, DriverEnd, SessionTable, SessionRow
    <2> QED
        BY <2>1, <2>2
<1>3. CASE DriverIssue(drv, d)
    BY <1>3, MoveDayTyped DEF TypeOK, DriverIssue, DayStatus, SessionTable, SessionRow
<1>4. CASE DriverAddProofNote(drv, d)
    BY <1>4 DEF TypeOK, DriverAddProofNote
<1> QED
    BY <1>1, <1>2, <1>3, <1>4

LEMMA AdminTyped == TypeOK /\ AdminExecution => TypeOK'
<1> SUFFICES ASSUME TypeOK, NEW d \in Day,
                    \/ AdminStartDay(d) \/ AdminCompleteDay(d) \/ AdminReportIssue(d)
                    \/ AdminRequestProofUpload(d)
             PROVE  TypeOK'
    BY DEF AdminExecution
<1>1. CASE AdminStartDay(d)
    BY <1>1, MoveDayTyped DEF TypeOK, AdminStartDay, DayStatus, SessionTable, SessionRow
<1>2. CASE AdminCompleteDay(d)
    BY <1>2, MoveDayTyped DEF TypeOK, AdminCompleteDay, DayStatus, SessionTable, SessionRow
<1>3. CASE AdminReportIssue(d)
    BY <1>3, TriggerTypes DEF TypeOK, AdminReportIssue, DayStatus, SessionTable, SessionRow
<1>4. CASE AdminRequestProofUpload(d)
    BY <1>4 DEF TypeOK, AdminRequestProofUpload
<1> QED
    BY <1>1, <1>2, <1>3, <1>4

\* Both RPCs that write a session write one row of the table.
LEMMA WriteSessionTyped ==
    ASSUME TypeOK, NEW r \in Request, NEW st \in LiveSession,
           UpsertSession(r, st) \/ InsertSession(r, st)
    PROVE  sessions' \in SessionTable
<1>1. \E s \in Session : WriteSession(s, r, st)
    BY DEF UpsertSession, InsertSession, LiveOf
<1> QED
    BY <1>1 DEF TypeOK, WriteSession, Request, SessionTable, SessionRow

LEMMA RequestsTyped == TypeOK /\ UnlockedRequests => TypeOK'
<1> SUFFICES ASSUME TypeOK, UnlockedRequests PROVE TypeOK'
    OBVIOUS
<1>1. ASSUME NEW op \in RequestKind, NEW drv \in Driver, NEW d \in Day,
             BeginRequest(op, drv, d)
      PROVE  TypeOK'
    <2>1. SawNone(op, drv, d) \in BOOLEAN
        BY ZenonT(20) DEF SawNone
    <2>2. pending' \subseteq Request
        BY <1>1, <2>1 DEF TypeOK, BeginRequest, Request
    <2> QED
        BY <1>1, <2>2 DEF TypeOK, BeginRequest, dayVars
<1>2. ASSUME NEW r \in pending, AbortRequest(r)
      PROVE  TypeOK'
    BY <1>2 DEF TypeOK, AbortRequest, dayVars
<1>3. ASSUME NEW r \in pending, FinishStart(r) \/ FinishDeny(r)
      PROVE  TypeOK'
    <2>1. r \in Request
        BY DEF TypeOK
    <2>2. sessions' \in SessionTable
        BY <1>3, <2>1, WriteSessionTyped DEF FinishStart, FinishDeny, LiveSession
    <2> QED
        BY <1>3, <2>2 DEF TypeOK, FinishStart, FinishDeny, dayVars, SessionTable, SessionRow
<1>4. ASSUME NEW r \in pending, FinishUpload(r)
      PROVE  TypeOK'
    BY <1>4 DEF TypeOK, FinishUpload, Request
<1> QED
    BY <1>1, <1>2, <1>3, <1>4 DEF UnlockedRequests

LEMMA TrackingTyped == TypeOK /\ Tracking => TypeOK'
<1> SUFFICES ASSUME TypeOK, NEW s \in Session,
                    \/ RecordLocationPoint(s) \/ SyncLocationPoints(s) \/ AdminStopTracking(s)
                    \/ DriverStopTracking(s, "paused") \/ DriverStopTracking(s, "stopped")
             PROVE  TypeOK'
    BY DEF Tracking
<1>1. CASE RecordLocationPoint(s) \/ SyncLocationPoints(s)
    <2>1. sessions[s].day \in Day
        BY <1>1 DEF TypeOK, RecordLocationPoint, SyncLocationPoints, PointAuthority
    <2> QED
        BY <1>1, <2>1 DEF TypeOK, RecordLocationPoint, SyncLocationPoints, StorePoint
<1>2. CASE AdminStopTracking(s) \/ DriverStopTracking(s, "paused") \/ DriverStopTracking(s, "stopped")
    BY <1>2 DEF TypeOK, AdminStopTracking, DriverStopTracking, LiveSession, dayVars
<1> QED
    BY <1>1, <1>2


LEMMA AuthorityTyped ==
    ASSUME TypeOK, InvalidateAuthority
    PROVE  /\ work' \in Work
           /\ assignment' \in [driver : Driver \cup {NoDriver}, status : AssignmentStatus]
           /\ sessions' \in SessionTable
<1> DEFINE kept == [s \in Session |-> IF sessions[s].status \in {"running", "paused"}
                                     THEN [sessions[s] EXCEPT !.status = "stopped"]
                                     ELSE sessions[s]]
<1>1. kept \in SessionTable
    BY DEF TypeOK, SessionTable, SessionRow
<1>2. sessions' = AfterWorkUpdate(work', kept)
    BY DEF InvalidateAuthority
<1>3. sessions' \in SessionTable
    BY <1>1, <1>2, TriggerTypes
<1>4. work' \in Work
    BY DEF TypeOK, InvalidateAuthority, Work, Downgraded, AssignmentStatus
<1>5. assignment' \in [driver : Driver \cup {NoDriver}, status : AssignmentStatus]
    BY DEF TypeOK, InvalidateAuthority, Downgraded, AssignmentStatus
<1> QED
    BY <1>3, <1>4, <1>5

LEMMA ScheduleTyped == TypeOK /\ Schedule => TypeOK'
<1> SUFFICES ASSUME TypeOK, Schedule PROVE TypeOK'
    OBVIOUS
<1>1. ASSUME NEW x \in Date, NEW y \in Date, RescheduleAdWork(x - y)
      PROVE  TypeOK'
    <2>1. date' \in [Day -> Date] /\ exec' \in [Day -> DayStatus]
        BY <1>1 DEF RescheduleAdWork, DayStatus
    <2> QED
        BY <1>1, <2>1, AuthorityTyped DEF TypeOK, RescheduleAdWork, SessionTable, SessionRow
<1>2. ASSUME NEW d \in Day, NEW newDate \in Date, RescheduleDay(d, newDate)
      PROVE  TypeOK'
    <2>1. date' \in [Day -> Date] /\ exec' \in [Day -> DayStatus]
        BY <1>2 DEF TypeOK, RescheduleDay, DayStatus
    <2> QED
        BY <1>2, <2>1, AuthorityTyped DEF TypeOK, RescheduleDay, SessionTable, SessionRow
<1>3. CASE CancelAdWork
    <2>1. sessions' \in SessionTable
        BY <1>3, TableTyped, TriggerTypes DEF CancelAdWork
    <2>2. exec' \in [Day -> DayStatus] /\ work' \in Work
        BY <1>3 DEF CancelAdWork, DayStatus, Work, AssignmentStatus, Closed
    <2>3. /\ assignment' \in [driver : Driver \cup {NoDriver}, status : AssignmentStatus]
          /\ summary' \in {"none", "not_ready", "ready_for_review", "ready_to_close",
                           "cancelled"} \cup Closed
        BY <1>3 DEF TypeOK, CancelAdWork, AssignmentStatus, Closed
    <2> QED
        BY <1>3, <2>1, <2>2, <2>3 DEF TypeOK, CancelAdWork, SessionTable, SessionRow
<1> QED
    BY <1>1, <1>2, <1>3 DEF Schedule

LEMMA ClosureTyped == TypeOK /\ Closure => TypeOK'
<1> SUFFICES ASSUME TypeOK,
                    NEW st \in {"not_ready", "ready_for_review", "ready_to_close"} \cup Closed,
                    SetClosure(st)
             PROVE  TypeOK'
    BY DEF Closure, PrepareSummary, PreparedStatus, CloseAdWork, Closed
<1>1. sessions' \in SessionTable
    BY TableTyped, TriggerTypes DEF SetClosure
<1>2. work' \in Work
    BY DEF TypeOK, SetClosure, Work, Closed
<1> QED
    BY <1>1, <1>2 DEF TypeOK, SetClosure, dayVars, SessionTable, SessionRow

LEMMA NextTyped == TypeOK /\ [Next]_vars => TypeOK'
<1>1. TypeOK /\ UNCHANGED vars => TypeOK'
    BY DEF TypeOK, vars, dayVars
<1> QED
    BY <1>1, PlanningTyped, DriverTyped, AdminTyped, RequestsTyped, TrackingTyped,
       ScheduleTyped, ClosureTyped DEF Next

\* Every reachable state has its types: no handler writes a status its column's
\* check constraint rejects, and a session that was used has its work day.
THEOREM TypeCorrect == Spec => []TypeOK
<1> QED
    BY InitTyped, NextTyped, PTL DEF Spec

--------------------------------------------------------------------------------
\* How a step may change the lifecycle columns.

\* Assignment, execution and closure: a live parent, planning and release kept,
\* no cancellation marker written.
LiveUpdate ==
    /\ ~ParentCancelled
    /\ work'.planning = work.planning
    /\ work'.release = work.release /\ work'.code = work.code
    /\ work'.overall # "cancelled" /\ work'.closure # "cancelled"

LEMMA WorkSteps ==
    TypeOK /\ [Next]_vars =>
       \/ work' = work
       \/ LiveUpdate
       \/ RevokeAccess \/ ReleaseToDriver \/ InvalidateAuthority \/ CancelAdWork
<1> SUFFICES ASSUME TypeOK, [Next]_vars
             PROVE  \/ work' = work
                    \/ LiveUpdate
                    \/ RevokeAccess \/ ReleaseToDriver \/ InvalidateAuthority \/ CancelAdWork
    OBVIOUS
<1>1. CASE UNCHANGED vars
    BY <1>1 DEF vars
<1>2. CASE AdminPlanning
    BY <1>2 DEF TypeOK, Work, AdminPlanning, PatchExecutionMode, SetMobileLocationProof, SaveAssignment,
       AssignDriverVehicle, WriteAssignment, GuardWrite, LiveUpdate, ParentCancelled
<1>3. ASSUME NEW d \in Day, NEW st \in DayStatus,
             NEW ov \in {"running", "on_break", "completed", "issue_reported"},
             MoveDay(d, st, ov)
      PROVE  LiveUpdate
    BY <1>3 DEF TypeOK, Work, MoveDay, GuardWrite, LiveUpdate, ParentCancelled
<1>4. CASE DriverExecution
    BY <1>3, <1>4 DEF DriverExecution, DriverStart, DriverTakeBreak, DriverResume, DriverEnd,
       DriverIssue, DriverAddProofNote, DayStatus
<1>5. CASE AdminExecution
    <2> SUFFICES ASSUME NEW d \in Day,
                        \/ AdminStartDay(d) \/ AdminCompleteDay(d) \/ AdminReportIssue(d)
                        \/ AdminRequestProofUpload(d)
                 PROVE  work' = work \/ LiveUpdate
        BY <1>5 DEF AdminExecution
    <2>1. CASE AdminStartDay(d)
        BY <1>3, <2>1 DEF AdminStartDay, DayStatus
    <2>2. CASE AdminCompleteDay(d)
        BY <1>3, <2>2 DEF AdminCompleteDay, DayStatus
    <2>3. CASE AdminReportIssue(d) \/ AdminRequestProofUpload(d)
        BY <2>3 DEF AdminReportIssue, AdminRequestProofUpload
    <2> QED
        BY <2>1, <2>2, <2>3
<1>6. CASE UnlockedRequests
    BY <1>6 DEF UnlockedRequests, BeginRequest, AbortRequest, FinishStart, FinishDeny, FinishUpload
<1>7. CASE Tracking
    BY <1>7 DEF Tracking, RecordLocationPoint, SyncLocationPoints, StorePoint,
       AdminStopTracking, DriverStopTracking
<1>8. CASE Schedule
    BY <1>8 DEF Schedule, RescheduleAdWork, RescheduleDay
<1>9. CASE Closure
    BY <1>9 DEF TypeOK, Work, Closure, PrepareSummary, CloseAdWork, SummaryRuns, SetClosure,
       PreparedStatus, Closed, GuardWrite, LiveUpdate, ParentCancelled
<1> QED
    BY <1>1, <1>2, <1>4, <1>5, <1>6, <1>7, <1>8, <1>9 DEF Next

--------------------------------------------------------------------------------
\* The Work Code.

LEMMA CodeStep == TypeOK /\ CodeMatchesRelease /\ [Next]_vars => CodeMatchesRelease'
<1> SUFFICES ASSUME TypeOK, CodeMatchesRelease, [Next]_vars PROVE CodeMatchesRelease'
    OBVIOUS
<1> USE DEF CodeMatchesRelease, TypeOK, Work
<1>1. CASE work' = work \/ LiveUpdate
    BY <1>1 DEF LiveUpdate
<1>2. CASE RevokeAccess \/ ReleaseToDriver
    BY <1>2 DEF RevokeAccess, ReleaseToDriver
<1>3. CASE InvalidateAuthority
    BY <1>3 DEF InvalidateAuthority
<1>4. CASE CancelAdWork
    BY <1>4 DEF CancelAdWork
<1> QED
    BY <1>1, <1>2, <1>3, <1>4, WorkSteps

\* A Work Code exists exactly while the Ad Work is released, after any number of
\* releases, revocations, reschedules and the cancellation.
THEOREM CodeAlwaysMatches == Spec => []CodeMatchesRelease
<1>1. Init => CodeMatchesRelease
    BY DEF Init, CodeMatchesRelease
<1> QED
    BY <1>1, CodeStep, InitTyped, NextTyped, PTL DEF Spec

--------------------------------------------------------------------------------
\* The summary.

LEMMA SummaryStep == TypeOK /\ SummaryAgrees /\ [Next]_vars => SummaryAgrees'
<1> SUFFICES ASSUME TypeOK, SummaryAgrees, [Next]_vars PROVE SummaryAgrees'
    OBVIOUS
<1> USE DEF SummaryAgrees, TypeOK, Work
<1>1. CASE UNCHANGED vars
    BY <1>1 DEF vars
<1>2. CASE AdminPlanning
    BY <1>2 DEF AdminPlanning, PatchExecutionMode, SetMobileLocationProof, SaveAssignment,
       AssignDriverVehicle, WriteAssignment, RevokeAccess, ReleaseToDriver
<1>3. ASSUME NEW d \in Day, NEW st, NEW ov, MoveDay(d, st, ov)
      PROVE  SummaryAgrees'
    BY <1>3 DEF MoveDay
<1>4. CASE DriverExecution
    BY <1>3, <1>4 DEF DriverExecution, DriverStart, DriverTakeBreak, DriverResume, DriverEnd,
       DriverIssue, DriverAddProofNote
<1>5. CASE AdminExecution
    BY <1>3, <1>5 DEF AdminExecution, AdminStartDay, AdminCompleteDay, AdminReportIssue,
       AdminRequestProofUpload
<1>6. CASE UnlockedRequests
    BY <1>6 DEF UnlockedRequests, BeginRequest, AbortRequest, FinishStart, FinishDeny, FinishUpload
<1>7. CASE Tracking
    BY <1>7 DEF Tracking, RecordLocationPoint, SyncLocationPoints, StorePoint,
       AdminStopTracking, DriverStopTracking
<1>8. CASE Schedule
    <2>1. CASE CancelAdWork
        BY <2>1 DEF CancelAdWork, Closed
    <2>2. CASE UNCHANGED summary /\ InvalidateAuthority
        BY <2>2 DEF InvalidateAuthority
    <2> QED
        BY <1>8, <2>1, <2>2 DEF Schedule, RescheduleAdWork, RescheduleDay
<1>9. CASE Closure
    BY <1>9 DEF Closure, PrepareSummary, CloseAdWork, SetClosure
<1> QED
    BY <1>1, <1>2, <1>4, <1>5, <1>6, <1>7, <1>8, <1>9 DEF Next

--------------------------------------------------------------------------------
\* Cancellation.

\* No action of any component changes an inert Ad Work: the guard triggers
\* reject the writes, and every other path needs a release or a live day.
LEMMA FrozenStep ==
    TypeOK /\ CancelledWorkIsInert /\ ParentCancelled /\ [Next]_vars
      => UNCHANGED <<work, assignment, dayVars, summary>>
<1> SUFFICES ASSUME TypeOK, CancelledWorkIsInert, ParentCancelled, [Next]_vars
             PROVE  UNCHANGED <<work, assignment, dayVars, summary>>
    OBVIOUS
<1> USE DEF dayVars
<1>1. CASE UNCHANGED vars
    BY <1>1 DEF vars
<1>2. CASE AdminPlanning
    <2>1. CASE RevokeAccess
        <3>1. work.release = "access_revoked" /\ work.code = FALSE
            BY DEF CancelledWorkIsInert
        <3>2. work' = work
            BY <2>1, <3>1 DEF RevokeAccess, TypeOK, Work
        <3> QED
            BY <2>1, <3>2 DEF RevokeAccess
    <2>2. CASE ~RevokeAccess
        BY <1>2, <2>2 DEF GuardWrite, AdminPlanning, PatchExecutionMode,
           SetMobileLocationProof, SaveAssignment, AssignDriverVehicle, WriteAssignment,
           ReleaseToDriver
    <2> QED
        BY <2>1, <2>2
<1>3. CASE DriverExecution
    BY <1>3 DEF CancelledWorkIsInert, DriverExecution, DriverStart, DriverTakeBreak,
       DriverResume, DriverEnd, DriverIssue, DriverAddProofNote, DriverAuthorised
<1>4. CASE AdminExecution
    BY <1>4 DEF CancelledWorkIsInert, GuardWrite, AdminExecution, AdminStartDay,
       AdminCompleteDay, AdminReportIssue, AdminRequestProofUpload, MoveDay
<1>5. CASE UnlockedRequests
    BY <1>5 DEF TypeOK, Request, CancelledWorkIsInert, UnlockedRequests, BeginRequest,
       AbortRequest, FinishStart, FinishDeny, FinishUpload
<1>6. CASE Tracking
    BY <1>6 DEF CancelledWorkIsInert, Tracking, RecordLocationPoint, SyncLocationPoints,
       PointAuthority, AdminStopTracking, DriverStopTracking
<1>7. CASE Schedule
    BY <1>7 DEF CancelledWorkIsInert, Schedule, RescheduleAdWork, RescheduleDay, CancelAdWork
<1>8. CASE Closure
    BY <1>8 DEF GuardWrite, Closure, PrepareSummary, CloseAdWork, SummaryRuns
<1> QED
    BY <1>1, <1>2, <1>3, <1>4, <1>5, <1>6, <1>7, <1>8 DEF Next

LEMMA InertStep ==
    TypeOK /\ SummaryAgrees /\ CancelledWorkIsInert /\ [Next]_vars => CancelledWorkIsInert'
<1> SUFFICES ASSUME TypeOK, SummaryAgrees, CancelledWorkIsInert, [Next]_vars
             PROVE  CancelledWorkIsInert'
    OBVIOUS
<1>1. CASE ParentCancelled
    BY <1>1, FrozenStep DEF CancelledWorkIsInert, ParentCancelled, dayVars
<1>2. CASE ~ParentCancelled /\ CancelAdWork
    <2>1. summary' \in {"none", "cancelled"}
        BY <1>2 DEF TypeOK, SummaryAgrees, CancelAdWork, Closed
    <2> QED
        BY <1>2, <2>1 DEF TypeOK, CancelledWorkIsInert, CancelAdWork
<1>3. CASE ~ParentCancelled /\ ~CancelAdWork
    <2>1. ~ParentCancelled'
        BY <1>3, WorkSteps DEF TypeOK, Work, ParentCancelled, LiveUpdate, RevokeAccess,
           ReleaseToDriver, InvalidateAuthority
    <2> QED
        BY <2>1 DEF CancelledWorkIsInert
<1> QED
    BY <1>1, <1>2, <1>3

LEMMA InertInvariant == Spec => [](TypeOK /\ SummaryAgrees /\ CancelledWorkIsInert)
<1>1. Init => SummaryAgrees /\ CancelledWorkIsInert
    BY DEF Init, SummaryAgrees, CancelledWorkIsInert, ParentCancelled
<1> QED
    BY <1>1, InitTyped, NextTyped, SummaryStep, InertStep, PTL DEF Spec

\* The cancellation of an Ad Work is complete whatever came before it: every
\* marker, the assignment, the days and the summary agree.
THEOREM CancelledAlwaysInert == Spec => []CancelledWorkIsInert
<1> QED
    BY InertInvariant, PTL

\* The cancellation of an Ad Work is final: no later step changes its lifecycle
\* columns, its assignment, its days, their evidence or its summary.
THEOREM CancelledStaysFrozen == Spec => CancelledIsFrozen
<1>1. TypeOK /\ CancelledWorkIsInert /\ [Next]_vars
        => [ParentCancelled => UNCHANGED <<work, assignment, dayVars, summary>>]_vars
    BY FrozenStep
<1> QED
    BY <1>1, InertInvariant, PTL DEF Spec, CancelledIsFrozen

--------------------------------------------------------------------------------
\* Rescheduling.

Rescheduled ==
    \/ \E x, y \in Date : RescheduleAdWork(x - y)
    \/ \E d \in Day, newDate \in Date : RescheduleDay(d, newDate)

LEMMA DateSteps == [Next]_vars => date' = date \/ Rescheduled
<1> SUFFICES ASSUME [Next]_vars PROVE date' = date \/ Rescheduled
    OBVIOUS
<1>1. CASE UNCHANGED vars
    BY <1>1 DEF vars, dayVars
<1>2. CASE AdminPlanning
    BY <1>2 DEF AdminPlanning, PatchExecutionMode, SetMobileLocationProof, SaveAssignment,
       AssignDriverVehicle, WriteAssignment, RevokeAccess, ReleaseToDriver, dayVars
<1>3. CASE DriverExecution
    BY <1>3 DEF DriverExecution, DriverStart, DriverTakeBreak, DriverResume, DriverEnd,
       DriverIssue, DriverAddProofNote, MoveDay
<1>4. CASE AdminExecution
    BY <1>4 DEF AdminExecution, AdminStartDay, AdminCompleteDay, AdminReportIssue,
       AdminRequestProofUpload, MoveDay
<1>5. CASE UnlockedRequests
    BY <1>5 DEF UnlockedRequests, BeginRequest, AbortRequest, FinishStart, FinishDeny,
       FinishUpload, dayVars
<1>6. CASE Tracking
    BY <1>6 DEF Tracking, RecordLocationPoint, SyncLocationPoints, StorePoint,
       AdminStopTracking, DriverStopTracking, dayVars
<1>7. CASE Schedule
    BY <1>7 DEF Schedule, CancelAdWork, Rescheduled
<1>8. CASE Closure
    BY <1>8 DEF Closure, PrepareSummary, CloseAdWork, SetClosure, dayVars
<1> QED
    BY <1>1, <1>2, <1>3, <1>4, <1>5, <1>6, <1>7, <1>8 DEF Next

LEMMA RescheduledInvalidates == Rescheduled => InvalidateAuthority
BY DEF Rescheduled, RescheduleAdWork, RescheduleDay

LEMMA InvalidatedAuthority ==
    ASSUME TypeOK, CodeMatchesRelease, InvalidateAuthority
    PROVE  /\ work'.release # "released_to_driver" /\ ~work'.code
           /\ assignment'.status # "ready_for_execution"
           /\ \A s \in Session : sessions'[s].status # "running"
<1>1. work'.release # "released_to_driver" /\ ~work'.code
    BY DEF TypeOK, Work, InvalidateAuthority
<1>2. assignment'.status # "ready_for_execution"
    BY DEF TypeOK, InvalidateAuthority, Downgraded
<1> DEFINE kept == [s \in Session |-> IF sessions[s].status \in {"running", "paused"}
                                     THEN [sessions[s] EXCEPT !.status = "stopped"]
                                     ELSE sessions[s]]
<1>3. kept \in SessionTable /\ \A s \in Session : kept[s].status # "running"
    BY DEF TypeOK, SessionTable, SessionRow
<1>4. sessions' = AfterWorkUpdate(work', kept)
    BY DEF InvalidateAuthority
<1> HIDE DEF kept
<1>5. ASSUME NEW s \in Session PROVE sessions'[s].status # "running"
    <2>1. AfterWorkUpdate(work', kept)[s].status = "running" =>
             AfterWorkUpdate(work', kept)[s] = kept[s]
        BY <1>3, TriggersOnlyStop
    <2> QED
        BY <1>3, <1>4, <2>1
<1> QED
    BY <1>1, <1>2, <1>5

LEMMA CodeInvariant == Spec => [](TypeOK /\ CodeMatchesRelease)
<1>1. Init => CodeMatchesRelease
    BY DEF Init, CodeMatchesRelease
<1> QED
    BY <1>1, CodeStep, InitTyped, NextTyped, PTL DEF Spec

\* After a reschedule nobody holds authority over the new dates: no release, no
\* code, no ready assignment, and no phone session still running.
THEOREM RescheduleAlwaysRevokes == Spec => RescheduleRevokesAuthority
<1>1. TypeOK /\ CodeMatchesRelease /\ [Next]_vars
        => [date' # date =>
              /\ work'.release # "released_to_driver" /\ ~work'.code
              /\ assignment'.status # "ready_for_execution"
              /\ \A s \in Session : sessions'[s].status # "running"]_vars
    BY DateSteps, RescheduledInvalidates, InvalidatedAuthority
<1> QED
    BY <1>1, CodeInvariant, PTL DEF Spec, RescheduleRevokesAuthority

\* Evidence is never moved to another date.
THEOREM EvidenceNeverMoves == Spec => EvidenceKeepsItsDate
<1>1. TypeOK /\ [Next]_vars
        => [\A d \in started \cup ended \cup observed : date'[d] = date[d]]_vars
    <2> SUFFICES ASSUME TypeOK, Rescheduled, NEW d \in started \cup ended \cup observed
                 PROVE  date'[d] = date[d]
        BY DateSteps
    <2>1. d \in Day
        BY DEF TypeOK
    <2>2. ASSUME NEW e \in Day, NEW newDate \in Date, RescheduleDay(e, newDate)
          PROVE  date'[d] = date[d]
        BY <2>1, <2>2 DEF TypeOK, RescheduleDay, Unobserved
    <2> QED
        BY <2>1, <2>2 DEF Rescheduled, RescheduleAdWork, Unobserved
<1> QED
    BY <1>1, TypeCorrect, PTL DEF Spec, EvidenceKeepsItsDate

--------------------------------------------------------------------------------
\* Phone sessions.

LEMMA MoveDaySessions ==
    ASSUME TypeOK, RunningSessionOnRunningDay, NEW d \in Day,
           NEW st \in {"running", "on_break", "completed", "issue_reported"},
           NEW ss \in SessionTable, ss = AfterDayUpdate(d, st, sessions),
           exec' = [exec EXCEPT ![d] = st],
           NEW s \in Session, ss[s].status = "running"
    PROVE  ss[s].day \in Day /\ exec'[ss[s].day] = "running"
<1>1. ss[s] = sessions[s]
    BY TableTyped, TriggersOnlyStop
<1>2. sessions[s].day # d \/ st = "running"
    BY TableTyped, TriggersOnlyStop, <1>1 DEF RunningSessionOnRunningDay
<1> QED
    BY <1>1, <1>2 DEF TypeOK, RunningSessionOnRunningDay

LEMMA RunningStep ==
    TypeOK /\ CodeMatchesRelease /\ RunningSessionOnRunningDay /\ [Next]_vars
      => RunningSessionOnRunningDay'
<1> SUFFICES ASSUME TypeOK, CodeMatchesRelease, RunningSessionOnRunningDay, [Next]_vars,
                    NEW s \in Session, sessions'[s].status = "running"
             PROVE  sessions'[s].day \in Day /\ exec'[sessions'[s].day] = "running"
    BY DEF RunningSessionOnRunningDay
<1>1. CASE UNCHANGED <<sessions, exec>>
    BY <1>1 DEF RunningSessionOnRunningDay
<1>2. CASE sessions' = AfterWorkUpdate(work', sessions) /\ UNCHANGED exec
    BY <1>2, TableTyped, TriggersOnlyStop DEF RunningSessionOnRunningDay
<1>3. CASE ReleaseToDriver
    <2>1. sessions'[s] = sessions[s]
        BY <1>3, TableTyped, TriggersOnlyStop DEF ReleaseToDriver
    <2> QED
        BY <1>3, <2>1 DEF ReleaseToDriver, RunningSessionOnRunningDay
<1>4. ASSUME NEW d \in Day,
             NEW st \in {"running", "on_break", "completed", "issue_reported"},
             exec' = [exec EXCEPT ![d] = st],
             \/ sessions' = AfterDayUpdate(d, st, sessions)
             \/ sessions' = AfterWorkUpdate(work', AfterDayUpdate(d, st, sessions))
      PROVE  sessions'[s].day \in Day /\ exec'[sessions'[s].day] = "running"
    <2> DEFINE ss == AfterDayUpdate(d, st, sessions)
    <2>1. ss \in SessionTable
        BY TableTyped, TriggerTypes
    <2>2. sessions'[s] = ss[s]
        <3> HIDE DEF ss
        <3>1. sessions' = ss \/ sessions' = AfterWorkUpdate(work', ss)
            BY <1>4 DEF ss
        <3> QED
            BY <2>1, <3>1, TriggersOnlyStop
    <2>3. ss[s].day \in Day /\ exec'[ss[s].day] = "running"
        <3>1. ss = AfterDayUpdate(d, st, sessions)
            OBVIOUS
        <3> HIDE DEF ss
        <3> QED
            BY <1>4, <2>1, <2>2, <3>1, MoveDaySessions
    <2> QED
        BY <2>2, <2>3
<1>5. CASE AdminPlanning
    BY <1>1, <1>2, <1>3, <1>5 DEF AdminPlanning, PatchExecutionMode, SetMobileLocationProof,
       SaveAssignment, AssignDriverVehicle, WriteAssignment, RevokeAccess, dayVars
<1>6. CASE DriverExecution
    BY <1>1, <1>4, <1>6 DEF DriverExecution, DriverStart, DriverTakeBreak, DriverResume,
       DriverEnd, DriverIssue, DriverAddProofNote, MoveDay
<1>7. CASE AdminExecution
    BY <1>1, <1>4, <1>7 DEF AdminExecution, AdminStartDay, AdminCompleteDay, AdminReportIssue,
       AdminRequestProofUpload, MoveDay
<1>8. CASE UnlockedRequests
    <2>1. ASSUME NEW r \in pending, FinishStart(r)
          PROVE  sessions'[s].day \in Day /\ exec'[sessions'[s].day] = "running"
        <3>1. PICK t \in Session : WriteSession(t, r, "running")
            BY <2>1 DEF FinishStart, UpsertSession, InsertSession, LiveOf
        <3>2. CASE s = t
            BY <2>1, <3>1, <3>2 DEF TypeOK, Request, WriteSession, FinishStart, dayVars
        <3>3. CASE s # t
            BY <2>1, <3>1, <3>3
            DEF TypeOK, WriteSession, FinishStart, dayVars, RunningSessionOnRunningDay
        <3> QED
            BY <3>2, <3>3
    <2>2. ASSUME NEW r \in pending, FinishDeny(r)
          PROVE  sessions'[s].day \in Day /\ exec'[sessions'[s].day] = "running"
        <3>1. PICK t \in Session : WriteSession(t, r, "permission_missing")
            BY <2>2 DEF FinishDeny, UpsertSession, InsertSession, LiveOf
        <3> QED
            BY <2>2, <3>1
            DEF TypeOK, WriteSession, FinishDeny, dayVars, RunningSessionOnRunningDay
    <2> QED
        BY <1>1, <1>8, <2>1, <2>2 DEF UnlockedRequests, BeginRequest, AbortRequest, FinishUpload,
           dayVars
<1>9. CASE Tracking
    <2>1. ASSUME NEW t \in Session, NEW st \in {"paused", "stopped"},
                 sessions' = [sessions EXCEPT ![t].status = st], UNCHANGED exec
          PROVE  sessions'[s].day \in Day /\ exec'[sessions'[s].day] = "running"
        BY <2>1 DEF TypeOK, RunningSessionOnRunningDay
    <2> QED
        BY <1>1, <1>9, <2>1 DEF Tracking, RecordLocationPoint, SyncLocationPoints, StorePoint,
           AdminStopTracking, DriverStopTracking, dayVars
<1>10. CASE Schedule
    <2>1. CASE Rescheduled
        BY <2>1, RescheduledInvalidates, InvalidatedAuthority
    <2>2. CASE CancelAdWork
        BY <2>2, TableTyped, TriggersOnlyStop DEF CancelAdWork
    <2> QED
        BY <1>10, <2>1, <2>2 DEF Schedule, Rescheduled
<1>11. CASE Closure
    BY <1>2, <1>11 DEF Closure, PrepareSummary, CloseAdWork, SetClosure, dayVars
<1> QED
    BY <1>1, <1>5, <1>6, <1>7, <1>8, <1>9, <1>10, <1>11 DEF Next, vars, dayVars

LEMMA RunningInvariant == Spec => [](TypeOK /\ CodeMatchesRelease /\ RunningSessionOnRunningDay)
<1>1. Init => CodeMatchesRelease /\ RunningSessionOnRunningDay
    BY DEF Init, CodeMatchesRelease, RunningSessionOnRunningDay
<1> QED
    BY <1>1, CodeStep, RunningStep, InitTyped, NextTyped, PTL DEF Spec

\* A phone session runs only on a running day, although the request that starts
\* it read the Ad Work before other transactions changed it.
THEOREM RunningOnRunningDays == Spec => []RunningSessionOnRunningDay
<1> QED
    BY RunningInvariant, PTL

--------------------------------------------------------------------------------
\* Completion.

\* A driver moves a day to a status, and the work with it, or ends one day of
\* several and leaves the work alone.
LEMMA DriverSteps ==
    ASSUME TypeOK, CompletedMeansAllDays, DriverExecution
    PROVE  CompletedMeansAllDays'
<1> USE DEF CompletedMeansAllDays, TypeOK, Work
<1>1. PICK drv \in Driver, d \in Day :
         \/ DriverStart(drv, d) \/ DriverTakeBreak(drv, d) \/ DriverResume(drv, d)
         \/ DriverEnd(drv, d) \/ DriverIssue(drv, d) \/ DriverAddProofNote(drv, d)
    BY DEF DriverExecution
<1>2. CASE DriverEnd(drv, d)
    <2>1. CASE OthersCompleted(d)
        BY <1>2, <2>1 DEF DriverEnd, MoveDay, OthersCompleted
    <2>2. CASE ~OthersCompleted(d)
        <3>1. work' = work /\ exec' = [exec EXCEPT ![d] = "completed"]
            BY <1>2, <2>2 DEF DriverEnd
        <3> QED
            BY <3>1
    <2> QED
        BY <2>1, <2>2
<1>3. CASE DriverAddProofNote(drv, d)
    BY <1>3 DEF DriverAddProofNote
<1>4. CASE DriverStart(drv, d) \/ DriverTakeBreak(drv, d) \/ DriverResume(drv, d)
           \/ DriverIssue(drv, d)
    <2>1. work'.overall # "completed"
        BY <1>4 DEF DriverStart, DriverTakeBreak, DriverResume, DriverIssue, MoveDay
    <2> QED
        BY <2>1
<1> QED
    BY <1>1, <1>2, <1>3, <1>4

LEMMA CompletedStep ==
    Modes = {"driver_app"} /\ TypeOK /\ CompletedMeansAllDays /\ [Next]_vars
      => CompletedMeansAllDays'
<1> SUFFICES ASSUME Modes = {"driver_app"}, TypeOK, CompletedMeansAllDays, [Next]_vars
             PROVE  CompletedMeansAllDays'
    OBVIOUS
<1>1. mode = "driver_app"
    BY DEF TypeOK
<1>2. CASE work'.overall = work.overall /\ UNCHANGED exec
    BY <1>2 DEF CompletedMeansAllDays
<1>3. CASE work'.overall # "completed"
    BY <1>3 DEF CompletedMeansAllDays
<1>4. CASE AdminPlanning
    BY <1>2, <1>3, <1>4 DEF AdminPlanning, PatchExecutionMode, SetMobileLocationProof,
       SaveAssignment, AssignDriverVehicle, WriteAssignment, RevokeAccess, ReleaseToDriver,
       dayVars, TypeOK, Work
<1>5. CASE AdminExecution
    BY <1>1, <1>5 DEF AdminExecution, AdminStartDay, AdminCompleteDay, AdminReportIssue,
       AdminRequestProofUpload
<1>6. CASE UnlockedRequests
    BY <1>2, <1>6 DEF UnlockedRequests, BeginRequest, AbortRequest, FinishStart, FinishDeny,
       FinishUpload, dayVars
<1>7. CASE Tracking
    BY <1>2, <1>7 DEF Tracking, RecordLocationPoint, SyncLocationPoints, StorePoint,
       AdminStopTracking, DriverStopTracking, dayVars
<1>8. CASE Schedule
    <2>1. ASSUME NEW delta, RescheduleAdWork(delta) PROVE work'.overall # "completed"
        BY <2>1 DEF RescheduleAdWork, InvalidateAuthority, TypeOK, Work
    <2>2. ASSUME NEW d \in Day, NEW newDate, RescheduleDay(d, newDate)
          PROVE  work'.overall # "completed"
        BY <2>2 DEF RescheduleDay, InvalidateAuthority, TypeOK, Work, CompletedMeansAllDays
    <2>3. CASE CancelAdWork
        BY <1>3, <2>3 DEF CancelAdWork
    <2> QED
        BY <1>3, <1>8, <2>1, <2>2, <2>3 DEF Schedule
<1>9. CASE Closure
    BY <1>2, <1>9 DEF Closure, PrepareSummary, CloseAdWork, SetClosure, dayVars, TypeOK, Work
<1> QED
    BY <1>2, <1>4, <1>5, <1>6, <1>7, <1>8, <1>9, DriverSteps DEF Next, vars, dayVars

\* Work that only drivers execute is marked completed only when every one of its
\* days is, however issues, releases and reschedules come in between.
THEOREM DriverWorkCompletes ==
    ASSUME Modes = {"driver_app"}
    PROVE  Spec => []CompletedMeansAllDays
<1>1. Init => CompletedMeansAllDays
    BY DEF Init, CompletedMeansAllDays
<1>2. TypeOK /\ CompletedMeansAllDays /\ [Next]_vars => CompletedMeansAllDays'
    BY CompletedStep
<1> QED
    BY <1>1, <1>2, TypeCorrect, PTL DEF Spec

--------------------------------------------------------------------------------
\* Refinement of WorkAccess.

\* A request in flight passed its first reads, so the work was released once.
RequestsFollowRelease == pending # {} => work.release # "not_released"

LEMMA FollowStep ==
    TypeOK /\ RequestsFollowRelease /\ [Next]_vars => RequestsFollowRelease'
<1> SUFFICES ASSUME TypeOK, RequestsFollowRelease, [Next]_vars PROVE RequestsFollowRelease'
    OBVIOUS
<1>1. work.release # "not_released" => work'.release # "not_released"
    <2> USE DEF TypeOK, Work
    <2>1. CASE work' = work \/ LiveUpdate
        BY <2>1 DEF LiveUpdate
    <2>2. CASE RevokeAccess \/ ReleaseToDriver
        BY <2>2 DEF RevokeAccess, ReleaseToDriver
    <2>3. CASE InvalidateAuthority
        BY <2>3 DEF InvalidateAuthority
    <2>4. CASE CancelAdWork
        BY <2>4 DEF CancelAdWork
    <2> QED
        BY <2>1, <2>2, <2>3, <2>4, WorkSteps
<1>2. pending' = {} \/ pending # {} \/ work'.release = "released_to_driver"
    <2> SUFFICES ASSUME pending = {}, pending' # {}
                 PROVE  work'.release = "released_to_driver"
        OBVIOUS
    <2>1. CASE UNCHANGED vars
        BY <2>1 DEF vars
    <2>2. CASE AdminPlanning
        BY <2>2 DEF AdminPlanning, PatchExecutionMode, SetMobileLocationProof, SaveAssignment,
           AssignDriverVehicle, WriteAssignment, RevokeAccess, ReleaseToDriver
    <2>3. CASE DriverExecution
        BY <2>3 DEF DriverExecution, DriverStart, DriverTakeBreak, DriverResume, DriverEnd,
           DriverIssue, DriverAddProofNote, MoveDay
    <2>4. CASE AdminExecution
        BY <2>4 DEF AdminExecution, AdminStartDay, AdminCompleteDay, AdminReportIssue,
           AdminRequestProofUpload, MoveDay
    <2>5. CASE UnlockedRequests
        BY <2>5 DEF UnlockedRequests, BeginRequest, RequestAuthority, DriverAuthorised
    <2>6. CASE Tracking
        BY <2>6 DEF Tracking, RecordLocationPoint, SyncLocationPoints, StorePoint,
           AdminStopTracking, DriverStopTracking
    <2>7. CASE Schedule
        BY <2>7 DEF Schedule, RescheduleAdWork, RescheduleDay, CancelAdWork
    <2>8. CASE Closure
        BY <2>8 DEF Closure, PrepareSummary, CloseAdWork, SetClosure
    <2> QED
        BY <2>1, <2>2, <2>3, <2>4, <2>5, <2>6, <2>7, <2>8 DEF Next
<1> QED
    BY <1>1, <1>2 DEF RequestsFollowRelease

\* Only driver_start_mobile_tracking makes a session run.
LEMMA OnlyStartRuns ==
    ASSUME TypeOK, CodeMatchesRelease, [Next]_vars, NEW s \in Session,
           sessions'[s].status = "running"
    PROVE  sessions[s].status = "running" \/ \E r \in pending : FinishStart(r)
<1>1. CASE UNCHANGED sessions
    BY <1>1
<1>2. CASE sessions' = AfterWorkUpdate(work', sessions)
    BY <1>2, TableTyped, TriggersOnlyStop
<1>3. ASSUME NEW d \in Day, NEW st,
             \/ sessions' = AfterDayUpdate(d, st, sessions)
             \/ sessions' = AfterWorkUpdate(work', AfterDayUpdate(d, st, sessions))
      PROVE  sessions[s].status = "running"
    <2> DEFINE ss == AfterDayUpdate(d, st, sessions)
    <2>1. ss \in SessionTable /\ (ss[s].status = "running" => ss[s] = sessions[s])
        BY TableTyped, TriggerTypes, TriggersOnlyStop
    <2>2. sessions' = ss \/ sessions' = AfterWorkUpdate(work', ss)
        BY <1>3
    <2> HIDE DEF ss
    <2> QED
        BY <2>1, <2>2, TriggersOnlyStop
<1>4. CASE AdminPlanning
    BY <1>1, <1>2, <1>4 DEF AdminPlanning, PatchExecutionMode, SetMobileLocationProof,
       SaveAssignment, AssignDriverVehicle, WriteAssignment, RevokeAccess, ReleaseToDriver
<1>5. CASE DriverExecution
    BY <1>1, <1>3, <1>5 DEF DriverExecution, DriverStart, DriverTakeBreak, DriverResume,
       DriverEnd, DriverIssue, DriverAddProofNote, MoveDay
<1>6. CASE AdminExecution
    BY <1>1, <1>3, <1>6 DEF AdminExecution, AdminStartDay, AdminCompleteDay, AdminReportIssue,
       AdminRequestProofUpload, MoveDay
<1>7. CASE UnlockedRequests
    <2>1. ASSUME NEW r \in pending, FinishDeny(r)
          PROVE  sessions[s].status = "running"
        <3>1. PICK t \in Session : WriteSession(t, r, "permission_missing")
            BY <2>1 DEF FinishDeny, UpsertSession, InsertSession, LiveOf
        <3> QED
            BY <3>1 DEF TypeOK, WriteSession
    <2> QED
        BY <1>1, <1>7, <2>1 DEF UnlockedRequests, BeginRequest, AbortRequest, FinishUpload
<1>8. CASE Tracking
    <2>1. ASSUME NEW t \in Session, NEW st \in {"paused", "stopped"},
                 sessions' = [sessions EXCEPT ![t].status = st]
          PROVE  sessions[s].status = "running"
        BY <2>1 DEF TypeOK
    <2> QED
        BY <1>1, <1>8, <2>1 DEF Tracking, RecordLocationPoint, SyncLocationPoints, StorePoint,
           AdminStopTracking, DriverStopTracking
<1>9. CASE Schedule
    <2>1. CASE Rescheduled
        BY <2>1, RescheduledInvalidates, InvalidatedAuthority
    <2>2. CASE CancelAdWork
        BY <2>2, TableTyped, TriggersOnlyStop DEF CancelAdWork
    <2> QED
        BY <1>9, <2>1, <2>2 DEF Schedule, Rescheduled
<1>10. CASE Closure
    BY <1>2, <1>10 DEF Closure, PrepareSummary, CloseAdWork, SetClosure
<1> QED
    BY <1>1, <1>4, <1>5, <1>6, <1>7, <1>8, <1>9, <1>10 DEF Next, vars

AccessInv ==
    /\ TypeOK /\ SummaryAgrees /\ CancelledWorkIsInert
    /\ CodeMatchesRelease /\ RunningSessionOnRunningDay /\ RequestsFollowRelease

LEMMA AccessInvariant == Spec => []AccessInv
<1>1. Init => AccessInv
    BY InitTyped DEF AccessInv, Init, SummaryAgrees, CancelledWorkIsInert, ParentCancelled,
       CodeMatchesRelease, RunningSessionOnRunningDay, RequestsFollowRelease
<1>2. AccessInv /\ [Next]_vars => AccessInv'
    BY NextTyped, SummaryStep, InertStep, CodeStep, RunningStep, FollowStep DEF AccessInv
<1> QED
    BY <1>1, <1>2, PTL DEF Spec

\* A session that starts to run finds access granted or withdrawn, never ended.
LEMMA StartMaps ==
    ASSUME AccessInv, NEW r \in pending, FinishStart(r)
    PROVE  \E s \in Session : Contract!StartSession(s)
<1>1. PICK s \in Session : WriteSession(s, r, "running")
    BY DEF FinishStart, UpsertSession, InsertSession, LiveOf
<1>2. RunningSessions' = RunningSessions \cup {s}
    BY <1>1 DEF RunningSessions, WriteSession, AccessInv, TypeOK
<1>3. Access \in {"granted", "withdrawn"}
    <2>1. work.planning # "cancelled"
        BY DEF AccessInv, CancelledWorkIsInert, ParentCancelled, FinishStart, TypeOK, Request
    <2>2. work.release \in {"released_to_driver", "access_revoked"}
        BY DEF AccessInv, RequestsFollowRelease, TypeOK, Work
    <2> QED
        BY <2>1, <2>2 DEF Access
<1>4. Access' = Access
    BY DEF FinishStart, Access
<1> QED
    BY <1>2, <1>3, <1>4 DEF Contract!StartSession

LEMMA StepMaps == AccessInv /\ [Next]_vars => [Contract!AccessNext]_(Contract!avars)
<1> SUFFICES ASSUME AccessInv, [Next]_vars
             PROVE  Contract!AccessNext \/ UNCHANGED <<Access, RunningSessions>>
    BY DEF Contract!avars
<1> USE DEF Contract!AccessNext
<1>1. CASE \E r \in pending : FinishStart(r)
    BY <1>1, StartMaps
<1>2. CASE ~\E r \in pending : FinishStart(r)
    <2>1. RunningSessions' \subseteq RunningSessions
        BY <1>2, OnlyStartRuns DEF AccessInv, RunningSessions
    <2>2. CASE work' = work \/ LiveUpdate
        <3>1. Access' = Access
            BY <2>2 DEF Access, LiveUpdate
        <3> QED
            BY <2>1, <3>1 DEF Contract!StopSessions
    <2>3. ASSUME \A s \in Session : sessions'[s].status # "running",
                 work'.planning = work.planning,
                 work'.release = "access_revoked" \/ work'.release = work.release
          PROVE  Contract!AccessNext
        <3>1. RunningSessions' = {}
            BY <2>3 DEF RunningSessions
        <3>2. CASE work.planning = "cancelled" \/ work'.release = work.release
            BY <2>1, <2>3, <3>2 DEF Access, Contract!StopSessions, AccessInv,
               CancelledWorkIsInert, ParentCancelled
        <3>3. CASE work.planning # "cancelled" /\ work'.release = "access_revoked"
            <4>1. Access # "ended" /\ Access' = "withdrawn"
                BY <2>3, <3>3 DEF Access
            <4> QED
                BY <3>1, <4>1 DEF Contract!Withdraw
        <3> QED
            BY <2>3, <3>2, <3>3
    <2>4. CASE RevokeAccess
        <3>1. work'.planning = work.planning /\ work'.release = "access_revoked"
            BY <2>4 DEF RevokeAccess, AccessInv, TypeOK, Work
        <3>2. \A s \in Session : sessions'[s].status # "running"
            BY <2>4, <3>1, TableTyped, TriggersOnlyStop DEF RevokeAccess, AccessInv
        <3> QED
            BY <2>3, <3>1, <3>2
    <2>5. CASE InvalidateAuthority
        <3>1. \A s \in Session : sessions'[s].status # "running"
            BY <2>5, InvalidatedAuthority DEF AccessInv
        <3> QED
            BY <2>3, <2>5, <3>1 DEF InvalidateAuthority, AccessInv, TypeOK, Work
    <2>6. CASE ReleaseToDriver
        <3>1. Access # "ended" /\ Access' = "granted"
            BY <2>6 DEF ReleaseToDriver, GuardWrite, ParentCancelled, Access, AccessInv,
               TypeOK, Work
        <3> QED
            BY <2>1, <3>1 DEF Contract!Grant
    <2>7. CASE CancelAdWork
        <3>1. RunningSessions' = {}
            BY <2>7, TableTyped, TriggersOnlyStop DEF CancelAdWork, RunningSessions, AccessInv
        <3>2. Access # "ended" /\ Access' = "ended"
            BY <2>7 DEF CancelAdWork, Access
        <3> QED
            BY <3>1, <3>2 DEF Contract!End
    <2> QED
        BY <2>2, <2>4, <2>5, <2>6, <2>7, WorkSteps DEF AccessInv
<1> QED
    BY <1>1, <1>2

\* The database implements WorkAccess: whatever the interleaving, withdrawing
\* access stops every running phone session in the same step, and after the
\* cancellation no session ever runs again.
THEOREM LifecycleImplementsWorkAccess == Spec => ImplementsWorkAccess
<1>1. Init => Contract!AccessInit
    BY DEF Init, Contract!AccessInit, Access, RunningSessions
<1> QED
    BY <1>1, StepMaps, AccessInvariant, PTL
    DEF Spec, ImplementsWorkAccess, Contract!AccessSpec

================================================================================
