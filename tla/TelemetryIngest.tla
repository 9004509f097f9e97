--------------------------- MODULE TelemetryIngest ---------------------------
(***************************************************************************)
(* The secure HTTP telemetry ingestion (M21): the host of http-host-v2.ts  *)
(* as telemetry-v1.ts wires it, the credential check, and the database     *)
(* functions of 20260727010000, between one device that repeats what was    *)
(* not answered and the people who run the work it is mounted on.          *)
(*                                                                         *)
(* One device, one credential, one vehicle and one work day.  A vendor      *)
(* event is a record of Catalog:                                           *)
(*   [id, content, epoch, sequence, captured, location, health, fix, normal]*)
(* where id is the identity the adapter derives, sequence is NoSequence     *)
(* without a stream, fix is what health says of the GPS and normal says     *)
(* whether the adapter can normalize it (GenericHttpAdapter).  A batch is   *)
(* what one request carries: [presented, body, events].                    *)
(* Bounds: MaxTime, MaxSends and MaxTroubles: calls that fail or lose their *)
(* answer, and changes other than the day's that end the device's authority.*)
(***************************************************************************)
EXTENDS Integers, Sequences, FiniteSets

CONSTANTS
    Request,        \* requests that can be in the host at a time
    Catalog,        \* the vendor events
    Batches,        \* what a request may carry
    Live, Backfill, Skew, Reorder,                  \* the ingestion policy
    WindowLength, UnauthLimit, RequestLimit, EventLimit, \* the rate limits
    Overlap,        \* how long a rotated credential stays good
    MaxTime, MaxSends, MaxTroubles

NoTime == -1
NoSequence == -1
Never == MaxTime + Overlap + Backfill + 1

ASSUME PolicyAssumption ==
    /\ {Live, Backfill, Skew, Reorder, Overlap, MaxTime} \subseteq Nat
    /\ {WindowLength, UnauthLimit, RequestLimit, EventLimit} \subseteq Nat \ {0}

\* What the adapter lets through has sequences that are numbers or missing.
ASSUME CatalogAssumption ==
    /\ \A e \in Catalog : e.captured \in Nat /\ e.sequence \in Nat \cup {NoSequence}
    /\ \A b \in Batches : b.events \in Seq(Catalog)

VARIABLES
    now,
    device,       \* [active, gpsReady, credentialEnd]
    history,      \* m21_execution_history of the day: rows [status, from]
    ended,        \* when the link, assignment and release stop to be effective
    rival,        \* since when the vehicle has a second assignment
    receipts, conflicts, highWater, sessions,
    unauth, requests, counted,  \* the rate limit buckets, by window
    reservations,
    host,         \* what each request has come to
    sends, troubles

world == <<device, history, ended, rival>>
evidence == <<receipts, conflicts, highWater, sessions>>
limits == <<unauth, requests, counted, reservations>>
vars == <<now, world, evidence, limits, host, sends, troubles>>

Window(t) == t \div WindowLength
Windows == 0..Window(MaxTime)
Idle == [stage |-> "idle"]
Authority == {"link", "assignment", "release"}

Init ==
    /\ now = 0
    /\ device = [active |-> TRUE, gpsReady |-> TRUE, credentialEnd |-> Never]
    /\ history = <<[status |-> "ready", from |-> 0]>>
    /\ ended = [a \in Authority |-> Never] /\ rival = Never
    /\ receipts = {} /\ conflicts = {} /\ highWater = [e \in {c.epoch : c \in Catalog} |-> NoSequence]
    /\ sessions = <<[status |-> "none", points |-> 0]>>
    /\ unauth = [w \in Windows |-> 0] /\ requests = unauth /\ counted = unauth
    /\ reservations = {}
    /\ host = [r \in Request |-> Idle]
    /\ sends = 0 /\ troubles = 0

NoSession == [status |-> "none", points |-> 0]

(***************************************************************************)
(* Authority at one instant.                                               *)
(***************************************************************************)
Eligible(received) ==
    device.active /\ device.gpsReady /\ received < device.credentialEnd

Until(row) == IF row = Len(history) THEN Never ELSE history[row + 1].from

StatusAt(t) == (CHOOSE row \in {history[i] : i \in DOMAIN history} :
    \E i \in DOMAIN history : row = history[i] /\ row.from <= t /\ t < Until(i)).status

\* The rows of running work at t; the very end of completed work counts.
RunningRows(t) ==
    {row \in DOMAIN history :
        /\ history[row].status = "running" /\ history[row].from <= t
        /\ \/ t < Until(row)
           \/ row < Len(history) /\ t = Until(row) /\ history[row + 1].status = "completed"}

ActualEnd ==
    IF history[Len(history)].status = "completed" THEN history[Len(history)].from ELSE Never

Assignments(t) == (IF t < ended["assignment"] THEN 1 ELSE 0) + (IF t >= rival THEN 1 ELSE 0)

\* Why the event has no authority, or "valid".  (The definitions before it
\* that no other refers to are the mutants of PROJECT.json, here and below.)
ResolutionWithoutLink(t) ==
    IF Assignments(t) > 1 THEN "authority_ambiguous"
    ELSE IF Assignments(t) = 0 THEN "assignment_not_effective"
    ELSE IF t >= rival \/ t >= ended["release"] \/ RunningRows(t) = {} THEN "outside_active_work"
    ELSE "valid"
Resolution(t) ==
    IF t >= ended["link"] THEN "vehicle_link_not_effective"
    ELSE IF Assignments(t) > 1 THEN "authority_ambiguous"
    ELSE IF Assignments(t) = 0 THEN "assignment_not_effective"
    ELSE IF t >= rival \/ t >= ended["release"] \/ RunningRows(t) = {} THEN "outside_active_work"
    ELSE "valid"

\* Too late: a day after the work, or after the event while it still goes on.
Expired(e, received) ==
    received > (IF ActualEnd = Never THEN e.captured ELSE ActualEnd) + Backfill

RowOf(e) == CHOOSE row \in RunningRows(e.captured) : TRUE
IsLiveWhileRunning(e, received) == received <= Until(RowOf(e))
IsLive(e, received) ==
    received <= Until(RowOf(e)) /\ received - e.captured <= Live

Stale(e) == e.sequence # NoSequence /\ highWater[e.epoch] # NoSequence
            /\ e.sequence < highWater[e.epoch] - Reorder

\* The first thing that speaks against the event, or "valid".
Objection(e, received) ==
    IF Stale(e) THEN "sequence_replay_invalid"
    ELSE IF e.captured > received + Skew THEN "captured_time_invalid"
    ELSE IF Resolution(e.captured) # "valid" THEN Resolution(e.captured)
    ELSE IF Expired(e, received) THEN "delayed_backfill_expired"
    ELSE "valid"

HealthMayStay == {"valid", "vehicle_link_not_effective", "assignment_not_effective",
                  "outside_active_work"}

Disposition(e, received) ==
    LET objection == Objection(e, received)
    IN  IF objection = "valid" /\ e.location
        THEN IF IsLive(e, received) THEN "accepted_live" ELSE "accepted_delayed"
        ELSE IF e.health /\ objection \in HealthMayStay THEN "health_only"
        ELSE "rejected"

(***************************************************************************)
(* m21_persist_telemetry_event, one transaction.                           *)
(***************************************************************************)
SameEvent(e) == {x \in receipts : x.id = e.id}
SameSequence(e) ==
    {x \in receipts : e.sequence # NoSequence /\ x.epoch = e.epoch /\ x.sequence = e.sequence}

\* What an event that is already known is answered, by identity first.
KnownById(e) == SameEvent(e)
Known(e) == IF SameEvent(e) # {} THEN SameEvent(e) ELSE SameSequence(e)
RepeatedAsAny(e) == Known(e) # {}
Repeated(e) == \E x \in Known(e) : x.content = e.content

Positioned == {"accepted_live", "accepted_delayed"}

\* The session of the running row the point belongs to.  A later live point
\* opens it again unless the work has ended.
SessionReopened(e, received, row) ==
    [status |-> IF ActualEnd = Never THEN "running" ELSE "completed", points |-> sessions[row].points + 1]
SessionAfter(e, received, row) ==
    LET old == sessions[row].status
        live == Disposition(e, received) = "accepted_live"
        over == ActualEnd # Never
        status == IF old # "none" THEN old
                  ELSE IF over /\ received >= ActualEnd THEN "completed"
                  ELSE IF live THEN "running"
                  ELSE IF StatusAt(received) = "on_break" THEN "paused"
                  ELSE "stopped"
    IN  [status |-> IF live /\ status # "completed" /\ ~over THEN "running" ELSE status,
         points |-> sessions[row].points + 1]

\* Health that is fresh updates the device: without a fix it is not ready,
\* and a device that is not ready is not let in any more.
Fresh(e, received) ==
    \/ Disposition(e, received) = "accepted_live"
    \/ /\ Disposition(e, received) = "health_only"
       /\ e.captured <= received /\ received - e.captured <= Live

ReadyAfter(e, received) ==
    IF e.health /\ Fresh(e, received) /\ e.fix # "absent" THEN e.fix = "some" ELSE device.gpsReady

Receipt(e, received) ==
    LET disposition == Disposition(e, received)
    IN  [id |-> e.id, content |-> e.content, epoch |-> e.epoch, sequence |-> e.sequence,
         captured |-> e.captured, received |-> received, disposition |-> disposition,
         row |-> IF disposition \in Positioned THEN RowOf(e) ELSE 0]

StoreLastSequence(e, received) ==
    LET x == Receipt(e, received)
    IN  /\ receipts' = receipts \cup {x}
        /\ highWater' = IF e.sequence # NoSequence /\ x.disposition # "rejected"
                        THEN [highWater EXCEPT ![e.epoch] = e.sequence] ELSE highWater
        /\ sessions' = IF x.row = 0 THEN sessions
                       ELSE [sessions EXCEPT ![x.row] = SessionAfter(e, received, x.row)]
        /\ device' = [device EXCEPT !.gpsReady = ReadyAfter(e, received)]
        /\ UNCHANGED conflicts
Store(e, received) ==
    LET x == Receipt(e, received)
    IN  /\ receipts' = receipts \cup {x}
        /\ highWater' = IF e.sequence > highWater[e.epoch] /\ x.disposition # "rejected"
                        THEN [highWater EXCEPT ![e.epoch] = e.sequence] ELSE highWater
        /\ sessions' = IF x.row = 0 THEN sessions
                       ELSE [sessions EXCEPT ![x.row] = SessionAfter(e, received, x.row)]
        /\ device' = [device EXCEPT !.gpsReady = ReadyAfter(e, received)]
        /\ UNCHANGED conflicts

\* `answer` is what the call returns.
PersistTouchingSession(e, received, answer) ==
    /\ Eligible(received)
    /\ IF ~Repeated(e) THEN Known(e) = {} /\ Store(e, received) /\ answer = Disposition(e, received)
       ELSE /\ sessions' = [row \in DOMAIN sessions |->
                   IF row \in {x.row : x \in Known(e)} THEN SessionAfter(e, received, row) ELSE sessions[row]]
            /\ answer = "duplicate" /\ UNCHANGED <<receipts, conflicts, highWater, device>>
Persist(e, received, answer) ==
    /\ Eligible(received)
    /\ IF Known(e) = {} THEN Store(e, received) /\ answer = Disposition(e, received)
       ELSE /\ conflicts' = IF Repeated(e) THEN conflicts
                            ELSE conflicts \cup {<<x.id, e.content>> : x \in Known(e)}
            /\ answer = IF Repeated(e) THEN "duplicate" ELSE "duplicate_conflict"
            /\ UNCHANGED <<receipts, highWater, sessions, device>>

(***************************************************************************)
(* The host.  Every call of the database may fail before it happens or      *)
(* lose its answer after it has; the request is then answered 503, except   *)
(* in the credential check, which answers 401.                             *)
(***************************************************************************)
At(r, stage) == host[r].stage = stage
Go(r, stage) == host' = [host EXCEPT ![r].stage = stage]
Answer(r, status) == host' = [host EXCEPT ![r] = [stage |-> "answered", status |-> status]]
Unlimited == UNCHANGED limits
Quiet == UNCHANGED <<now, world, evidence, sends, troubles>>

\* The device sends a batch, for the first time or again.
Send(r, batch) ==
    /\ host[r].stage \in {"idle", "answered"} /\ sends < MaxSends
    /\ \A i \in DOMAIN batch.events : batch.events[i].captured <= now + Skew + 1
    /\ sends' = sends + 1
    /\ host' = [host EXCEPT ![r] = [stage |-> "reserve", ticket |-> sends, received |-> now,
                                    batch |-> batch, results |-> <<>>]]
    /\ UNCHANGED <<now, world, evidence, limits, troubles>>

\* m21_reserve_unauthenticated_rate_limit: a denied request is counted too.
Reserved(r) ==
    LET w == Window(host[r].received)
    IN  /\ unauth' = [unauth EXCEPT ![w] = @ + 1]
        /\ reservations' = IF unauth[w] < UnauthLimit
                           THEN reservations \cup {[ticket |-> host[r].ticket, window |-> w, refunded |-> FALSE]}
                           ELSE reservations
        /\ UNCHANGED <<requests, counted>>

\* The lookup and the comparison of digests change nothing and belong to it.
Reserve(r) ==
    /\ At(r, "reserve") /\ Reserved(r) /\ Quiet
    /\ IF unauth[Window(host[r].received)] >= UnauthLimit THEN Answer(r, 429)
       ELSE IF host[r].batch.presented = "right" /\ Eligible(host[r].received)
       THEN Go(r, "verify") ELSE Answer(r, 401)

Mine(r) == {v \in reservations : v.ticket = host[r].ticket /\ ~v.refunded}

\* m21_mark_credential_verified: gives the one reservation back.
Verified(r) ==
    IF device.active /\ host[r].received < device.credentialEnd /\ Mine(r) # {}
    THEN LET v == CHOOSE v \in Mine(r) : TRUE
         IN  /\ reservations' = (reservations \ {v}) \cup {[v EXCEPT !.refunded = TRUE]}
             /\ unauth' = [unauth EXCEPT ![v.window] = IF @ > 0 THEN @ - 1 ELSE 0]
             /\ UNCHANGED <<requests, counted>>
    ELSE Unlimited

Verify(r) ==
    /\ At(r, "verify") /\ Verified(r) /\ Quiet
    /\ IF reservations' # reservations THEN Go(r, "request") ELSE Answer(r, 401)

\* m21_consume_authenticated_rate_limits charges the request; then its body
\* is read, and refused when it is too large or no JSON.
ChargeRequest(r) ==
    LET w == Window(host[r].received)
    IN  /\ At(r, "request") /\ Quiet
        /\ requests' = [requests EXCEPT ![w] = @ + 1]
        /\ UNCHANGED <<unauth, counted, reservations>>
        /\ IF requests[w] >= RequestLimit \/ counted[w] > EventLimit THEN Answer(r, 429)
           ELSE IF host[r].batch.body = "too_large" THEN Answer(r, 413)
           ELSE IF host[r].batch.body # "json" THEN Answer(r, 400)
           ELSE Go(r, "body")

\* The events are charged before the adapter parses the batch.
ChargeBatch(r) ==
    LET w == Window(host[r].received)
    IN  /\ At(r, "body") /\ Quiet
        /\ counted' = [counted EXCEPT ![w] = @ + 1]
        /\ UNCHANGED <<unauth, requests, reservations>>
        /\ IF counted'[w] > EventLimit \/ requests[w] > RequestLimit THEN Answer(r, 429) ELSE Go(r, "events")
ChargeEvents(r) ==
    LET w == Window(host[r].received)
        n == Len(host[r].batch.events)
    IN  /\ At(r, "body") /\ Quiet
        /\ counted' = [counted EXCEPT ![w] = @ + (IF n = 0 THEN 1 ELSE n)]
        /\ UNCHANGED <<unauth, requests, reservations>>
        /\ IF counted'[w] > EventLimit \/ requests[w] > RequestLimit THEN Answer(r, 429)
           ELSE IF n = 0 THEN Answer(r, 400)
           ELSE Go(r, "events")

Current(r) == host[r].batch.events[Len(host[r].results) + 1]

\* The result of one event; the last one completes the acknowledgement, and
\* the signals of rejected events cannot change it.
Finish(r, result) ==
    LET results == Append(host[r].results, result)
    IN  host' = [host EXCEPT ![r] =
            IF Len(results) < Len(@.batch.events) THEN [@ EXCEPT !.results = results]
            ELSE [stage |-> "answered", status |-> 202, batch |-> @.batch, results |-> results]]

\* The adapter cannot normalize the event: only this event is rejected.
RejectEvent(r) ==
    /\ At(r, "events") /\ ~Current(r).normal
    /\ Finish(r, "rejected") /\ Unlimited /\ Quiet

PersistEvent(r) ==
    /\ At(r, "events") /\ Current(r).normal
    /\ \E answer \in Positioned \cup {"health_only", "duplicate", "duplicate_conflict", "rejected"} :
           Persist(Current(r), host[r].received, answer) /\ Finish(r, answer)
    /\ UNCHANGED <<now, history, ended, rival, limits, sends, troubles>>

\* The call raises: the device or its credential is no longer good.
PersistRaises(r) ==
    /\ At(r, "events") /\ Current(r).normal
    /\ ~Eligible(host[r].received)
    /\ Answer(r, 503) /\ Unlimited /\ Quiet

\* A call fails, or the 8 seconds of the request or the 7 of a call are over,
\* before the database has done anything.
Fail(r) ==
    /\ host[r].stage \notin {"idle", "answered"} /\ troubles < MaxTroubles
    /\ troubles' = troubles + 1
    /\ Answer(r, IF At(r, "verify") THEN 401 ELSE 503)
    /\ UNCHANGED <<now, world, evidence, limits, sends>>

\* The same after the database has committed: nobody hears of it.
LoseAnswer(r) ==
    /\ troubles < MaxTroubles /\ troubles' = troubles + 1
    /\ \/ At(r, "reserve") /\ Reserved(r) /\ Answer(r, 503) /\ UNCHANGED <<world, evidence>>
       \/ At(r, "verify") /\ Verified(r) /\ Answer(r, 401) /\ UNCHANGED <<world, evidence>>
       \/ /\ At(r, "events") /\ Current(r).normal
          /\ \E answer \in Positioned \cup {"health_only", "duplicate", "duplicate_conflict", "rejected"} :
                 Persist(Current(r), host[r].received, answer)
          /\ Answer(r, 503) /\ Unlimited /\ UNCHANGED <<history, ended, rival>>
    /\ UNCHANGED <<now, sends>>

(***************************************************************************)
(* The work day, with the triggers that keep its history and stop its       *)
(* physical sessions, and what else may end the device's authority.        *)
(***************************************************************************)
LastRunning == CHOOSE row \in DOMAIN history :
    /\ history[row].status = "running"
    /\ \A later \in DOMAIN history : later > row => history[later].status # "running"

SessionsTakingStatus(status) ==
    [row \in DOMAIN sessions |->
        IF sessions[row].status = "running" THEN [sessions[row] EXCEPT !.status = status] ELSE sessions[row]]
SessionsOn(status) ==
    CASE status = "on_break" ->
            [sessions EXCEPT ![LastRunning].status = IF @ = "none" THEN @ ELSE "paused"]
      [] status = "completed" ->
            [row \in DOMAIN sessions |->
                IF sessions[row].status \in {"running", "paused"}
                THEN [sessions[row] EXCEPT !.status = "completed"] ELSE sessions[row]]
      [] OTHER -> sessions

\* start, break, resume and end; transitions take different instants.
MoveDay(status) ==
    LET last == history[Len(history)]
    IN  /\ <<last.status, status>> \in {<<"ready", "running">>, <<"running", "on_break">>,
                <<"on_break", "running">>, <<"running", "completed">>, <<"on_break", "completed">>}
        /\ now > last.from
        /\ history' = Append(history, [status |-> status, from |-> now])
        /\ sessions' = Append(SessionsOn(status), NoSession)
        /\ UNCHANGED <<now, device, ended, rival, receipts, conflicts, highWater, limits,
                       host, sends, troubles>>

Change(w) ==
    /\ troubles < MaxTroubles /\ troubles' = troubles + 1 /\ w
    /\ UNCHANGED <<now, history, evidence, limits, host, sends>>

EndAuthority(a) ==
    Change(ended[a] = Never /\ ended' = [ended EXCEPT ![a] = now] /\ UNCHANGED <<device, rival>>)
AssignElsewhere == Change(rival = Never /\ rival' = now /\ UNCHANGED <<device, ended>>)
SuspendDevice == Change(device' = [device EXCEPT !.active = FALSE] /\ UNCHANGED <<ended, rival>>)
\* A revoked credential ends now, a rotated one after the overlap.
EndCredential(at) ==
    Change(/\ at < device.credentialEnd
           /\ device' = [device EXCEPT !.credentialEnd = at] /\ UNCHANGED <<ended, rival>>)

Tick ==
    /\ now < MaxTime /\ now' = now + 1
    /\ UNCHANGED <<world, evidence, limits, host, sends, troubles>>

HostStep(r) ==
    \/ Reserve(r) \/ Verify(r) \/ ChargeRequest(r) \/ ChargeEvents(r)
    \/ RejectEvent(r) \/ PersistEvent(r) \/ PersistRaises(r)

World ==
    \/ Tick \/ AssignElsewhere \/ SuspendDevice
    \/ \E a \in Authority : EndAuthority(a)
    \/ \E at \in {now, now + Overlap} : EndCredential(at)
    \/ \E status \in {"running", "on_break", "completed"} : MoveDay(status)

Next ==
    \/ \E r \in Request : HostStep(r) \/ Fail(r) \/ LoseAnswer(r) \/ \E b \in Batches : Send(r, b)
    \/ World

Spec == Init /\ [][Next]_vars

(***************************************************************************)
(* Properties.                                                             *)
(***************************************************************************)
Capture == INSTANCE CaptureWindow

TypeOK ==
    /\ now \in 0..MaxTime
    /\ device \in [active : BOOLEAN, gpsReady : BOOLEAN, credentialEnd : Nat]
    /\ \A row \in DOMAIN history : history[row].from \in 0..now
    /\ DOMAIN sessions = DOMAIN history
    /\ \A row \in DOMAIN sessions :
           sessions[row] \in [status : {"none", "running", "paused", "stopped", "completed"}, points : Nat]
    /\ \A w \in Windows : unauth[w] \in Nat /\ requests[w] \in Nat /\ counted[w] \in Nat

\* Evidence is stored once: no two receipts share an identity or a place in
\* a stream, and a session counts each of its points once, however often a
\* request is repeated.
StoredOnce ==
    /\ \A x, y \in receipts :
           x.id = y.id \/ (x.sequence # NoSequence /\ <<x.epoch, x.sequence>> = <<y.epoch, y.sequence>>)
           => x = y
    /\ \A row \in DOMAIN sessions :
           sessions[row].points = Cardinality({x \in receipts : x.row = row})

\* A stored position was captured while the work ran, the device was on the
\* vehicle, the vehicle belonged to this work and the credential was good,
\* whatever happened between the request's arrival and its transaction.  Only a clock that runs ahead
\* may date a point after the end.
OnlyDuringWork ==
    \A x \in receipts : x.row # 0 =>
        LET latest == IF x.captured < x.received THEN x.captured ELSE x.received
        IN  /\ history[x.row].status = "running"
            /\ history[x.row].from <= x.captured /\ latest <= Until(x.row)
            /\ \A a \in Authority : latest <= ended[a]
            /\ latest <= rival /\ x.received <= device.credentialEnd

\* The high water mark of a stream is its newest sequence that was not
\* rejected, also when events arrive out of order or at the same time.
HighWaterIsNewest ==
    \A e \in DOMAIN highWater :
        LET seen == {x.sequence : x \in {x \in receipts : x.epoch = e /\ x.disposition # "rejected"}}
        IN  /\ \A s \in seen : s <= highWater[e]
            /\ highWater[e] # NoSequence => highWater[e] \in seen

\* The rate limits bound what one window stores, and how many requests of a
\* window may fail to authenticate.
LimitsHold ==
    \A w \in Windows :
        /\ Cardinality({x \in receipts : Window(x.received) = w}) <= EventLimit
        /\ Cardinality({v \in reservations : v.window = w /\ ~v.refunded}) <= UnauthLimit

\* What the device was told of an event is so: accepted and duplicate mean
\* that this content is stored (under its identity or at its place in the
\* stream), conflict that other content is.
AnswerHolds(e, result) ==
    /\ result \in Positioned \cup {"health_only"} =>
           \E x \in receipts : x.id = e.id /\ x.content = e.content /\ x.disposition = result
    /\ result = "duplicate" => \E x \in SameEvent(e) \cup SameSequence(e) : x.content = e.content
    /\ result = "duplicate_conflict" =>
           \E x \in SameEvent(e) \cup SameSequence(e) : <<x.id, e.content>> \in conflicts /\ x.content # e.content

AnswersAreTrue ==
    \A r \in Request : "results" \in DOMAIN host[r] =>
        \A i \in DOMAIN host[r].results : AnswerHolds(host[r].batch.events[i], host[r].results[i])

\* The database decides what the shared contract decides of the actual work
\* time; only a break lets it call delayed what the contract calls live.
WorkStart == history[2].from
ContractDecision(e, received) ==
    Capture!Decide(
        [captured |-> e.captured, received |-> received, started |-> WorkStart,
         ended |-> ActualEnd # Never, end |-> ActualEnd, identified |-> TRUE,
         evidence |-> [k \in Capture!EvidenceKinds |-> "valid"]],
        [live |-> Live, backfill |-> Backfill, skew |-> Skew]).disposition

DatabaseAgreesWithContract ==
    \A r \in Request : At(r, "events") =>
        LET e == Current(r)
            received == host[r].received
            decided == ContractDecision(e, received)
        IN  e.location /\ ~Stale(e) /\ Resolution(e.captured) = "valid" =>
                IF decided = "rejected" THEN Disposition(e, received) \notin Positioned
                ELSE \/ Disposition(e, received) = decided
                     \/ Disposition(e, received) = "accepted_delayed" /\ received > Until(RowOf(e))

\* A session is shown running on a row that is over only because live
\* evidence had reached the host before the row ended; delayed evidence never
\* opens a session again.
OnlyLateLiveReopens ==
    \A row \in DOMAIN sessions :
        sessions[row].status = "running" /\ Until(row) # Never =>
            \E x \in receipts : /\ x.row = row /\ x.disposition = "accepted_live"
                                /\ x.received <= Until(row)

\* The mark of a stream never goes back and a conflict is never forgotten.
EvidenceOnlyGrows ==
    [][/\ receipts \subseteq receipts' /\ conflicts \subseteq conflicts'
       /\ \A e \in DOMAIN highWater : highWater'[e] >= highWater[e]]_vars

\* However often the device repeats a request, each event counts once.
Once == INSTANCE EvidenceOnce WITH
            stored <- {x.id : x \in receipts},
            points <- [row \in DOMAIN sessions |-> sessions[row].points]
ImplementsEvidenceOnce == Once!Spec
=============================================================================
