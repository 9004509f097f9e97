----------------------------- MODULE MutationReplay -----------------------------
(***************************************************************************)
(* Payment and schedule changes of one Ad Work (M28): each admin works in  *)
(* a page that shows a snapshot, and sends changes with the version the    *)
(* snapshot has; the database applies a change once, and recognises a      *)
(* request it has already applied by actor, type, expected version and a   *)
(* hash of the arguments.                                                  *)
(*                                                                         *)
(* Every function of the database takes the lock m21-authority-global      *)
(* first, so a request is one step of it.  A failing function raises, and  *)
(* its transaction leaves nothing behind, not even the claimed row of      *)
(* m28_mutation_operations: only completed operations are visible.  The    *)
(* page applies an answer only if no later request was sent since          *)
(* (requestSequence): request holds that one, late those given up which    *)
(* the database may still receive.                                         *)
(***************************************************************************)
EXTENDS Integers, FiniteSets

CONSTANTS
    Admin,
    Change,      \* contents of a change: what request_hash tells apart
    Type,        \* the mutation types in use
    Contents,    \* the contents a change of each type may have
    PageSize,    \* limit of a page of history (20)
    MaxVersion,  \* bound on each version
    MaxLate,     \* bound on requests given up and still under way
    NoView, NoRequest

PlanningTypes == {"initial_schedule", "day_schedule"}
ScheduleTypes == {"whole_reschedule", "day_reschedule", "cancel"}
MutationTypes == {"payment_update"} \cup PlanningTypes \cup ScheduleTypes

ASSUME TypeAssumption == Type \subseteq MutationTypes /\ Contents \in [Type -> SUBSET Change]
ASSUME BoundAssumption == PageSize \in Nat \ {0} /\ MaxLate \in Nat
ASSUME VersionAssumption == MaxVersion \in [{"commercial", "schedule"} -> Nat]

Counter == {"commercial", "schedule"}
CounterOf(t) == IF t = "payment_update" THEN "commercial" ELSE "schedule"
Versions == 0 .. (IF MaxVersion["commercial"] > MaxVersion["schedule"]
                  THEN MaxVersion["commercial"] ELSE MaxVersion["schedule"])
Snapshots == [Counter -> Versions]

Outcome == {"replayed", "conflict", "refused", "applied"}
Stage == {"planning", "live", "closed", "cancelled"}

VARIABLES
    \* the database
    stage,       \* how far the Ad Work has come: its status columns
    version,     \* commercial_version and schedule_version
    events,      \* commercial and schedule event rows, audit rows of planning changes
    operations,  \* m28_mutation_operations
    \* the pages
    view,        \* versions of the snapshot shown, NoView before the first
    shown,       \* versions of the history rows shown
    request,     \* the request whose answer will be applied
    \* the network
    late

database == <<stage, version, events, operations>>
vars == <<database, view, shown, request, late>>

Mutations == [admin : Admin, type : Type, expected : Versions, change : Change]
Answers == [kind : {"none", "ok", "conflict", "refused"}, snapshot : Snapshots]

Requests == [kind : {"snapshot"}, answer : Answers]
            \cup [kind : {"older"}, answer : Answers, counter : Counter, before : Versions]
            \cup [kind : {"mutation"}, answer : Answers, mutation : Mutations,
                  since : Snapshots]

TypeOK ==
    /\ stage \in Stage
    /\ version \in Snapshots
    /\ events \subseteq [counter : Counter, version : Versions, admin : Admin,
                         type : Type, change : Change]
    /\ operations \subseteq [admin : Admin, type : Type, expected : Versions,
                             change : Change, response : Snapshots]
    /\ view \in [Admin -> Snapshots \cup {NoView}]
    /\ shown \in [Admin -> [Counter -> SUBSET Versions]]
    /\ request \in [Admin -> Requests \cup {NoRequest}]
    /\ late \subseteq Mutations

\* A new Ad Work; nobody has opened it.
Init ==
    /\ stage = "planning"
    /\ version = [c \in Counter |-> 0]
    /\ events = {} /\ operations = {}
    /\ view = [a \in Admin |-> NoView]
    /\ shown = [a \in Admin |-> [c \in Counter |-> {}]]
    /\ request = [a \in Admin |-> NoRequest]
    /\ late = {}

--------------------------------------------------------------------------------
\* The database.

\* The row a request finds: m28_claim_replay_v1 inserts one unless it is there.
Claimed(m) == {o \in operations : /\ o.admin = m.admin
                                  /\ o.type = m.type
                                  /\ o.expected = m.expected}

\* Mutant of Replays: the hash is not compared.
ReplaysAnyHash(m) == Claimed(m) # {}
\* The row has the hash of this request, and a response.
Replays(m) == \E o \in Claimed(m) : o.change = m.change

\* Mutant of Conflicts: the version is not compared.
ConflictsByKeyOnly(m) == \E o \in Claimed(m) : o.change # m.change
\* 40001: another request under the same identity, or a version that has moved on.
Conflicts(m) ==
    \/ \E o \in Claimed(m) : o.change # m.change
    \/ Claimed(m) = {} /\ m.expected # version[CounterOf(m.type)]

\* The guards that follow the version check.
Permits(t) ==
    CASE t = "payment_update" -> stage # "closed"
      [] t \in PlanningTypes -> /\ stage = "planning"
                                /\ \A e \in events : e.type \notin ScheduleTypes
      [] OTHER -> stage \in {"planning", "live"}

NextVersion(c) == version[c] + 1

\* The change, its history row and its receipt, in one transaction.
Apply(m) ==
    LET c == CounterOf(m.type)
    IN  /\ NextVersion(c) <= MaxVersion[c]
        /\ version' = [version EXCEPT ![c] = NextVersion(c)]
        /\ events' = events \cup {[counter |-> c, version |-> NextVersion(c),
                                   admin |-> m.admin, type |-> m.type,
                                   change |-> m.change]}
        /\ operations' = operations \cup
              {[admin |-> m.admin, type |-> m.type, expected |-> m.expected,
                change |-> m.change, response |-> version']}
        /\ stage' = IF m.type = "cancel" THEN "cancelled" ELSE stage

\* Mutant of ReplaySnapshot: the recorded response as it is, the code before
\* 20260822130000.
RecordedSnapshot(m) == (CHOOSE o \in Claimed(m) : TRUE).response
\* The snapshot of an answer to a repeated request is built afresh.
ReplaySnapshot(m) == version

NoSnapshot == [c \in Counter |-> 0]
Answer(kind, snapshot) == [kind |-> kind, snapshot |-> snapshot]
NoAnswer == Answer("none", NoSnapshot)

\* How a call of an M28 function ends.  A schedule change may also be refused for the
\* execution status, days and dates of the work, which this module leaves out.
New(m) == ~Replays(m) /\ ~Conflicts(m)
Refuses(t) == ~Permits(t) \/ CounterOf(t) = "schedule"

Serve(m, out) ==
    \/ out = "replayed" /\ Replays(m) /\ UNCHANGED database
    \/ out = "conflict" /\ ~Replays(m) /\ Conflicts(m) /\ UNCHANGED database
    \/ out = "refused" /\ New(m) /\ Refuses(m.type) /\ UNCHANGED database
    \/ out = "applied" /\ New(m) /\ Permits(m.type) /\ Apply(m)

\* Mutant of AnswerTo: a recognised request gets an envelope of its own.
AnswerWithOutcome(m, out) ==
    CASE out = "replayed" -> Answer(out, ReplaySnapshot(m))
      [] out = "applied" -> Answer("ok", version')
      [] OTHER -> Answer(out, NoSnapshot)
AnswerTo(m, out) ==
    CASE out = "replayed" -> Answer("ok", ReplaySnapshot(m))
      [] out = "applied" -> Answer("ok", version')
      [] OTHER -> Answer(out, NoSnapshot)

\* The rows a page of history lists: planning changes are only in the audit log.
Listed(c, before) ==
    {e.version : e \in {f \in events : /\ f.counter = c
                                       /\ f.type \notin PlanningTypes
                                       /\ f.version < before}}

\* Mutant of Newest: the rows in ascending order.
OldestRows(S) == {v \in S : Cardinality({w \in S : w < v}) < PageSize}
\* The newest PageSize of them.
Newest(S) == {v \in S : Cardinality({w \in S : v < w}) < PageSize}

--------------------------------------------------------------------------------
\* The page of an admin.

Busy(a) == request[a] # NoRequest

\* What becomes of the current request when its answer will not be applied: a
\* change that the database has not seen may be lost or still arrive.
Abandon(a) ==
    \/ late' = late
    \/ /\ Busy(a) /\ request[a].kind = "mutation" /\ request[a].answer = NoAnswer
       /\ late' = late \cup {request[a].mutation}
       /\ Cardinality(late') <= MaxLate

AskSnapshot == [kind |-> "snapshot", answer |-> NoAnswer]

\* loadSnapshot: opening the Ad Work, or Refresh.
Load(a) ==
    /\ ~Busy(a)
    /\ request' = [request EXCEPT ![a] = AskSnapshot]
    /\ UNCHANGED <<database, view, shown, late>>

\* The effect on a renewed access token: whatever is under way is superseded.
Renew(a) ==
    /\ Busy(a)
    /\ Abandon(a)
    /\ request' = [request EXCEPT ![a] = AskSnapshot]
    /\ UNCHANGED <<database, view, shown>>

\* Another Ad Work or another page is opened.
Leave(a) ==
    /\ view[a] # NoView \/ Busy(a)
    /\ Abandon(a)
    /\ view' = [view EXCEPT ![a] = NoView]
    /\ shown' = [shown EXCEPT ![a] = [c \in Counter |-> {}]]
    /\ request' = [request EXCEPT ![a] = NoRequest]
    /\ UNCHANGED database

\* savePayment, rescheduleWork, rescheduleDay, cancelWork.  Only the properties look
\* at since, the versions when the request was sent.
Submit(a, t, ch) ==
    /\ ~Busy(a) /\ view[a] # NoView
    /\ t \notin PlanningTypes
    /\ request' = [request EXCEPT ![a] =
          [kind |-> "mutation", answer |-> NoAnswer, since |-> version,
           mutation |-> [admin |-> a, type |-> t, expected |-> view[a][CounterOf(t)],
                         change |-> ch]]]
    /\ UNCHANGED <<database, view, shown, late>>

\* loadOlderCommercialHistory, loadOlderScheduleHistory: nextBeforeVersion is the
\* oldest version shown.
LoadOlder(a, c) ==
    /\ ~Busy(a) /\ view[a] # NoView
    /\ \E oldest \in shown[a][c] :
          /\ \A v \in shown[a][c] : oldest <= v
          /\ Listed(c, oldest) # {}
          /\ request' = [request EXCEPT ![a] =
                [kind |-> "older", answer |-> NoAnswer, counter |-> c, before |-> oldest]]
    /\ UNCHANGED <<database, view, shown, late>>

\* The planning form sends the version of the row it loaded some time ago and
\* ignores the snapshot of the answer, so that its request, however long under
\* way, is one step with any version there has been.  Refused or recognised, it
\* changes nothing.
PlanningForm(a, t, ch, v) ==
    /\ t \in PlanningTypes /\ v <= version["schedule"]
    /\ Serve([admin |-> a, type |-> t, expected |-> v, change |-> ch], "applied")
    /\ UNCHANGED <<view, shown, request, late>>

\* The database answers.
ServeCurrent(a) ==
    /\ Busy(a) /\ request[a].answer = NoAnswer
    /\ IF request[a].kind = "mutation"
       THEN \E out \in Outcome :
               /\ Serve(request[a].mutation, out)
               /\ request' = [request EXCEPT ![a].answer =
                                 AnswerTo(request[a].mutation, out)]
       ELSE /\ request' = [request EXCEPT ![a].answer = Answer("ok", version)]
            /\ UNCHANGED database
    /\ UNCHANGED <<view, shown, late>>

\* A request the page has given up reaches the database after all.
ServeLate(m) ==
    /\ \E out \in Outcome : Serve(m, out)
    /\ late' = late \ {m}
    /\ UNCHANGED <<view, shown, request>>

\* Snapshot and history come in one answer.  History rows are never changed, so
\* they are read here.
ApplySnapshot(a, s) ==
    /\ view' = [view EXCEPT ![a] = s]
    /\ shown' = [shown EXCEPT ![a] = [c \in Counter |-> Newest(Listed(c, s[c] + 1))]]

\* The current answer arrives: runMutation, loadSnapshot, loadOlder...
Receive(a) ==
    /\ Busy(a) /\ request[a].answer # NoAnswer
    /\ request' = [request EXCEPT ![a] = NoRequest]
    /\ LET r == request[a]
       IN  IF r.answer.kind # "ok"
           THEN UNCHANGED <<view, shown>>
           ELSE IF r.kind = "older"
           THEN /\ shown' = [shown EXCEPT ![a][r.counter] =
                                @ \cup Newest(Listed(r.counter, r.before))]
                /\ view' = view
           ELSE ApplySnapshot(a, r.answer.snapshot)
    /\ UNCHANGED <<database, late>>

\* fetch fails: the page shows an error and keeps what it had.
Fail(a) ==
    /\ Busy(a)
    /\ Abandon(a)
    /\ request' = [request EXCEPT ![a] = NoRequest]
    /\ UNCHANGED <<database, view, shown>>

--------------------------------------------------------------------------------
\* Everything else that happens to the Ad Work leaves versions and history alone:
\* the guard triggers refuse other writes of those columns.

ChangeStage ==
    /\ \/ stage = "planning" /\ stage' = "live"               \* assigned, released, executed
       \/ stage = "live" /\ stage' \in {"planning", "closed"}  \* assignment undone; closed
       \/ stage = "closed" /\ stage' = "live"                 \* proof prepared once more
    /\ UNCHANGED <<version, events, operations, view, shown, request, late>>

Page(a) ==
    \/ Load(a) \/ Renew(a) \/ Leave(a) \/ Receive(a) \/ Fail(a) \/ ServeCurrent(a)
    \/ \E t \in Type : \E ch \in Contents[t] : Submit(a, t, ch)
    \/ \E c \in Counter : LoadOlder(a, c)
    \/ \E t \in Type, v \in Versions : \E ch \in Contents[t] : PlanningForm(a, t, ch, v)

Next == ChangeStage \/ (\E a \in Admin : Page(a)) \/ (\E m \in late : ServeLate(m))

Spec == Init /\ [][Next]_vars

--------------------------------------------------------------------------------
\* Properties.

Made(m) == [counter |-> CounterOf(m.type), version |-> m.expected + 1, admin |-> m.admin,
            type |-> m.type, change |-> m.change]

\* However often a change is sent, lost, delayed or repeated, each version up to
\* the current one was made by one change, and each change that was made left one
\* receipt to recognise its repetition by.
OneChangePerVersion ==
    /\ \A c \in Counter :
          {e.version : e \in {f \in events : f.counter = c}} = 1 .. version[c]
    /\ \A e, f \in events : e.counter = f.counter /\ e.version = f.version => e = f
    /\ events = {Made(o) : o \in operations}

\* What an admin is told is true: "ok" to a change means that very change is in the
\* history, "refresh and retry" that another one took its place, so that repeating
\* it, or its late arrival, can have no effect any more.
AnswerIsTrue(r) ==
    r.kind = "mutation" =>
       /\ r.answer.kind = "ok" => Made(r.mutation) \in events
       /\ r.answer.kind = "conflict" =>
             \E e \in events : /\ e.counter = CounterOf(r.mutation.type)
                               /\ e.version = r.mutation.expected + 1
                               /\ e # Made(r.mutation)
AnswersAreTrue == \A a \in Admin : Busy(a) => AnswerIsTrue(request[a])

\* The history on the page has no hole: between its oldest row and the snapshot's
\* version every row of the table is shown, and none newer than the snapshot.
NoHole(vs, rows) == vs \subseteq rows /\ \A v \in vs, w \in rows : v <= w => w \in vs
HistoryHasNoHole ==
    \A a \in Admin, c \in Counter :
       view[a] # NoView => NoHole(shown[a][c], Listed(c, view[a][c] + 1))

\* An admin never sees the Ad Work go back in time: a snapshot about to be shown is
\* not older than the one on the page, and after a change, applied now or recognised
\* from an earlier attempt, it hides nothing that was there when the admin sent it.
NotOlder(s, t) == \A c \in Counter : t[c] <= s[c]
SnapshotIsFresh(r, v) ==
    r.answer.kind = "ok" =>
       /\ r.kind # "older" /\ v # NoView => NotOlder(r.answer.snapshot, v)
       /\ r.kind = "mutation" => NotOlder(r.answer.snapshot, r.since)
SnapshotsAreFresh == \A a \in Admin : Busy(a) => SnapshotIsFresh(request[a], view[a])

================================================================================
