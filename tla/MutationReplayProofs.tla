-------------------------- MODULE MutationReplayProofs --------------------------
(***************************************************************************)
(* Theorems about MutationReplay, for any admins, contents, page size and  *)
(* bounds.                                                                 *)
(***************************************************************************)
EXTENDS MutationReplay, FiniteSetTheorems, TLAPS

--------------------------------------------------------------------------------
\* The inductive invariant.

\* A page knows of versions that exist, and a request for older history continues
\* the rows that are on the page.
RequestFits(r, v, rows) ==
    /\ r.answer.kind = "ok" => NotOlder(version, r.answer.snapshot)
    /\ r.kind = "mutation" => /\ r.mutation.expected <= version[CounterOf(r.mutation.type)]
                              /\ NotOlder(version, r.since)
    /\ r.kind = "older" => /\ v # NoView /\ r.before \in rows[r.counter]
                           /\ \A w \in rows[r.counter] : r.before <= w

PageOK(a) ==
    /\ view[a] # NoView => /\ NotOlder(version, view[a])
                           /\ \A c \in Counter :
                                 NoHole(shown[a][c], Listed(c, view[a][c] + 1))
    /\ Busy(a) => /\ RequestFits(request[a], view[a], shown[a])
                  /\ AnswerIsTrue(request[a])
                  /\ SnapshotIsFresh(request[a], view[a])

LateFits == \A m \in late : m.expected <= version[CounterOf(m.type)]

ReplayInv ==
    /\ TypeOK /\ OneChangePerVersion /\ LateFits
    /\ \A a \in Admin : PageOK(a)

DatabaseTyped ==
    /\ stage \in Stage /\ version \in Snapshots
    /\ events \subseteq [counter : Counter, version : Versions, admin : Admin,
                         type : Type, change : Change]
    /\ operations \subseteq [admin : Admin, type : Type, expected : Versions,
                             change : Change, response : Snapshots]

\* What every step of the database leaves true of what a page knows.
Grows ==
    /\ events \subseteq events' /\ NotOlder(version', version)
    /\ \A c \in Counter, n \in Nat :
          n <= version[c] + 1 => Listed(c, n)' = Listed(c, n)

--------------------------------------------------------------------------------
\* The database.

LEMMA VersionsAreNat ==
    /\ Versions \subseteq Nat
    /\ \A c \in Counter, n \in Nat : n <= MaxVersion[c] => n \in Versions
BY VersionAssumption DEF Versions, Counter

LEMMA CounterOfTyped == \A t : CounterOf(t) \in Counter
BY DEF CounterOf, Counter

\* A request of a known version either makes the next version, or another change has
\* made it, or this very change has.
LEMMA ConflictMeansOther ==
    ASSUME TypeOK, OneChangePerVersion, NEW m \in Mutations,
           m.expected <= version[CounterOf(m.type)], ~Replays(m), Conflicts(m)
    PROVE  \E e \in events : /\ e.counter = CounterOf(m.type)
                             /\ e.version = m.expected + 1 /\ e # Made(m)
<1> DEFINE c == CounterOf(m.type)
<1>1. CASE \E o \in Claimed(m) : o.change # m.change
  <2>1. PICK o \in Claimed(m) : o.change # m.change
    BY <1>1
  <2>2. Made(o) \in events
    BY <2>1 DEF OneChangePerVersion, Claimed
  <2>3. Made(o).counter = c /\ Made(o).version = m.expected + 1 /\ Made(o) # Made(m)
    <3>1. o.type = m.type /\ o.expected = m.expected
      BY DEF Claimed
    <3>2. Made(o).change # Made(m).change
      BY <2>1 DEF Made
    <3> QED
      BY <3>1, <3>2 DEF Made
  <2> QED
    BY <2>2, <2>3
<1>2. CASE Claimed(m) = {} /\ m.expected # version[c]
  <2>1. m.expected \in Nat /\ version[c] \in Nat /\ m.expected < version[c]
    <3>1. c \in Counter
      BY CounterOfTyped
    <3>2. m.expected \in Nat /\ version[c] \in Nat
      BY <3>1, VersionsAreNat DEF TypeOK, Mutations, Snapshots
    <3> QED
      BY <1>2, <3>2
  <2>2. m.expected + 1 \in 1 .. version[c]
    BY <2>1
  <2>3. PICK e \in events : e.counter = c /\ e.version = m.expected + 1
    BY <2>2, CounterOfTyped DEF OneChangePerVersion
  <2>4. e # Made(m)
    <3> SUFFICES ASSUME e = Made(m) PROVE FALSE
      OBVIOUS
    <3>1. PICK o \in operations : e = Made(o)
      BY DEF OneChangePerVersion
    <3>2. Made(o) = Made(m)
      BY <3>1
    <3>3. /\ Made(o).admin = Made(m).admin /\ Made(o).type = Made(m).type
          /\ Made(o).version = Made(m).version
      BY <3>2
    <3>4. o.admin = m.admin /\ o.type = m.type /\ o.expected + 1 = m.expected + 1
      BY <3>3 DEF Made
    <3>5. o.expected = m.expected
      <4>1. o.expected \in Versions
        BY DEF TypeOK
      <4>2. o.expected \in Nat
        BY <4>1, VersionsAreNat
      <4> QED
        BY <2>1, <3>4, <4>2
    <3> QED
      BY <1>2, <3>4, <3>5 DEF Claimed
  <2> QED
    BY <2>3, <2>4
<1> QED
    BY <1>1, <1>2 DEF Conflicts

LEMMA ApplyKeeps ==
    ASSUME TypeOK, OneChangePerVersion, NEW m \in Mutations, New(m), Apply(m)
    PROVE  /\ DatabaseTyped' /\ OneChangePerVersion' /\ Grows
           /\ Made(m) \in events'
<1> DEFINE c == CounterOf(m.type)
           row == [counter |-> c, version |-> version[c] + 1, admin |-> m.admin,
                   type |-> m.type, change |-> m.change]
           op == [admin |-> m.admin, type |-> m.type, expected |-> m.expected,
                  change |-> m.change, response |-> version']
<1>1. /\ c \in Counter /\ version[c] \in Nat /\ version[c] + 1 \in Versions
      /\ version' = [version EXCEPT ![c] = version[c] + 1]
      /\ events' = events \cup {row} /\ operations' = operations \cup {op}
      /\ stage' = IF m.type = "cancel" THEN "cancelled" ELSE stage
  <2>1. c \in Counter
    BY CounterOfTyped
  <2>2. version[c] \in Nat
    BY <2>1, VersionsAreNat DEF TypeOK, Snapshots
  <2>3. version[c] + 1 <= MaxVersion[c]
    BY DEF Apply, NextVersion
  <2>4. version[c] + 1 \in Versions
    BY <2>1, <2>2, <2>3, VersionsAreNat
  <2> QED
    BY <2>1, <2>2, <2>4 DEF Apply, NextVersion
<1>2. m.expected = version[c]
  <2>1. Claimed(m) = {}
    BY DEF New, Replays, Conflicts
  <2> QED
    BY <2>1 DEF New, Conflicts
<1>3. version' \in Snapshots /\ stage' \in Stage
    BY <1>1 DEF TypeOK, Snapshots, Stage
<1>4. row \in [counter : Counter, version : Versions, admin : Admin, type : Type,
               change : Change]
    BY <1>1 DEF Mutations
<1>5. op \in [admin : Admin, type : Type, expected : Versions, change : Change,
              response : Snapshots]
    BY <1>3 DEF Mutations
<1>6. Made(m) = row /\ Made(op) = row
    BY <1>2 DEF Made
<1>7. \A d \in Counter : version'[d] = IF d = c THEN version[c] + 1 ELSE version[d]
    BY <1>1 DEF TypeOK, Snapshots
<1>8. ASSUME NEW e \in events
      PROVE  e.counter \in Counter /\ e.version \in 1 .. version[e.counter]
    BY DEF OneChangePerVersion, TypeOK
<1>9. OneChangePerVersion'
  <2>1. ASSUME NEW d \in Counter
        PROVE  {e.version : e \in {f \in events' : f.counter = d}} = 1 .. version'[d]
    <3>1. {e.version : e \in {f \in events : f.counter = d}} = 1 .. version[d]
      BY DEF OneChangePerVersion
    <3>2. version[d] \in Nat
      BY VersionsAreNat DEF TypeOK, Snapshots
    <3>3. CASE d = c
      <4>1. {e.version : e \in {f \in events' : f.counter = d}}
            = {e.version : e \in {f \in events : f.counter = d}} \cup {row.version}
        BY <1>1, <3>3
      <4>2. (1 .. version[d]) \cup {version[d] + 1} = 1 .. (version[d] + 1)
        BY <3>2
      <4> QED
        BY <1>7, <3>1, <3>3, <4>1, <4>2
    <3>4. CASE d # c
      <4>1. {f \in events' : f.counter = d} = {f \in events : f.counter = d}
        BY <1>1, <3>4
      <4> QED
        BY <1>7, <3>1, <3>4, <4>1
    <3> QED
      BY <3>3, <3>4
  <2>2. \A e, f \in events' : e.counter = f.counter /\ e.version = f.version => e = f
    <3>1. \A e \in events : ~(e.counter = row.counter /\ e.version = row.version)
      BY <1>1, <1>8
    <3>2. \A e, f \in events : e.counter = f.counter /\ e.version = f.version => e = f
      BY DEF OneChangePerVersion
    <3> QED
      BY <1>1, <3>1, <3>2
  <2>3. events' = {Made(o) : o \in operations'}
    BY <1>1, <1>6 DEF OneChangePerVersion
  <2> QED
    BY <2>1, <2>2, <2>3 DEF OneChangePerVersion
<1>10. Grows
  <2>1. ASSUME NEW d \in Counter
        PROVE  version[d] \in Nat /\ version[d] <= version'[d]
    <3>1. version[d] \in Nat
      BY VersionsAreNat DEF TypeOK, Snapshots
    <3> QED
      BY <1>7, <3>1
  <2>2. ASSUME NEW d \in Counter, NEW n \in Nat, n <= version[d] + 1
        PROVE  Listed(d, n)' = Listed(d, n)
    <3>1. row.counter = d => ~(row.version < n)
      BY <1>1, <2>2
    <3>2. {f \in events' : /\ f.counter = d /\ f.type \notin PlanningTypes
                           /\ f.version < n}
          = {f \in events : /\ f.counter = d /\ f.type \notin PlanningTypes
                            /\ f.version < n}
      BY <1>1, <3>1
    <3> QED
      BY <3>2 DEF Listed
  <2> QED
    BY <1>1, <2>1, <2>2 DEF Grows, NotOlder
<1> QED
    BY <1>1, <1>3, <1>4, <1>5, <1>6, <1>9, <1>10 DEF TypeOK, DatabaseTyped

LEMMA UnchangedGrows ==
    ASSUME TypeOK, UNCHANGED database
    PROVE  Grows
<1>1. version' = version /\ events' = events
    BY DEF database
<1>2. \A c \in Counter : version[c] \in Nat
    BY VersionsAreNat DEF TypeOK, Snapshots
<1>3. \A c \in Counter : version[c] <= version'[c]
    BY <1>1, <1>2
<1> QED
    BY <1>1, <1>3 DEF Grows, Listed, NotOlder


LEMMA NotOlderTransitive ==
    ASSUME NEW s \in Snapshots, NEW t \in Snapshots, NEW u \in Snapshots,
           NotOlder(s, t), NotOlder(t, u)
    PROVE  NotOlder(s, u)
<1>1. \A c \in Counter : s[c] \in Nat /\ t[c] \in Nat /\ u[c] \in Nat
    BY VersionsAreNat DEF Snapshots
<1> QED
    BY <1>1 DEF NotOlder

\* One call of the database, and what its answer says.
LEMMA ServeKeeps ==
    ASSUME TypeOK, OneChangePerVersion, NEW m \in Mutations,
           m.expected <= version[CounterOf(m.type)], NEW out \in Outcome, Serve(m, out)
    PROVE  /\ DatabaseTyped' /\ OneChangePerVersion' /\ Grows
           /\ AnswerTo(m, out) \in Answers
           /\ AnswerTo(m, out).kind = "ok" =>
                 Made(m) \in events' /\ AnswerTo(m, out).snapshot = version'
           /\ AnswerTo(m, out).kind = "conflict" =>
                 \E e \in events' : /\ e.counter = CounterOf(m.type)
                                   /\ e.version = m.expected + 1 /\ e # Made(m)
<1>0. NoSnapshot \in Snapshots
  <2>1. 0 \in Versions
    BY VersionAssumption DEF Versions
  <2> QED
    BY <2>1 DEF NoSnapshot, Snapshots
<1>1. CASE out = "applied"
  <2>1. New(m) /\ Apply(m)
    BY <1>1 DEF Serve
  <2>2. /\ DatabaseTyped' /\ OneChangePerVersion' /\ Grows /\ Made(m) \in events'
    BY <2>1, ApplyKeeps
  <2>3. AnswerTo(m, out) = [kind |-> "ok", snapshot |-> version']
    BY <1>1 DEF AnswerTo, Answer
  <2>4. version' \in Snapshots
    BY <2>2 DEF DatabaseTyped
  <2>5. AnswerTo(m, out) \in Answers
    BY <2>3, <2>4 DEF Answers
  <2> QED
    BY <2>2, <2>3, <2>5
<1>2. CASE out # "applied"
  <2>1. UNCHANGED database
    BY <1>2 DEF Serve
  <2>2. DatabaseTyped' /\ OneChangePerVersion' /\ Grows
    <3>1. version' = version /\ stage' = stage /\ events' = events
          /\ operations' = operations
      BY <2>1 DEF database
    <3>2. DatabaseTyped' /\ OneChangePerVersion'
      BY <3>1 DEF DatabaseTyped, TypeOK, OneChangePerVersion, Made
    <3> QED
      BY <2>1, <3>2, UnchangedGrows
  <2>3. events' = events /\ version' = version
    BY <2>1 DEF database
  <2>4. CASE out = "replayed"
    <3>1. PICK o \in Claimed(m) : o.change = m.change
      BY <2>4 DEF Serve, Replays
    <3>2. Made(o) = Made(m) /\ o \in operations
      BY <3>1 DEF Claimed, Made
    <3>3. Made(m) \in events
      BY <3>2 DEF OneChangePerVersion
    <3>4. AnswerTo(m, out) = [kind |-> "ok", snapshot |-> version]
      BY <2>4 DEF AnswerTo, Answer, ReplaySnapshot
    <3>5. AnswerTo(m, out) \in Answers
      BY <3>4 DEF TypeOK, Answers
    <3> QED
      BY <2>2, <2>3, <3>3, <3>4, <3>5
  <2>5. CASE out = "conflict"
    <3>1. AnswerTo(m, out) = [kind |-> "conflict", snapshot |-> NoSnapshot]
      BY <2>5 DEF AnswerTo, Answer
    <3>2. ~Replays(m) /\ Conflicts(m)
      BY <2>5 DEF Serve
    <3>3. AnswerTo(m, out) \in Answers
      BY <1>0, <3>1 DEF Answers
    <3> QED
      BY <2>2, <2>3, <3>1, <3>2, <3>3, ConflictMeansOther
  <2>6. CASE out = "refused"
    <3>1. AnswerTo(m, out) = [kind |-> "refused", snapshot |-> NoSnapshot]
      BY <2>6 DEF AnswerTo, Answer
    <3>2. AnswerTo(m, out) \in Answers
      BY <1>0, <3>1 DEF Answers
    <3> QED
      BY <2>2, <3>1, <3>2
  <2> QED
    BY <1>2, <2>4, <2>5, <2>6 DEF Outcome
<1> QED
    BY <1>1, <1>2

--------------------------------------------------------------------------------
\* The pages.

LEMMA RequestTyped ==
    ASSUME TypeOK, NEW a \in Admin, Busy(a)
    PROVE  /\ request[a] \in Requests /\ request[a].answer \in Answers
           /\ request[a].answer.snapshot \in Snapshots
           /\ request[a].kind = "mutation" => /\ request[a].mutation \in Mutations
                                              /\ request[a].since \in Snapshots
           /\ request[a].kind = "older" => /\ request[a].counter \in Counter
                                           /\ request[a].before \in Versions
<1>1. request[a] \in Requests
    BY DEF TypeOK, Busy
<1> QED
    BY <1>1 DEF Requests, Answers

\* Versions only grow and history below them stays, so what is shown stays right.
LEMMA GrownView ==
    ASSUME TypeOK, DatabaseTyped', Grows, NEW a \in Admin, PageOK(a),
           view[a] # NoView, view'[a] = view[a], shown'[a] = shown[a]
    PROVE  /\ NotOlder(version', view[a])
           /\ \A c \in Counter : NoHole(shown[a][c], Listed(c, view[a][c] + 1)')
<1>1. version \in Snapshots /\ version' \in Snapshots /\ NotOlder(version', version)
    BY DEF TypeOK, DatabaseTyped, Grows
<1>2. view[a] \in Snapshots /\ NotOlder(version, view[a])
    BY DEF TypeOK, PageOK
<1>3. NotOlder(version', view[a])
    BY <1>1, <1>2, NotOlderTransitive
<1>4. ASSUME NEW c \in Counter
      PROVE  Listed(c, view[a][c] + 1)' = Listed(c, view[a][c] + 1)
  <2>1. view[a][c] \in Nat /\ version[c] \in Nat /\ view[a][c] <= version[c]
    BY <1>1, <1>2, VersionsAreNat DEF Snapshots, NotOlder
  <2>2. view[a][c] + 1 \in Nat /\ view[a][c] + 1 <= version[c] + 1
    BY <2>1
  <2>3. \A n \in Nat : n <= version[c] + 1 => Listed(c, n)' = Listed(c, n)
    BY DEF Grows
  <2> QED
    BY <2>2, <2>3 DEF Listed
<1> QED
    BY <1>3, <1>4 DEF PageOK

\* The versions a request was made from are not newer than those of the database.
LEMMA GrownRequest ==
    ASSUME TypeOK, DatabaseTyped', Grows, NEW a \in Admin, PageOK(a), Busy(a),
           request[a].kind = "mutation"
    PROVE  /\ NotOlder(version', request[a].since)
           /\ request[a].mutation.expected
                 <= version'[CounterOf(request[a].mutation.type)]
<1> DEFINE r == request[a]
           c == CounterOf(r.mutation.type)
<1>1. version \in Snapshots /\ version' \in Snapshots /\ NotOlder(version', version)
    BY DEF TypeOK, DatabaseTyped, Grows
<1>2. r.mutation \in Mutations /\ r.since \in Snapshots /\ c \in Counter
    BY RequestTyped, CounterOfTyped
<1>3. NotOlder(version, r.since) /\ r.mutation.expected <= version[c]
    BY DEF PageOK, RequestFits
<1>4. version[c] \in Nat /\ version'[c] \in Nat /\ version[c] <= version'[c]
    BY <1>1, <1>2, VersionsAreNat DEF Snapshots, NotOlder
<1>5. r.mutation.expected \in Nat
    BY <1>2, VersionsAreNat DEF Mutations
<1> QED
    BY <1>1, <1>2, <1>3, <1>4, <1>5, NotOlderTransitive

\* A page that a step leaves alone keeps what holds of it.
LEMMA IdlePage ==
    ASSUME TypeOK, DatabaseTyped', Grows, NEW a \in Admin, PageOK(a),
           view'[a] = view[a], shown'[a] = shown[a], request'[a] = request[a]
    PROVE  PageOK(a)'
<1>1. version \in Snapshots /\ version' \in Snapshots /\ NotOlder(version', version)
    BY DEF TypeOK, DatabaseTyped, Grows
<1>2. ASSUME Busy(a)
      PROVE  /\ RequestFits(request[a], view[a], shown[a])'
             /\ AnswerIsTrue(request[a])' /\ SnapshotIsFresh(request[a], view[a])'
  <2> DEFINE r == request[a]
  <2>1. RequestFits(r, view[a], shown[a]) /\ AnswerIsTrue(r)
        /\ SnapshotIsFresh(r, view[a])
    BY <1>2 DEF PageOK
  <2>2. r.answer.kind = "ok" => NotOlder(version', r.answer.snapshot)
    BY <1>1, <1>2, <2>1, RequestTyped, NotOlderTransitive DEF RequestFits
  <2>3. r.kind = "mutation" => /\ NotOlder(version', r.since)
                               /\ r.mutation.expected <= version'[CounterOf(r.mutation.type)]
    BY <1>2, GrownRequest
  <2>4. RequestFits(r, view[a], shown[a])'
    BY <2>1, <2>2, <2>3 DEF RequestFits, NotOlder
  <2>5. AnswerIsTrue(r)'
    BY <2>1 DEF AnswerIsTrue, Grows, Made
  <2> QED
    BY <2>1, <2>4, <2>5 DEF SnapshotIsFresh, NotOlder
<1> QED
    BY <1>2, GrownView DEF PageOK, Busy

LEMMA LateGrows ==
    ASSUME TypeOK, LateFits, DatabaseTyped', Grows, late' \subseteq late
    PROVE  LateFits'
<1> SUFFICES ASSUME NEW m \in late' PROVE m.expected <= version'[CounterOf(m.type)]
    BY DEF LateFits
<1> DEFINE c == CounterOf(m.type)
<1>1. m \in Mutations /\ m.expected <= version[c] /\ c \in Counter
    BY CounterOfTyped DEF TypeOK, LateFits
<1>2. m.expected \in Nat /\ version[c] \in Nat /\ version'[c] \in Nat
    BY <1>1, VersionsAreNat DEF Mutations, TypeOK, DatabaseTyped, Snapshots
<1>3. version[c] <= version'[c]
    BY <1>1 DEF Grows, NotOlder
<1> QED
    BY <1>1, <1>2, <1>3

LEMMA NoAnswerTyped == NoAnswer \in Answers /\ NoAnswer.kind = "none"
<1>1. 0 \in Versions
    BY VersionAssumption DEF Versions
<1> QED
    BY <1>1 DEF NoAnswer, NoSnapshot, Answer, Answers, Snapshots

\* A request without an answer claims nothing yet.
LEMMA UnansweredPage ==
    ASSUME NEW r, NEW v, r.answer.kind = "none"
    PROVE  AnswerIsTrue(r) /\ SnapshotIsFresh(r, v)
BY DEF AnswerIsTrue, SnapshotIsFresh

LEMMA AbandonKeeps ==
    ASSUME ReplayInv, NEW a \in Admin, Abandon(a)
    PROVE  /\ late' \subseteq Mutations
           /\ \A m \in late' : m.expected <= version[CounterOf(m.type)]
<1>1. late \subseteq Mutations /\ \A m \in late : m.expected <= version[CounterOf(m.type)]
    BY DEF ReplayInv, TypeOK, LateFits
<1>2. ASSUME Busy(a), request[a].kind = "mutation"
      PROVE  /\ request[a].mutation \in Mutations
             /\ request[a].mutation.expected
                <= version[CounterOf(request[a].mutation.type)]
    BY <1>2, RequestTyped DEF ReplayInv, PageOK, RequestFits
<1> QED
    BY <1>1, <1>2 DEF Abandon

\* A step of one page: what is to be shown of it, and that it suffices.
LEMMA PageStep ==
    ASSUME ReplayInv, UNCHANGED database, NEW a \in Admin,
           view' \in [Admin -> Snapshots \cup {NoView}],
           shown' \in [Admin -> [Counter -> SUBSET Versions]],
           request' \in [Admin -> Requests \cup {NoRequest}],
           late' \subseteq Mutations,
           \A m \in late' : m.expected <= version[CounterOf(m.type)],
           \A b \in Admin \ {a} : /\ view'[b] = view[b] /\ shown'[b] = shown[b]
                                  /\ request'[b] = request[b],
           PageOK(a)'
    PROVE  ReplayInv'
<1>1. /\ version' = version /\ stage' = stage /\ events' = events
      /\ operations' = operations
    BY DEF database
<1>2. TypeOK' /\ OneChangePerVersion' /\ LateFits' /\ DatabaseTyped'
    BY <1>1 DEF ReplayInv, TypeOK, DatabaseTyped, OneChangePerVersion, Made, LateFits
<1>3. Grows
    BY UnchangedGrows DEF ReplayInv
<1>4. \A b \in Admin : PageOK(b)'
    BY <1>2, <1>3, IdlePage DEF ReplayInv
<1> QED
    BY <1>2, <1>4 DEF ReplayInv

\* What is on the page stays there while a request replaces another.
LEMMA RequestStep ==
    ASSUME ReplayInv, UNCHANGED <<database, view, shown>>, NEW a \in Admin,
           NEW r \in Requests, request' = [request EXCEPT ![a] = r],
           r.answer = NoAnswer, RequestFits(r, view[a], shown[a]),
           late' \subseteq Mutations,
           \A m \in late' : m.expected <= version[CounterOf(m.type)]
    PROVE  ReplayInv'
<1>1. /\ request' \in [Admin -> Requests \cup {NoRequest}] /\ request'[a] = r
      /\ \A b \in Admin \ {a} : request'[b] = request[b]
    BY DEF ReplayInv, TypeOK
<1>2. version' = version /\ events' = events
    BY DEF database
<1>3. AnswerIsTrue(r)' /\ SnapshotIsFresh(r, view[a])'
    BY NoAnswerTyped DEF AnswerIsTrue, SnapshotIsFresh
<1>4. RequestFits(r, view[a], shown[a])'
    BY <1>2 DEF RequestFits, NotOlder
<1>5. view[a] # NoView => /\ NotOlder(version, view[a])'
                          /\ \A c \in Counter :
                                NoHole(shown[a][c], Listed(c, view[a][c] + 1))'
    BY <1>2 DEF ReplayInv, PageOK, NotOlder, Listed, NoHole
<1>6. PageOK(a)'
    BY <1>1, <1>3, <1>4, <1>5 DEF PageOK
<1> QED
    BY <1>1, <1>6, PageStep DEF ReplayInv, TypeOK

LEMMA AskKeeps ==
    ASSUME ReplayInv, UNCHANGED <<database, view, shown>>, NEW a \in Admin,
           request' = [request EXCEPT ![a] = AskSnapshot],
           late' \subseteq Mutations,
           \A m \in late' : m.expected <= version[CounterOf(m.type)]
    PROVE  ReplayInv'
<1>1. AskSnapshot \in Requests /\ AskSnapshot.answer = NoAnswer
    BY NoAnswerTyped DEF AskSnapshot, Requests
<1>2. RequestFits(AskSnapshot, view[a], shown[a])
    BY NoAnswerTyped DEF AskSnapshot, RequestFits
<1> QED
    BY <1>1, <1>2, RequestStep

LEMMA LoadKeeps == ASSUME ReplayInv, NEW a \in Admin, Load(a) PROVE ReplayInv'
BY AskKeeps DEF Load, ReplayInv, TypeOK, LateFits

LEMMA RenewKeeps == ASSUME ReplayInv, NEW a \in Admin, Renew(a) PROVE ReplayInv'
BY AskKeeps, AbandonKeeps DEF Renew

LEMMA SubmitKeeps ==
    ASSUME ReplayInv, NEW a \in Admin, NEW t \in Type, NEW ch \in Contents[t], Submit(a, t, ch)
    PROVE  ReplayInv'
<1> DEFINE c == CounterOf(t)
           m == [admin |-> a, type |-> t, expected |-> view[a][c], change |-> ch]
           r == [kind |-> "mutation", answer |-> NoAnswer, since |-> version, mutation |-> m]
<1>1. c \in Counter /\ view[a] \in Snapshots /\ NotOlder(version, view[a])
    BY CounterOfTyped DEF Submit, ReplayInv, TypeOK, PageOK
<1>2. m \in Mutations
    BY <1>1, TypeAssumption DEF Mutations, Snapshots
<1>3. r \in Requests /\ r.answer = NoAnswer
    BY <1>2, NoAnswerTyped DEF Requests, ReplayInv, TypeOK
<1>4. \A d \in Counter : version[d] \in Nat
    BY VersionsAreNat DEF ReplayInv, TypeOK, Snapshots
<1>5. RequestFits(r, view[a], shown[a])
    BY <1>1, <1>4, NoAnswerTyped DEF RequestFits, NotOlder
<1> QED
    BY <1>3, <1>5, RequestStep DEF Submit, ReplayInv, TypeOK, LateFits

LEMMA LoadOlderKeeps ==
    ASSUME ReplayInv, NEW a \in Admin, NEW c \in Counter, LoadOlder(a, c)
    PROVE  ReplayInv'
<1>1. PICK oldest \in shown[a][c] :
         /\ \A v \in shown[a][c] : oldest <= v
         /\ request' = [request EXCEPT ![a] =
               [kind |-> "older", answer |-> NoAnswer, counter |-> c, before |-> oldest]]
    BY DEF LoadOlder
<1> DEFINE r == [kind |-> "older", answer |-> NoAnswer, counter |-> c, before |-> oldest]
<1>2. oldest \in Versions
    BY DEF ReplayInv, TypeOK
<1>3. r \in Requests /\ r.answer = NoAnswer
    BY <1>2, NoAnswerTyped DEF Requests
<1>4. RequestFits(r, view[a], shown[a])
    BY <1>1, NoAnswerTyped DEF RequestFits, LoadOlder
<1> QED
    BY <1>1, <1>3, <1>4, RequestStep DEF LoadOlder, ReplayInv, TypeOK, LateFits

\* Without a request, only the snapshot and its history matter.
LEMMA IdleStep ==
    ASSUME ReplayInv, UNCHANGED database, NEW a \in Admin,
           request' = [request EXCEPT ![a] = NoRequest],
           view' \in [Admin -> Snapshots \cup {NoView}],
           shown' \in [Admin -> [Counter -> SUBSET Versions]],
           \A b \in Admin \ {a} : view'[b] = view[b] /\ shown'[b] = shown[b],
           view'[a] # NoView =>
              /\ NotOlder(version, view'[a])
              /\ \A c \in Counter : NoHole(shown'[a][c], Listed(c, view'[a][c] + 1)),
           late' \subseteq Mutations,
           \A m \in late' : m.expected <= version[CounterOf(m.type)]
    PROVE  ReplayInv'
<1>1. /\ request' \in [Admin -> Requests \cup {NoRequest}] /\ request'[a] = NoRequest
      /\ \A b \in Admin \ {a} : request'[b] = request[b]
    BY DEF ReplayInv, TypeOK
<1>2. version' = version /\ events' = events
    BY DEF database
<1>3. PageOK(a)'
    BY <1>1, <1>2 DEF PageOK, Busy, NotOlder, Listed, NoHole
<1> QED
    BY <1>1, <1>3, PageStep

LEMMA LeaveKeeps == ASSUME ReplayInv, NEW a \in Admin, Leave(a) PROVE ReplayInv'
<1>1. view' \in [Admin -> Snapshots \cup {NoView}] /\ view'[a] = NoView
      /\ shown' \in [Admin -> [Counter -> SUBSET Versions]]
      /\ \A b \in Admin \ {a} : view'[b] = view[b] /\ shown'[b] = shown[b]
    BY DEF Leave, ReplayInv, TypeOK
<1> QED
    BY <1>1, AbandonKeeps, IdleStep DEF Leave

LEMMA FailKeeps == ASSUME ReplayInv, NEW a \in Admin, Fail(a) PROVE ReplayInv'
<1>1. view[a] # NoView => /\ NotOlder(version, view[a])
                          /\ \A c \in Counter :
                                NoHole(shown[a][c], Listed(c, view[a][c] + 1))
    BY DEF ReplayInv, PageOK
<1> QED
    BY <1>1, AbandonKeeps, IdleStep DEF Fail, ReplayInv, TypeOK


\* A page of history is the upper end of what it is taken from.
LEMMA NewestUpward ==
    ASSUME NEW S \in SUBSET Versions, NEW v \in Newest(S), NEW w \in S, v <= w
    PROVE  w \in Newest(S)
<1> DEFINE Above(x) == {y \in S : x < y}
<1>1. IsFiniteSet(Versions)
  <2>1. PICK n \in Nat : Versions = 0 .. n
    BY VersionAssumption DEF Versions
  <2> QED
    BY <2>1, FS_Interval
<1>2. Above(w) \subseteq Above(v)
  <2>1. v \in Nat /\ w \in Nat /\ \A y \in S : y \in Nat
    BY VersionsAreNat DEF Newest
  <2>2. ASSUME NEW x \in S, w < x PROVE v < x
    BY <2>1, <2>2
  <2> QED
    BY <2>2
<1>3. IsFiniteSet(Above(v)) /\ IsFiniteSet(Above(w))
    BY <1>1, FS_Subset
<1>4. Cardinality(Above(w)) <= Cardinality(Above(v))
    BY <1>2, <1>3, FS_Subset
<1>5. Cardinality(Above(v)) \in Nat /\ Cardinality(Above(w)) \in Nat
    BY <1>3, FS_CardinalityType
<1>6. Cardinality(Above(v)) < PageSize
    BY DEF Newest
<1>7. Cardinality(Above(w)) < PageSize
    BY <1>4, <1>5, <1>6, BoundAssumption
<1> QED
    BY <1>7 DEF Newest

LEMMA ListedTyped ==
    ASSUME TypeOK, NEW c, NEW n
    PROVE  Listed(c, n) \in SUBSET Versions /\ \A v \in Listed(c, n) : v < n
BY DEF TypeOK, Listed

\* Older rows continue the ones that are shown.
LEMMA OlderFits ==
    ASSUME TypeOK, NEW c \in Counter, NEW n \in Nat, NEW vs, NoHole(vs, Listed(c, n)),
           NEW before \in vs, \A v \in vs : before <= v
    PROVE  NoHole(vs \cup Newest(Listed(c, before)), Listed(c, n))
<1> DEFINE rows == Listed(c, n)
           older == Listed(c, before)
<1>1. before \in Nat /\ before < n
    BY ListedTyped, VersionsAreNat DEF NoHole
<1>2. \A w \in rows : w \in Nat
    BY ListedTyped, VersionsAreNat
<1>3. ASSUME NEW w \in older PROVE w \in rows
  <2>1. PICK e \in events : /\ w = e.version /\ e.counter = c
                            /\ e.type \notin PlanningTypes /\ e.version < before
    BY DEF Listed
  <2>2. e.version \in Nat
    BY VersionsAreNat DEF TypeOK
  <2>3. e.version < n
    BY <1>1, <2>1, <2>2
  <2> QED
    BY <2>1, <2>3 DEF Listed
<1>4. ASSUME NEW w \in rows, w < before PROVE w \in older
    BY <1>4 DEF Listed
<1>5. vs \cup Newest(older) \subseteq rows
    BY <1>3 DEF NoHole, Newest
<1>6. ASSUME NEW v \in vs \cup Newest(older), NEW w \in rows, v <= w
      PROVE  w \in vs \cup Newest(older)
  <2>1. CASE v \in vs
    BY <1>6, <2>1 DEF NoHole
  <2>2. CASE before <= w
    BY <2>2 DEF NoHole
  <2>3. CASE v \in Newest(older) /\ w < before
    <3>1. w \in older /\ older \in SUBSET Versions
      BY <1>4, <2>3, ListedTyped
    <3> QED
      BY <1>6, <2>3, <3>1, NewestUpward
  <2> QED
    BY <1>1, <1>2, <2>1, <2>2, <2>3
<1> QED
    BY <1>5, <1>6 DEF NoHole

LEMMA ReceiveKeeps == ASSUME ReplayInv, NEW a \in Admin, Receive(a) PROVE ReplayInv'
<1> DEFINE r == request[a]
<1>1. Busy(a) /\ request' = [request EXCEPT ![a] = NoRequest] /\ UNCHANGED <<database, late>>
    BY DEF Receive
<1>2. /\ r.answer.snapshot \in Snapshots
      /\ r.kind = "older" => r.counter \in Counter
    BY <1>1, RequestTyped DEF ReplayInv
<1>3. RequestFits(r, view[a], shown[a]) /\ TypeOK
      /\ late' \subseteq Mutations
      /\ \A m \in late' : m.expected <= version[CounterOf(m.type)]
    BY <1>1 DEF ReplayInv, PageOK, TypeOK, LateFits
<1>4. view[a] # NoView => /\ NotOlder(version, view[a])
                          /\ \A c \in Counter :
                                NoHole(shown[a][c], Listed(c, view[a][c] + 1))
    BY DEF ReplayInv, PageOK
<1>5. CASE r.answer.kind # "ok"
  <2>1. UNCHANGED <<view, shown>>
    BY <1>5 DEF Receive
  <2> QED
    BY <1>1, <1>3, <1>4, <2>1, IdleStep DEF TypeOK
<1>6. CASE r.answer.kind = "ok" /\ r.kind = "older"
  <2> DEFINE c == r.counter
             new == shown[a][c] \cup Newest(Listed(c, r.before))
  <2>1. /\ view' = view
        /\ shown' = [shown EXCEPT ![a][c] = new]
    BY <1>6 DEF Receive
  <2>2. /\ c \in Counter /\ view[a] # NoView /\ r.before \in shown[a][c]
        /\ \A w \in shown[a][c] : r.before <= w
    BY <1>2, <1>3, <1>6 DEF RequestFits
  <2>3. new \in SUBSET Versions
    BY <1>3, <2>2, ListedTyped DEF TypeOK, Newest
  <2>4. /\ shown' \in [Admin -> [Counter -> SUBSET Versions]]
        /\ \A b \in Admin \ {a} : shown'[b] = shown[b]
        /\ \A d \in Counter : shown'[a][d] = IF d = c THEN new ELSE shown[a][d]
    BY <1>3, <2>1, <2>2, <2>3 DEF TypeOK
  <2>5. view[a][c] + 1 \in Nat
    <3>1. view[a] \in Snapshots
      BY <1>3, <2>2 DEF TypeOK
    <3>2. view[a][c] \in Nat
      BY <2>2, <3>1, VersionsAreNat DEF Snapshots
    <3> QED
      BY <3>2
  <2>6. NoHole(new, Listed(c, view[a][c] + 1))
    BY <1>3, <1>4, <2>2, <2>5, OlderFits
  <2>7. \A d \in Counter : NoHole(shown'[a][d], Listed(d, view[a][d] + 1))
    BY <1>4, <2>2, <2>4, <2>6
  <2> QED
    BY <1>1, <1>3, <1>4, <2>1, <2>4, <2>7, IdleStep DEF TypeOK
<1>7. CASE r.answer.kind = "ok" /\ r.kind # "older"
  <2> DEFINE s == r.answer.snapshot
             rows(c) == Listed(c, s[c] + 1)
  <2>1. /\ view' = [view EXCEPT ![a] = s]
        /\ shown' = [shown EXCEPT ![a] = [c \in Counter |-> Newest(rows(c))]]
    BY <1>7 DEF Receive, ApplySnapshot
  <2>2. ASSUME NEW c \in Counter
        PROVE  Newest(rows(c)) \in SUBSET Versions /\ NoHole(Newest(rows(c)), rows(c))
    <3>1. rows(c) \in SUBSET Versions
      BY <1>3, ListedTyped
    <3>2. Newest(rows(c)) \subseteq rows(c)
      BY DEF Newest
    <3> HIDE DEF rows
    <3> QED
      BY <3>1, <3>2, NewestUpward DEF NoHole
  <2>3. /\ view' \in [Admin -> Snapshots \cup {NoView}] /\ view'[a] = s
        /\ shown' \in [Admin -> [Counter -> SUBSET Versions]]
        /\ \A b \in Admin \ {a} : view'[b] = view[b] /\ shown'[b] = shown[b]
        /\ \A c \in Counter : shown'[a][c] = Newest(rows(c))
    BY <1>2, <1>3, <2>1, <2>2 DEF TypeOK
  <2>4. NotOlder(version, s)
    BY <1>3, <1>7 DEF RequestFits
  <2> QED
    BY <1>1, <1>3, <2>2, <2>3, <2>4, IdleStep
<1> QED
    BY <1>5, <1>6, <1>7


--------------------------------------------------------------------------------
\* The database answers.

\* What an answer says of a change.
AnswerSays(ans, m) ==
    /\ ans.kind = "ok" => Made(m) \in events'
    /\ ans.kind = "conflict" =>
          \E e \in events' : /\ e.counter = CounterOf(m.type)
                            /\ e.version = m.expected + 1 /\ e # Made(m)

LEMMA DatabaseAnswers ==
    ASSUME ReplayInv, NEW a \in Admin, ServeCurrent(a)
    PROVE  \E ans \in Answers :
              /\ request' = [request EXCEPT ![a].answer = ans]
              /\ ans.kind = "ok" => ans.snapshot = version'
              /\ request[a].kind = "mutation" => AnswerSays(ans, request[a].mutation)
              /\ DatabaseTyped' /\ OneChangePerVersion' /\ Grows
<1> DEFINE r == request[a]
<1>1. Busy(a) /\ PageOK(a) /\ TypeOK /\ OneChangePerVersion
    BY DEF ServeCurrent, ReplayInv
<1>2. CASE r.kind = "mutation"
  <2> DEFINE m == r.mutation
  <2>1. m \in Mutations /\ m.expected <= version[CounterOf(m.type)]
    BY <1>1, <1>2, RequestTyped DEF PageOK, RequestFits
  <2>2. PICK out \in Outcome :
           /\ Serve(m, out)
           /\ request' = [request EXCEPT ![a].answer = AnswerTo(m, out)]
    BY <1>2 DEF ServeCurrent
  <2>3. /\ DatabaseTyped' /\ OneChangePerVersion' /\ Grows
        /\ AnswerTo(m, out) \in Answers
        /\ AnswerTo(m, out).kind = "ok" => AnswerTo(m, out).snapshot = version'
        /\ AnswerSays(AnswerTo(m, out), m)
    BY <1>1, <2>1, <2>2, ServeKeeps DEF AnswerSays
  <2> QED
    BY <2>2, <2>3
<1>3. CASE r.kind # "mutation"
  <2> DEFINE ans == Answer("ok", version)
  <2>1. request' = [request EXCEPT ![a].answer = ans] /\ UNCHANGED database
    BY <1>3 DEF ServeCurrent
  <2>2. version' = version /\ stage' = stage /\ events' = events
        /\ operations' = operations
    BY <2>1 DEF database
  <2>3. DatabaseTyped' /\ OneChangePerVersion'
    BY <1>1, <2>2 DEF DatabaseTyped, TypeOK, OneChangePerVersion, Made
  <2>4. ans \in Answers /\ ans.snapshot = version'
    BY <1>1, <2>2 DEF Answers, Answer, TypeOK
  <2> QED
    BY <1>1, <1>3, <2>1, <2>3, <2>4, UnchangedGrows
<1> QED
    BY <1>2, <1>3

LEMMA ServeCurrentKeeps ==
    ASSUME ReplayInv, NEW a \in Admin, ServeCurrent(a) PROVE ReplayInv'
<1> DEFINE r == request[a]
<1>1. Busy(a) /\ UNCHANGED <<view, shown, late>> /\ PageOK(a) /\ TypeOK /\ r \in Requests
    BY RequestTyped DEF ServeCurrent, ReplayInv
<1>2. PICK ans \in Answers :
         /\ request' = [request EXCEPT ![a].answer = ans]
         /\ ans.kind = "ok" => ans.snapshot = version'
         /\ r.kind = "mutation" => AnswerSays(ans, r.mutation)
         /\ DatabaseTyped' /\ OneChangePerVersion' /\ Grows
    BY <1>1, DatabaseAnswers DEF ReplayInv
<1>3. /\ [r EXCEPT !.answer = ans] \in Requests
      /\ request'[a] = [r EXCEPT !.answer = ans]
    BY <1>1, <1>2 DEF Requests, TypeOK
<1>4. /\ request' \in [Admin -> Requests \cup {NoRequest}]
      /\ \A b \in Admin \ {a} : request'[b] = request[b]
      /\ request'[a].answer = ans /\ request'[a].kind = r.kind
      /\ r.kind = "mutation" => /\ request'[a].mutation = r.mutation
                                /\ request'[a].since = r.since
      /\ r.kind = "older" => /\ request'[a].counter = r.counter
                             /\ request'[a].before = r.before
    BY <1>1, <1>2, <1>3 DEF TypeOK, Requests
<1>5. TypeOK'
    BY <1>1, <1>2, <1>4 DEF TypeOK, DatabaseTyped
<1>6. LateFits'
    BY <1>1, <1>2, LateGrows DEF ReplayInv
<1>7. PageOK(a)'
  <2>1. version' \in Snapshots
    BY <1>2 DEF DatabaseTyped
  <2>2. NotOlder(version', version')
    <3>1. \A c \in Counter : version'[c] \in Nat
      BY <2>1, VersionsAreNat DEF Snapshots
    <3> QED
      BY <3>1 DEF NotOlder
  <2>3. r.kind = "mutation" => /\ NotOlder(version', r.since)
                               /\ r.mutation.expected <= version'[CounterOf(r.mutation.type)]
    BY <1>1, <1>2, GrownRequest
  <2>4. RequestFits(r, view[a], shown[a])
    BY <1>1 DEF PageOK
  <2>5. RequestFits(request[a], view[a], shown[a])'
    BY <1>1, <1>2, <1>4, <2>2, <2>3, <2>4 DEF RequestFits, NotOlder
  <2>6. view[a] # NoView => /\ NotOlder(version', view[a])
                            /\ \A c \in Counter :
                                  NoHole(shown[a][c], Listed(c, view[a][c] + 1)')
    BY <1>1, <1>2, GrownView
  <2>7. SnapshotIsFresh(request[a], view[a])'
    BY <1>1, <1>2, <1>4, <2>3, <2>6 DEF SnapshotIsFresh, NotOlder
  <2>8. AnswerIsTrue(request[a])'
    BY <1>2, <1>4 DEF AnswerIsTrue, AnswerSays, Made
  <2>9. view[a]' # NoView => /\ NotOlder(version, view[a])'
                             /\ \A c \in Counter :
                                   NoHole(shown[a][c], Listed(c, view[a][c] + 1))'
    BY <1>1, <2>6 DEF NotOlder, NoHole, Listed
  <2> QED
    BY <2>5, <2>7, <2>8, <2>9 DEF PageOK
<1>8. ASSUME NEW b \in Admin PROVE PageOK(b)'
  <2>1. CASE b = a
    BY <1>7, <2>1
  <2>2. CASE b # a
    BY <1>1, <1>2, <1>4, <2>2, IdlePage DEF ReplayInv
  <2> QED
    BY <2>1, <2>2
<1> QED
    BY <1>2, <1>5, <1>6, <1>8 DEF ReplayInv

\* A call that no page waits for.
LEMMA UnseenCall ==
    ASSUME ReplayInv, NEW m \in Mutations, m.expected <= version[CounterOf(m.type)],
           NEW out \in Outcome, Serve(m, out), UNCHANGED <<view, shown, request>>,
           late' \subseteq late
    PROVE  ReplayInv'
<1>1. DatabaseTyped' /\ OneChangePerVersion' /\ Grows
    BY ServeKeeps DEF ReplayInv
<1>2. TypeOK'
    BY <1>1 DEF ReplayInv, TypeOK, DatabaseTyped
<1>3. LateFits'
    BY <1>1, LateGrows DEF ReplayInv
<1>4. \A a \in Admin : PageOK(a)'
    BY <1>1, IdlePage DEF ReplayInv
<1> QED
    BY <1>1, <1>2, <1>3, <1>4 DEF ReplayInv

LEMMA ServeLateKeeps ==
    ASSUME ReplayInv, NEW m \in late, ServeLate(m) PROVE ReplayInv'
<1>1. m \in Mutations /\ m.expected <= version[CounterOf(m.type)]
    BY DEF ReplayInv, TypeOK, LateFits
<1> QED
    BY <1>1, UnseenCall DEF ServeLate

LEMMA PlanningFormKeeps ==
    ASSUME ReplayInv, NEW a \in Admin, NEW t \in Type, NEW v \in Versions,
           NEW ch \in Contents[t], PlanningForm(a, t, ch, v)
    PROVE  ReplayInv'
<1> DEFINE m == [admin |-> a, type |-> t, expected |-> v, change |-> ch]
<1>1. m \in Mutations
    BY TypeAssumption DEF Mutations
<1>2. m.expected <= version[CounterOf(m.type)]
    BY DEF PlanningForm, PlanningTypes, CounterOf
<1>3. Serve(m, "applied") /\ "applied" \in Outcome
    BY DEF PlanningForm, Outcome
<1> QED
    BY <1>1, <1>2, <1>3, UnseenCall DEF PlanningForm

LEMMA ChangeStageKeeps == ASSUME ReplayInv, ChangeStage PROVE ReplayInv'
<1>1. UNCHANGED <<version, events, operations, view, shown, request, late>>
      /\ stage' \in Stage
    BY DEF ChangeStage, Stage
<1>2. TypeOK' /\ OneChangePerVersion' /\ LateFits' /\ DatabaseTyped'
    BY <1>1 DEF ReplayInv, TypeOK, DatabaseTyped, OneChangePerVersion, Made, LateFits
<1>3. ASSUME NEW a \in Admin PROVE PageOK(a)'
    BY <1>1 DEF ReplayInv, PageOK, Busy, RequestFits, AnswerIsTrue, SnapshotIsFresh,
                NotOlder, NoHole, Listed, Made
<1> QED
    BY <1>2, <1>3 DEF ReplayInv

--------------------------------------------------------------------------------
\* The theorems.

LEMMA InitReplay == Init => ReplayInv
<1> SUFFICES ASSUME Init PROVE ReplayInv
    OBVIOUS
<1>1. 0 \in Versions
    BY VersionAssumption DEF Versions
<1>2. TypeOK
    BY <1>1 DEF Init, TypeOK, Snapshots, Stage
<1>3. OneChangePerVersion
    BY DEF Init, OneChangePerVersion
<1>4. LateFits /\ \A a \in Admin : PageOK(a)
    BY DEF Init, LateFits, PageOK, Busy
<1> QED
    BY <1>2, <1>3, <1>4 DEF ReplayInv

LEMMA StepReplay == ReplayInv /\ [Next]_vars => ReplayInv'
<1> SUFFICES ASSUME ReplayInv, [Next]_vars PROVE ReplayInv'
    OBVIOUS
<1>1. CASE ChangeStage
    BY <1>1, ChangeStageKeeps
<1>2. CASE \E a \in Admin : Page(a)
  <2>1. PICK a \in Admin : Page(a)
    BY <1>2
  <2>2. CASE Load(a) \/ Renew(a) \/ Leave(a) \/ Receive(a) \/ Fail(a) \/ ServeCurrent(a)
    BY <2>2, LoadKeeps, RenewKeeps, LeaveKeeps, ReceiveKeeps, FailKeeps, ServeCurrentKeeps
  <2>3. CASE \E t \in Type : \E ch \in Contents[t] : Submit(a, t, ch)
    BY <2>3, SubmitKeeps
  <2>4. CASE \E c \in Counter : LoadOlder(a, c)
    BY <2>4, LoadOlderKeeps
  <2>5. CASE \E t \in Type, v \in Versions :
                \E ch \in Contents[t] : PlanningForm(a, t, ch, v)
    BY <2>5, PlanningFormKeeps
  <2> QED
    BY <2>1, <2>2, <2>3, <2>4, <2>5 DEF Page
<1>3. CASE \E m \in late : ServeLate(m)
    BY <1>3, ServeLateKeeps
<1>4. CASE UNCHANGED vars
  <2>1. UNCHANGED database /\ UNCHANGED <<view, shown, request, late>>
    BY <1>4 DEF vars
  <2>2. version' = version /\ stage' = stage /\ events' = events
        /\ operations' = operations
    BY <2>1 DEF database
  <2>3. TypeOK' /\ OneChangePerVersion' /\ LateFits' /\ DatabaseTyped'
    BY <2>1, <2>2 DEF ReplayInv, TypeOK, DatabaseTyped, OneChangePerVersion, Made, LateFits
  <2>4. Grows
    BY <2>1, UnchangedGrows DEF ReplayInv
  <2>5. \A a \in Admin : PageOK(a)'
    BY <2>1, <2>3, <2>4, IdlePage DEF ReplayInv
  <2> QED
    BY <2>3, <2>5 DEF ReplayInv
<1> QED
    BY <1>1, <1>2, <1>3, <1>4 DEF Next

LEMMA ReplayInvariant == Spec => []ReplayInv
    BY InitReplay, StepReplay, PTL DEF Spec

\* Every reachable state of database and pages is well typed.
THEOREM ReplayTypeCorrect == Spec => []TypeOK
<1>1. ReplayInv => TypeOK
    BY DEF ReplayInv
<1> QED
    BY <1>1, ReplayInvariant, PTL

\* Each version is made by one change and each change leaves one receipt, whatever is
\* lost, delayed or repeated, with any number of admins.
THEOREM ChangesAreMadeOnce == Spec => []OneChangePerVersion
<1>1. ReplayInv => OneChangePerVersion
    BY DEF ReplayInv
<1> QED
    BY <1>1, ReplayInvariant, PTL

\* "ok" means that the change is in the history, "refresh and retry" that another one
\* took its place.
THEOREM AdminsAreToldTheTruth == Spec => []AnswersAreTrue
<1>1. ReplayInv => AnswersAreTrue
    BY DEF ReplayInv, AnswersAreTrue, PageOK
<1> QED
    BY <1>1, ReplayInvariant, PTL

\* The history on a page has no hole, whatever the page size.
THEOREM HistoryIsComplete == Spec => []HistoryHasNoHole
<1>1. ReplayInv => HistoryHasNoHole
    BY DEF ReplayInv, HistoryHasNoHole, PageOK
<1> QED
    BY <1>1, ReplayInvariant, PTL

\* No page goes back in time, and no answer to a change hides another change that was
\* there when it was sent.
THEOREM PagesNeverGoBack == Spec => []SnapshotsAreFresh
<1>1. ReplayInv => SnapshotsAreFresh
    BY DEF ReplayInv, SnapshotsAreFresh, PageOK
<1> QED
    BY <1>1, ReplayInvariant, PTL

================================================================================
