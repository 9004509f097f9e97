--------------------------- MODULE TelemetryProofs ---------------------------
(***************************************************************************)
(* The evidence of the telemetry ingestion, for any events, batches,        *)
(* requests in flight, policy, limits and bounds; then what holds of the    *)
(* alerts of a device for any receipts, rules and bounds, in every order in *)
(* which the jobs of the rule queue run.                                   *)
(***************************************************************************)
EXTENDS MCTelemetry, FiniteSetTheorems, TLAPS

(***************************************************************************)
(* The inductive invariant.                                                *)
(***************************************************************************)
Marks == Nat \cup {NoSequence}
Epochs == {c.epoch : c \in Catalog}
HistoryRows == [status : {"ready", "running", "on_break", "completed"}, from : Nat]
SessionRecords == [status : {"none", "running", "paused", "stopped", "completed"}, points : Nat]
Answers == Positioned \cup {"health_only", "duplicate", "duplicate_conflict", "rejected"}
Active == {"reserve", "verify", "request", "body", "events"}

WorldInv ==
    /\ now \in 0..MaxTime
    /\ device \in [active : BOOLEAN, gpsReady : BOOLEAN, credentialEnd : Nat]
    /\ history \in Seq(HistoryRows) /\ Len(history) > 0
    /\ \A row \in DOMAIN history : history[row].from <= now
    /\ ended \in [Authority -> Nat] /\ rival \in Nat

\* A receipt arrived before now, and its row is one of the day.
Arrived ==
    \A x \in receipts :
        /\ x.received \in 0..now /\ x.captured \in Nat /\ x.sequence \in Marks
        /\ x.row \in 0..Len(history)

EvidenceInv ==
    /\ IsFiniteSet(receipts) /\ Arrived
    /\ sessions \in Seq(SessionRecords) /\ Len(sessions) = Len(history)
    /\ highWater \in [Epochs -> Marks]
    /\ StoredOnce /\ OnlyDuringWork /\ HighWaterIsNewest

\* A request in the host carries a batch, and one whose events are processed
\* has an event left.
HostInv ==
    \A r \in Request :
        host[r].stage \in Active =>
            /\ host[r] = [stage |-> host[r].stage, ticket |-> host[r].ticket, received |-> host[r].received,
                          batch |-> host[r].batch, results |-> host[r].results]
            /\ host[r].received \in 0..now /\ host[r].batch \in Batches
            /\ host[r].stage # "events" => host[r].results = <<>>
            /\ host[r].stage = "events" =>
                   host[r].results \in Seq(Answers) /\ Len(host[r].results) < Len(host[r].batch.events)

LimitInv == /\ unauth \in [Windows -> Nat] /\ requests \in [Windows -> Nat] /\ counted \in [Windows -> Nat]

IngestInv == WorldInv /\ EvidenceInv /\ HostInv /\ LimitInv /\ DOMAIN host = Request

LEMMA NeverIsLater == Never \in Nat /\ MaxTime < Never
  BY PolicyAssumption DEF Never

LEMMA UntilIsTime == ASSUME WorldInv, NEW row \in DOMAIN history PROVE Until(row) \in Nat
<1>1. CASE row = Len(history) BY <1>1, NeverIsLater DEF Until
<1>2. CASE row # Len(history)
  <2>0. history \in Seq(HistoryRows) BY DEF WorldInv
  <2>1. row + 1 \in 1..Len(history) BY <1>2, <2>0
  <2>2. history[row + 1] \in HistoryRows BY <2>0, <2>1
  <2>3. history[row + 1].from \in Nat BY <2>2 DEF HistoryRows
  <2> QED BY <1>2, <2>3 DEF Until
<1> QED BY <1>1, <1>2

LEMMA IngestInitially == Init => IngestInv
<1> SUFFICES ASSUME Init PROVE IngestInv OBVIOUS
<1>1. WorldInv BY NeverIsLater, PolicyAssumption DEF Init, WorldInv, HistoryRows
<1>2. LimitInv /\ HostInv /\ DOMAIN host = Request BY DEF Init, LimitInv, HostInv, Idle, Active
<1>3. EvidenceInv
  <2>1. receipts = {} /\ sessions = <<[status |-> "none", points |-> 0]>> /\ Len(history) = 1 BY DEF Init
  <2>2. IsFiniteSet(receipts) /\ Cardinality({}) = 0 BY <2>1, FS_EmptySet
  <2>3. \A row : {x \in receipts : x.row = row} = {} BY <2>1
  <2>4. StoredOnce BY <2>1, <2>2, <2>3 DEF StoredOnce
  <2>5. OnlyDuringWork /\ Arrived BY <2>1 DEF OnlyDuringWork, Arrived
  <2>6. HighWaterIsNewest BY <2>1 DEF HighWaterIsNewest, Init
  <2>7. sessions \in Seq(SessionRecords) /\ Len(sessions) = Len(history) BY <2>1 DEF SessionRecords
  <2>8. highWater \in [Epochs -> Marks] BY DEF Init, Epochs, Marks, NoSequence
  <2> QED BY <2>2, <2>4, <2>5, <2>6, <2>7, <2>8 DEF EvidenceInv
<1> QED BY <1>1, <1>2, <1>3 DEF IngestInv

(***************************************************************************)
(* An event that becomes a position had every authority when captured.     *)
(***************************************************************************)
LEMMA PositionIsAuthorised ==
  ASSUME WorldInv, NEW e, e.captured \in Nat, NEW received \in Nat,
         Disposition(e, received) \in Positioned
  PROVE  /\ \A a \in Authority : e.captured < ended[a]
         /\ e.captured < rival
         /\ RowOf(e) \in DOMAIN history /\ history[RowOf(e)].status = "running"
         /\ history[RowOf(e)].from <= e.captured /\ e.captured <= Until(RowOf(e))
<1>1. Objection(e, received) = "valid" BY DEF Disposition, Positioned
<1>2. Resolution(e.captured) = "valid" BY <1>1 DEF Objection
<1>3. /\ ~(e.captured >= ended["link"]) /\ Assignments(e.captured) # 0
      /\ ~(e.captured >= rival) /\ ~(e.captured >= ended["release"]) /\ RunningRows(e.captured) # {}
  BY <1>2 DEF Resolution
<1>4. /\ e.captured < ended["link"] /\ e.captured < rival /\ e.captured < ended["release"]
      /\ e.captured < ended["assignment"]
  BY <1>3 DEF Assignments, WorldInv, Authority
<1>5. RowOf(e) \in RunningRows(e.captured) BY <1>3 DEF RowOf
<1>6. RowOf(e) \in DOMAIN history /\ history[RowOf(e)].status = "running" /\ history[RowOf(e)].from <= e.captured
  BY <1>5 DEF RunningRows
<1>7. Until(RowOf(e)) \in Nat BY <1>6, UntilIsTime
<1>8. e.captured <= Until(RowOf(e)) BY <1>5, <1>7 DEF RunningRows
<1> QED BY <1>4, <1>6, <1>8 DEF Authority

(***************************************************************************)
(* Storing one event.                                                      *)
(***************************************************************************)
LEMMA ReceiptFields ==
  ASSUME NEW e, NEW received
  PROVE  LET x == Receipt(e, received) IN
         /\ x.id = e.id /\ x.content = e.content /\ x.epoch = e.epoch /\ x.sequence = e.sequence
         /\ x.captured = e.captured /\ x.received = received /\ x.disposition = Disposition(e, received)
         /\ x.row = IF Disposition(e, received) \in Positioned THEN RowOf(e) ELSE 0
  BY DEF Receipt

LEMMA SessionAfterIsSession ==
  ASSUME EvidenceInv, NEW e, NEW received, NEW row \in DOMAIN sessions
  PROVE  SessionAfter(e, received, row) \in SessionRecords
         /\ SessionAfter(e, received, row).points = sessions[row].points + 1
<1>1. sessions[row] \in SessionRecords BY DEF EvidenceInv
<1>2. sessions[row].points + 1 \in Nat /\ sessions[row].status \in {"none", "running", "paused", "stopped", "completed"}
  BY <1>1 DEF SessionRecords
<1> QED BY <1>2 DEF SessionAfter, SessionRecords

LEMMA StoreSound ==
  ASSUME WorldInv, EvidenceInv, NEW e \in Catalog, NEW received \in 0..now, Eligible(received), Known(e) = {},
         Store(e, received), UNCHANGED <<now, history, ended, rival>>
  PROVE  WorldInv' /\ EvidenceInv'
<1> DEFINE x == Receipt(e, received)
<1>f. /\ x.id = e.id /\ x.content = e.content /\ x.epoch = e.epoch /\ x.sequence = e.sequence
      /\ x.captured = e.captured /\ x.received = received /\ x.disposition = Disposition(e, received)
      /\ x.row = IF Disposition(e, received) \in Positioned THEN RowOf(e) ELSE 0
  BY ReceiptFields
<1>s. /\ receipts' = receipts \cup {x}
      /\ highWater' = IF e.sequence > highWater[e.epoch] /\ x.disposition # "rejected"
                      THEN [highWater EXCEPT ![e.epoch] = e.sequence] ELSE highWater
      /\ sessions' = IF x.row = 0 THEN sessions
                     ELSE [sessions EXCEPT ![x.row] = SessionAfter(e, received, x.row)]
      /\ device' = [device EXCEPT !.gpsReady = ReadyAfter(e, received)]
  BY DEF Store
<1> HIDE DEF x
<1>e. e.captured \in Nat /\ e.sequence \in Marks /\ e.epoch \in Epochs /\ received \in Nat /\ now \in Nat
  BY CatalogAssumption, PolicyAssumption DEF Marks, Epochs, WorldInv
<1>p. x.row # 0 =>
        /\ \A a \in Authority : e.captured < ended[a]
        /\ e.captured < rival
        /\ x.row \in DOMAIN history /\ history[x.row].status = "running"
        /\ history[x.row].from <= e.captured /\ e.captured <= Until(x.row)
  BY <1>f, <1>e, PositionIsAuthorised
<1>r. x.row \in 0..Len(history) /\ DOMAIN history = 1..Len(history) /\ Len(history) \in Nat
      /\ DOMAIN sessions = 1..Len(history)
  <2>1. DOMAIN history = 1..Len(history) /\ Len(history) \in Nat BY DEF WorldInv
  <2>2. DOMAIN sessions = 1..Len(history) BY DEF EvidenceInv
  <2> QED BY <1>p, <2>1, <2>2
<1>n. \A y \in receipts : /\ y.id # e.id
                          /\ ~(e.sequence # NoSequence /\ y.epoch = e.epoch /\ y.sequence = e.sequence)
  BY DEF Known, SameEvent, SameSequence
<1>1. WorldInv'
  <2>1. ReadyAfter(e, received) \in BOOLEAN BY DEF ReadyAfter, WorldInv
  <2>2. device' \in [active : BOOLEAN, gpsReady : BOOLEAN, credentialEnd : Nat] BY <1>s, <2>1 DEF WorldInv
  <2> QED BY <2>2 DEF WorldInv
<1>2. IsFiniteSet(receipts') BY <1>s, FS_AddElement DEF EvidenceInv
<1>3. Arrived' BY <1>s, <1>f, <1>e, <1>r DEF EvidenceInv, Arrived
<1>4. sessions' \in Seq(SessionRecords) /\ Len(sessions') = Len(history')
  <2>1. CASE x.row = 0 BY <1>s, <2>1 DEF EvidenceInv
  <2>2. CASE x.row # 0
    <3>1. SessionAfter(e, received, x.row) \in SessionRecords BY <2>2, <1>r, SessionAfterIsSession
    <3> QED BY <3>1, <2>2, <1>s, <1>r DEF EvidenceInv
  <2> QED BY <2>1, <2>2
<1>5. highWater' \in [Epochs -> Marks] BY <1>s, <1>e DEF EvidenceInv
<1>6. StoredOnce'
  <2>1. ASSUME NEW y \in receipts', NEW z \in receipts',
               y.id = z.id \/ (y.sequence # NoSequence /\ <<y.epoch, y.sequence>> = <<z.epoch, z.sequence>>)
        PROVE  y = z
    BY <2>1, <1>s, <1>f, <1>n DEF EvidenceInv, StoredOnce
  <2>2. ASSUME NEW row \in DOMAIN sessions'
        PROVE  sessions'[row].points = Cardinality({y \in receipts' : y.row = row})
    <3> DEFINE S == {y \in receipts : y.row = row}
    <3>1. row \in DOMAIN sessions /\ sessions[row].points = Cardinality(S)
      BY <1>s, <2>2 DEF EvidenceInv, StoredOnce
    <3>2. IsFiniteSet(S) BY FS_Subset DEF EvidenceInv
    <3>3. CASE x.row = row
      <4>1. x \notin S BY <1>f, <1>n
      <4>2. {y \in receipts' : y.row = row} = S \cup {x} BY <1>s, <3>3
      <4>3. Cardinality(S \cup {x}) = Cardinality(S) + 1 BY <3>2, <4>1, FS_AddElement
      <4>4. x.row # 0 BY <3>1, <3>3, <1>r
      <4>5. sessions'[row] = SessionAfter(e, received, row) BY <1>s, <3>1, <3>3, <4>4
      <4>6. SessionAfter(e, received, row).points = sessions[row].points + 1 BY <3>1, SessionAfterIsSession
      <4> QED BY <3>1, <4>2, <4>3, <4>5, <4>6
    <3>4. CASE x.row # row
      <4>1. {y \in receipts' : y.row = row} = S BY <1>s, <3>4
      <4>2. sessions'[row] = sessions[row] BY <1>s, <3>1, <3>4
      <4> QED BY <3>1, <4>1, <4>2
    <3> QED BY <3>3, <3>4
  <2> QED BY <2>1, <2>2 DEF StoredOnce
<1>7. OnlyDuringWork'
  <2> SUFFICES ASSUME NEW y \in receipts', y.row # 0
               PROVE  LET latest == IF y.captured < y.received THEN y.captured ELSE y.received
                      IN  /\ history[y.row].status = "running"
                          /\ history[y.row].from <= y.captured /\ latest <= Until(y.row)
                          /\ \A a \in Authority : latest <= ended[a]
                          /\ latest <= rival /\ y.received <= device.credentialEnd
    BY <1>s DEF OnlyDuringWork, Until, WorldInv
  <2>1. CASE y \in receipts BY <2>1 DEF EvidenceInv, OnlyDuringWork
  <2>2. CASE y = x
    <3>1. received < device.credentialEnd BY DEF Eligible
    <3>2. x.row \in DOMAIN history /\ Until(x.row) \in Nat /\ rival \in Nat /\ \A a \in Authority : ended[a] \in Nat
      BY <1>p, <2>2, UntilIsTime DEF WorldInv
    <3>3. device.credentialEnd \in Nat BY DEF WorldInv
    <3> QED BY <2>2, <3>1, <3>2, <3>3, <1>p, <1>f, <1>e
  <2> QED BY <2>1, <2>2, <1>s
<1>8. HighWaterIsNewest'
  <2> SUFFICES ASSUME NEW p \in Epochs
               PROVE  LET seen == {y.sequence : y \in {y \in receipts' : y.epoch = p /\ y.disposition # "rejected"}}
                      IN  /\ \A q \in seen : q <= highWater'[p]
                          /\ highWater'[p] # NoSequence => highWater'[p] \in seen
    BY <1>5 DEF HighWaterIsNewest
  <2> DEFINE Seen(R) == {y.sequence : y \in {y \in R : y.epoch = p /\ y.disposition # "rejected"}}
  <2>1. /\ \A q \in Seen(receipts) : q <= highWater[p] /\ q \in Marks
        /\ highWater[p] # NoSequence => highWater[p] \in Seen(receipts)
        /\ highWater[p] \in Marks
    BY DEF EvidenceInv, HighWaterIsNewest, Arrived
  <2>2. CASE p = e.epoch /\ x.disposition # "rejected"
    <3>1. Seen(receipts') = Seen(receipts) \cup {e.sequence} BY <2>2, <1>s, <1>f
    <3>2. highWater'[p] = IF e.sequence > highWater[p] THEN e.sequence ELSE highWater[p]
      BY <2>2, <1>s DEF EvidenceInv
    <3> HIDE DEF Seen
    <3>3. /\ \A q \in Seen(receipts') : q <= highWater'[p]
          /\ highWater'[p] # NoSequence => highWater'[p] \in Seen(receipts')
      BY <2>1, <3>1, <3>2, <1>e DEF Marks, NoSequence
    <3> QED BY <3>3 DEF Seen
  <2>3. CASE ~(p = e.epoch /\ x.disposition # "rejected")
    <3>1. Seen(receipts') = Seen(receipts) BY <2>3, <1>s, <1>f
    <3>2. highWater'[p] = highWater[p] BY <2>3, <1>s, <1>f DEF EvidenceInv
    <3> QED BY <2>1, <3>1, <3>2
  <2> QED BY <2>2, <2>3
<1> QED BY <1>1, <1>2, <1>3, <1>4, <1>5, <1>6, <1>7, <1>8 DEF EvidenceInv

LEMMA PersistSound ==
  ASSUME WorldInv, EvidenceInv, NEW e \in Catalog, NEW received \in 0..now, NEW answer,
         Persist(e, received, answer), UNCHANGED <<now, history, ended, rival>>
  PROVE  WorldInv' /\ EvidenceInv'
<1>1. CASE Known(e) = {} BY <1>1, StoreSound DEF Persist
<1>2. CASE Known(e) # {}
  <2>1. UNCHANGED <<receipts, highWater, sessions, device>> BY <1>2 DEF Persist
  <2> QED BY <2>1 DEF WorldInv, EvidenceInv, Arrived, StoredOnce, OnlyDuringWork, Until, HighWaterIsNewest
<1> QED BY <1>1, <1>2

\* A step that leaves the world and the evidence alone.
LEMMA EvidenceStays ==
  ASSUME WorldInv, EvidenceInv, UNCHANGED <<now, world, evidence>>
  PROVE  WorldInv' /\ EvidenceInv'
  BY DEF WorldInv, EvidenceInv, Arrived, StoredOnce, OnlyDuringWork, Until, HighWaterIsNewest, world, evidence

(***************************************************************************)
(* What a step does to the request it is about.                            *)
(***************************************************************************)
LEMMA HostAnswers ==
  ASSUME HostInv, DOMAIN host = Request, now' = now, NEW r \in Request, NEW status, Answer(r, status)
  PROVE  HostInv' /\ DOMAIN host' = Request
<1>1. host' = [host EXCEPT ![r] = [stage |-> "answered", status |-> status]] BY DEF Answer
<1>2. host'[r].stage \notin Active BY <1>1 DEF Active
<1>3. \A q \in Request \ {r} : host'[q] = host[q] BY <1>1
<1> QED BY <1>1, <1>2, <1>3 DEF HostInv

LEMMA HostGoes ==
  ASSUME HostInv, DOMAIN host = Request, now' = now, NEW r \in Request, NEW next \in Active \ {"reserve"}, Go(r, next),
         host[r].stage \in Active \ {"events"},
         next = "events" => Len(host[r].batch.events) > 0
  PROVE  HostInv' /\ DOMAIN host' = Request
<1>1. host' = [host EXCEPT ![r].stage = next] BY DEF Go
<1>2. host[r] = [stage |-> host[r].stage, ticket |-> host[r].ticket, received |-> host[r].received,
                 batch |-> host[r].batch, results |-> host[r].results]
  BY DEF HostInv
<1>3. host'[r] = [stage |-> next, ticket |-> host[r].ticket, received |-> host[r].received,
                  batch |-> host[r].batch, results |-> host[r].results]
  BY <1>1, <1>2
<1>4. \A q \in Request \ {r} : host'[q] = host[q] BY <1>1
<1>5. host[r].received \in 0..now /\ host[r].batch \in Batches /\ host[r].results = <<>> BY DEF HostInv
<1>6. /\ host'[r].stage = next /\ host'[r].received \in 0..now /\ host'[r].batch \in Batches
      /\ host'[r].results = <<>> /\ host'[r].batch = host[r].batch
      /\ host'[r] = [stage |-> host'[r].stage, ticket |-> host'[r].ticket, received |-> host'[r].received,
                     batch |-> host'[r].batch, results |-> host'[r].results]
  BY <1>3, <1>5
<1>7. <<>> \in Seq(Answers) /\ Len(<<>>) = 0 OBVIOUS
<1> QED BY <1>1, <1>4, <1>6, <1>7 DEF HostInv

\* An event of the batch is left, and it is one of the catalog.
LEMMA CurrentIsVendorEvent ==
  ASSUME HostInv, NEW r \in Request, At(r, "events")
  PROVE  Current(r) \in Catalog /\ host[r].received \in 0..now
<1>1. /\ host[r].received \in 0..now /\ host[r].batch \in Batches
      /\ host[r].results \in Seq(Answers) /\ Len(host[r].results) < Len(host[r].batch.events)
  BY DEF HostInv, At, Active
<1>2. host[r].batch.events \in Seq(Catalog) BY <1>1, CatalogAssumption
<1>3. Len(host[r].results) + 1 \in 1..Len(host[r].batch.events) BY <1>1, <1>2
<1> QED BY <1>1, <1>2, <1>3 DEF Current

LEMMA HostFinishes ==
  ASSUME HostInv, DOMAIN host = Request, now' = now, NEW r \in Request, At(r, "events"),
         NEW result \in Answers, Finish(r, result)
  PROVE  HostInv' /\ DOMAIN host' = Request
<1> DEFINE results == Append(host[r].results, result)
<1>1. /\ host[r] = [stage |-> "events", ticket |-> host[r].ticket, received |-> host[r].received,
                    batch |-> host[r].batch, results |-> host[r].results]
      /\ host[r].received \in 0..now /\ host[r].batch \in Batches /\ host[r].results \in Seq(Answers)
  BY DEF HostInv, At, Active
<1>2. host' = [host EXCEPT ![r] =
            IF Len(results) < Len(@.batch.events) THEN [@ EXCEPT !.results = results]
            ELSE [stage |-> "answered", status |-> 202, batch |-> @.batch, results |-> results]]
  BY DEF Finish
<1>3. results \in Seq(Answers) BY <1>1
<1>4. \A q \in Request \ {r} : host'[q] = host[q] BY <1>2
<1> HIDE DEF results
<1>5. CASE Len(results) < Len(host[r].batch.events)
  <2>1. host'[r] = [stage |-> "events", ticket |-> host[r].ticket, received |-> host[r].received,
                    batch |-> host[r].batch, results |-> results]
    BY <1>1, <1>2, <1>5
  <2> QED BY <1>1, <1>2, <1>3, <1>4, <1>5, <2>1 DEF HostInv
<1>6. CASE ~(Len(results) < Len(host[r].batch.events))
  <2>1. host'[r].stage = "answered" BY <1>2, <1>6
  <2> QED BY <1>2, <1>4, <2>1 DEF HostInv, Active
<1> QED BY <1>5, <1>6

(***************************************************************************)
(* The steps of the host.                                                  *)
(***************************************************************************)
LEMMA BucketSet ==
  ASSUME NEW f \in [Windows -> Nat], NEW w, NEW n, w \in Windows => n \in Nat
  PROVE  [f EXCEPT ![w] = n] \in [Windows -> Nat]
<1>1. CASE w \in Windows BY <1>1
<1>2. CASE w \notin Windows
  <2>1. [f EXCEPT ![w] = n] = f BY <1>2
  <2> QED BY <2>1
<1> QED BY <1>1, <1>2

LEMMA ReservedLimits == ASSUME LimitInv, NEW r \in Request, Reserved(r) PROVE LimitInv'
<1> DEFINE w == Window(host[r].received)
<1>1. unauth' = [unauth EXCEPT ![w] = unauth[w] + 1] /\ UNCHANGED <<requests, counted>> BY DEF Reserved
<1>2. w \in Windows => unauth[w] + 1 \in Nat BY DEF LimitInv
<1> HIDE DEF w
<1>3. unauth' \in [Windows -> Nat] BY <1>1, <1>2, BucketSet DEF LimitInv
<1> QED BY <1>1, <1>3 DEF LimitInv

LEMMA VerifiedLimits == ASSUME LimitInv, NEW r \in Request, Verified(r) PROVE LimitInv'
<1>1. CASE device.active /\ host[r].received < device.credentialEnd /\ Mine(r) # {}
  <2>1. PICK v : /\ unauth' = [unauth EXCEPT ![v.window] = IF unauth[v.window] > 0 THEN unauth[v.window] - 1 ELSE 0]
                 /\ UNCHANGED <<requests, counted>>
    BY <1>1 DEF Verified
  <2>2. v.window \in Windows => (IF unauth[v.window] > 0 THEN unauth[v.window] - 1 ELSE 0) \in Nat BY DEF LimitInv
  <2>3. unauth' \in [Windows -> Nat] BY <2>1, <2>2, BucketSet DEF LimitInv
  <2> QED BY <2>1, <2>3 DEF LimitInv
<1>2. CASE ~(device.active /\ host[r].received < device.credentialEnd /\ Mine(r) # {})
  BY <1>2 DEF Verified, Unlimited, limits, LimitInv
<1> QED BY <1>1, <1>2

LEMMA HostStepSound ==
  ASSUME IngestInv, NEW r \in Request, HostStep(r)
  PROVE  IngestInv'
<1>0. WorldInv /\ EvidenceInv /\ HostInv /\ LimitInv /\ DOMAIN host = Request BY DEF IngestInv
<1>q. Quiet => WorldInv' /\ EvidenceInv' /\ now' = now BY <1>0, EvidenceStays DEF Quiet
<1>u. Unlimited => LimitInv' BY <1>0 DEF Unlimited, limits, LimitInv
<1>1. CASE Reserve(r)
  <2>1. Reserved(r) /\ Quiet /\ host[r].stage = "reserve" BY <1>1 DEF Reserve, At
  <2>2. Answer(r, 429) \/ Answer(r, 401) \/ Go(r, "verify") BY <1>1 DEF Reserve
  <2>3. HostInv' /\ DOMAIN host' = Request BY <1>0, <1>q, <2>1, <2>2, HostAnswers, HostGoes DEF Active
  <2> QED BY <1>0, <1>q, <2>1, <2>3, ReservedLimits DEF IngestInv
<1>2. CASE Verify(r)
  <2>1. Verified(r) /\ Quiet /\ host[r].stage = "verify" BY <1>2 DEF Verify, At
  <2>2. Answer(r, 401) \/ Go(r, "request") BY <1>2 DEF Verify
  <2>3. HostInv' /\ DOMAIN host' = Request BY <1>0, <1>q, <2>1, <2>2, HostAnswers, HostGoes DEF Active
  <2> QED BY <1>0, <1>q, <2>1, <2>3, VerifiedLimits DEF IngestInv
<1>3. CASE ChargeRequest(r)
  <2>1. Quiet /\ host[r].stage = "request" BY <1>3 DEF ChargeRequest, At
  <2>2. Answer(r, 429) \/ Answer(r, 413) \/ Answer(r, 400) \/ Go(r, "body") BY <1>3 DEF ChargeRequest
  <2>3. HostInv' /\ DOMAIN host' = Request BY <1>0, <1>q, <2>1, <2>2, HostAnswers, HostGoes DEF Active
  <2> DEFINE w == Window(host[r].received)
  <2>4. requests' = [requests EXCEPT ![w] = requests[w] + 1] /\ UNCHANGED <<unauth, counted>> BY <1>3 DEF ChargeRequest
  <2>5. w \in Windows => requests[w] + 1 \in Nat BY <1>0 DEF LimitInv
  <2> HIDE DEF w
  <2>6. requests' \in [Windows -> Nat] BY <1>0, <2>4, <2>5, BucketSet DEF LimitInv
  <2>7. LimitInv' BY <1>0, <2>4, <2>6 DEF LimitInv
  <2> QED BY <1>q, <2>1, <2>3, <2>7 DEF IngestInv
<1>4. CASE ChargeEvents(r)
  <2>1. Quiet /\ host[r].stage = "body" BY <1>4 DEF ChargeEvents, At
  <2>2. host[r].batch.events \in Seq(Catalog)
    BY <1>0, <2>1, CatalogAssumption DEF HostInv, Active
  <2>3. Answer(r, 429) \/ Answer(r, 400) \/ (Go(r, "events") /\ Len(host[r].batch.events) > 0)
    BY <1>4, <2>2 DEF ChargeEvents
  <2>4. HostInv' /\ DOMAIN host' = Request BY <1>0, <1>q, <2>1, <2>3, HostAnswers, HostGoes DEF Active
  <2> DEFINE w == Window(host[r].received)
             n == IF Len(host[r].batch.events) = 0 THEN 1 ELSE Len(host[r].batch.events)
  <2>5. counted' = [counted EXCEPT ![w] = counted[w] + n] /\ UNCHANGED <<unauth, requests>> BY <1>4 DEF ChargeEvents
  <2>6. n \in Nat BY <2>2
  <2> HIDE DEF w, n
  <2>7. w \in Windows => counted[w] + n \in Nat BY <1>0, <2>6 DEF LimitInv
  <2>8. counted' \in [Windows -> Nat] BY <1>0, <2>5, <2>7, BucketSet DEF LimitInv
  <2>9. LimitInv' BY <1>0, <2>5, <2>8 DEF LimitInv
  <2> QED BY <1>q, <2>1, <2>4, <2>9 DEF IngestInv
<1>5. CASE RejectEvent(r)
  <2>1. At(r, "events") /\ Finish(r, "rejected") /\ Unlimited /\ Quiet BY <1>5 DEF RejectEvent
  <2>2. "rejected" \in Answers /\ now' = now BY <1>q, <2>1 DEF Answers
  <2>3. HostInv' /\ DOMAIN host' = Request BY <1>0, <2>1, <2>2, HostFinishes
  <2> QED BY <1>q, <1>u, <2>1, <2>3 DEF IngestInv
<1>6. CASE PersistEvent(r)
  <2>1. PICK answer \in Answers : Persist(Current(r), host[r].received, answer) /\ Finish(r, answer)
    BY <1>6 DEF PersistEvent, Answers
  <2>2. At(r, "events") /\ UNCHANGED <<now, history, ended, rival, limits>> BY <1>6 DEF PersistEvent
  <2>3. Current(r) \in Catalog /\ host[r].received \in 0..now BY <1>0, <2>2, CurrentIsVendorEvent
  <2>4. WorldInv' /\ EvidenceInv' BY <1>0, <2>1, <2>2, <2>3, PersistSound
  <2>5. HostInv' /\ DOMAIN host' = Request BY <1>0, <2>1, <2>2, HostFinishes
  <2> QED BY <1>u, <2>2, <2>4, <2>5 DEF IngestInv, Unlimited
<1>7. CASE PersistRaises(r)
  <2>1. Answer(r, 503) /\ Unlimited /\ Quiet BY <1>7 DEF PersistRaises
  <2> QED BY <1>0, <1>q, <1>u, <2>1, HostAnswers DEF IngestInv
<1> QED BY <1>1, <1>2, <1>3, <1>4, <1>5, <1>6, <1>7 DEF HostStep

LEMMA TroubleSound ==
  ASSUME IngestInv, NEW r \in Request, Fail(r) \/ LoseAnswer(r)
  PROVE  IngestInv'
<1>0. WorldInv /\ EvidenceInv /\ HostInv /\ LimitInv /\ DOMAIN host = Request BY DEF IngestInv
<1>u. Unlimited => LimitInv' BY <1>0 DEF Unlimited, limits, LimitInv
<1>1. CASE Fail(r)
  <2>1. (\E status : Answer(r, status)) /\ UNCHANGED <<now, world, evidence, limits>> BY <1>1 DEF Fail
  <2> QED BY <1>0, <1>u, <2>1, HostAnswers, EvidenceStays DEF IngestInv, Unlimited
<1>2. CASE LoseAnswer(r)
  <2>n. now' = now BY <1>2 DEF LoseAnswer
  <2>1. CASE Reserved(r) /\ Answer(r, 503) /\ UNCHANGED <<world, evidence>>
    BY <1>0, <2>n, <2>1, ReservedLimits, HostAnswers, EvidenceStays DEF IngestInv
  <2>2. CASE Verified(r) /\ Answer(r, 401) /\ UNCHANGED <<world, evidence>>
    BY <1>0, <2>n, <2>2, VerifiedLimits, HostAnswers, EvidenceStays DEF IngestInv
  <2>3. CASE /\ At(r, "events")
             /\ \E answer : Persist(Current(r), host[r].received, answer)
             /\ Answer(r, 503) /\ Unlimited /\ UNCHANGED <<history, ended, rival>>
    <3>1. Current(r) \in Catalog /\ host[r].received \in 0..now BY <1>0, <2>3, CurrentIsVendorEvent
    <3>2. WorldInv' /\ EvidenceInv' BY <1>0, <2>n, <2>3, <3>1, PersistSound
    <3> QED BY <1>0, <1>u, <2>n, <2>3, <3>2, HostAnswers DEF IngestInv
  <2> QED BY <1>2, <2>1, <2>2, <2>3 DEF LoseAnswer
<1> QED BY <1>1, <1>2

LEMMA SendSound ==
  ASSUME IngestInv, NEW r \in Request, NEW batch \in Batches, Send(r, batch)
  PROVE  IngestInv'
<1>0. WorldInv /\ EvidenceInv /\ HostInv /\ LimitInv /\ DOMAIN host = Request BY DEF IngestInv
<1>1. /\ host' = [host EXCEPT ![r] = [stage |-> "reserve", ticket |-> sends, received |-> now,
                                      batch |-> batch, results |-> <<>>]]
      /\ UNCHANGED <<now, world, evidence, limits>>
  BY DEF Send
<1>2. WorldInv' /\ EvidenceInv' /\ LimitInv' BY <1>0, <1>1, EvidenceStays DEF limits, LimitInv
<1>3. HostInv' /\ DOMAIN host' = Request
  <2>1. now \in 0..now BY <1>0, PolicyAssumption DEF WorldInv
  <2>2. \A q \in Request \ {r} : host'[q] = host[q] BY <1>1
  <2>3. host'[r] = [stage |-> "reserve", ticket |-> sends, received |-> now, batch |-> batch, results |-> <<>>]
    BY <1>0, <1>1
  <2> QED BY <1>0, <1>1, <2>1, <2>2, <2>3 DEF HostInv
<1> QED BY <1>2, <1>3 DEF IngestInv

(***************************************************************************)
(* The steps of the people.                                                *)
(***************************************************************************)
LEMMA SessionsOnKeep ==
  ASSUME EvidenceInv, NEW status \in {"running", "on_break", "completed"}
  PROVE  /\ SessionsOn(status) \in Seq(SessionRecords) /\ Len(SessionsOn(status)) = Len(sessions)
         /\ \A row \in DOMAIN sessions : SessionsOn(status)[row].points = sessions[row].points
<1>0. sessions \in Seq(SessionRecords) BY DEF EvidenceInv
<1>1. CASE status = "on_break"
  <2>1. SessionsOn(status) = [sessions EXCEPT ![LastRunning].status = IF @ = "none" THEN @ ELSE "paused"]
    BY <1>1 DEF SessionsOn
  <2>2. CASE LastRunning \in DOMAIN sessions
    <3>1. sessions[LastRunning] \in SessionRecords BY <1>0, <2>2
    <3>2. [sessions[LastRunning] EXCEPT !.status = IF @ = "none" THEN @ ELSE "paused"] \in SessionRecords
          /\ [sessions[LastRunning] EXCEPT !.status = IF @ = "none" THEN @ ELSE "paused"].points = sessions[LastRunning].points
      BY <3>1 DEF SessionRecords
    <3> QED BY <1>0, <2>1, <2>2, <3>2
  <2>3. CASE LastRunning \notin DOMAIN sessions
    <3>1. SessionsOn(status) = sessions BY <1>0, <2>1, <2>3
    <3> QED BY <1>0, <3>1
  <2> QED BY <2>2, <2>3
<1>2. CASE status = "completed"
  <2>1. SessionsOn(status) = [row \in DOMAIN sessions |->
                IF sessions[row].status \in {"running", "paused"}
                THEN [sessions[row] EXCEPT !.status = "completed"] ELSE sessions[row]]
    BY <1>2 DEF SessionsOn
  <2>2. \A row \in DOMAIN sessions : sessions[row] \in SessionRecords BY <1>0
  <2>3. \A row \in DOMAIN sessions : SessionsOn(status)[row] \in SessionRecords
                                    /\ SessionsOn(status)[row].points = sessions[row].points
    BY <2>1, <2>2 DEF SessionRecords
  <2> QED BY <1>0, <2>1, <2>3
<1>3. CASE status = "running"
  <2>1. SessionsOn(status) = sessions BY <1>3 DEF SessionsOn
  <2> QED BY <1>0, <2>1
<1> QED BY <1>1, <1>2, <1>3

LEMMA MoveDaySound ==
  ASSUME IngestInv, NEW status \in {"running", "on_break", "completed"}, MoveDay(status)
  PROVE  IngestInv'
<1>0. WorldInv /\ EvidenceInv /\ HostInv /\ LimitInv /\ DOMAIN host = Request BY DEF IngestInv
<1>1. /\ history' = Append(history, [status |-> status, from |-> now])
      /\ sessions' = Append(SessionsOn(status), NoSession)
      /\ UNCHANGED <<now, device, ended, rival, receipts, conflicts, highWater, limits, host>>
  BY DEF MoveDay
<1>2. history \in Seq(HistoryRows) /\ now \in Nat /\ now <= MaxTime BY <1>0, PolicyAssumption DEF WorldInv
<1>3. [status |-> status, from |-> now] \in HistoryRows BY <1>2 DEF HistoryRows
<1>4. /\ history' \in Seq(HistoryRows) /\ Len(history') = Len(history) + 1 /\ Len(history) \in Nat
      /\ DOMAIN history' = 1..(Len(history) + 1) /\ DOMAIN history = 1..Len(history)
      /\ \A row \in 1..Len(history) : history'[row] = history[row]
      /\ history'[Len(history) + 1].from = now
  BY <1>1, <1>2, <1>3
<1>5. WorldInv' BY <1>0, <1>1, <1>4 DEF WorldInv
<1>6. /\ sessions' \in Seq(SessionRecords) /\ Len(sessions') = Len(history) + 1
      /\ \A row \in 1..Len(history) : sessions'[row].points = sessions[row].points
      /\ sessions'[Len(history) + 1].points = 0 /\ DOMAIN sessions = 1..Len(history)
      /\ DOMAIN sessions' = 1..(Len(history) + 1)
  <2>1. /\ SessionsOn(status) \in Seq(SessionRecords) /\ Len(SessionsOn(status)) = Len(history)
        /\ \A row \in 1..Len(history) : SessionsOn(status)[row].points = sessions[row].points
        /\ DOMAIN sessions = 1..Len(history)
    BY <1>0, SessionsOnKeep DEF EvidenceInv
  <2>2. NoSession \in SessionRecords /\ NoSession.points = 0 BY DEF NoSession, SessionRecords
  <2> HIDE DEF NoSession, SessionsOn
  <2>3. Append(SessionsOn(status), NoSession) \in Seq(SessionRecords) BY <2>1, <2>2
  <2>4. \A row \in 1..Len(history) : sessions'[row] = SessionsOn(status)[row] BY <1>1, <1>4, <2>1
  <2> QED BY <1>1, <1>4, <2>1, <2>2, <2>3, <2>4
<1>7. Arrived /\ StoredOnce /\ OnlyDuringWork BY <1>0 DEF EvidenceInv
<1>8. StoredOnce'
  <2>1. ASSUME NEW row \in 1..(Len(history) + 1)
        PROVE  sessions'[row].points = Cardinality({x \in receipts : x.row = row})
    <3>1. CASE row \in 1..Len(history) BY <1>6, <1>7, <3>1 DEF StoredOnce
    <3>2. CASE row = Len(history) + 1
      <4>1. {x \in receipts : x.row = row} = {} BY <1>4, <1>7, <3>2 DEF Arrived
      <4> QED BY <4>1, <3>2, <1>6, FS_EmptySet
    <3> QED BY <1>4, <3>1, <3>2
  <2> QED BY <1>1, <1>6, <1>7, <2>1 DEF StoredOnce
<1>9. OnlyDuringWork'
  <2>1. ASSUME NEW x \in receipts, x.row # 0
        PROVE  LET latest == IF x.captured < x.received THEN x.captured ELSE x.received
               IN  /\ history'[x.row].status = "running" /\ history'[x.row].from <= x.captured
                   /\ latest <= Until(x.row)'
    <3>1. x.row \in 1..Len(history) /\ x.received \in Nat /\ x.received <= now /\ x.captured \in Nat
      BY <1>4, <1>7, <1>2, <2>1 DEF Arrived
    <3>2. LET latest == IF x.captured < x.received THEN x.captured ELSE x.received
          IN  /\ history[x.row].status = "running" /\ history[x.row].from <= x.captured
              /\ latest <= Until(x.row)
      BY <1>7, <2>1 DEF OnlyDuringWork
    <3>3. CASE x.row = Len(history)
      <4>a. Len(history') = Len(history) + 1 /\ Len(history) \in Nat BY <1>4
      <4>b. x.row # Len(history') BY <4>a, <3>3
      <4>c. Until(x.row)' = history'[x.row + 1].from BY <4>b DEF Until
      <4>d. history'[x.row + 1].from = now BY <1>4, <3>3
      <4>1. Until(x.row)' = now BY <4>c, <4>d
      <4> QED BY <1>2, <1>4, <3>1, <3>2, <4>1
    <3>4. CASE x.row # Len(history)
      <4>1. Until(x.row)' = Until(x.row) BY <1>4, <3>1, <3>4 DEF Until
      <4> QED BY <1>4, <3>1, <3>2, <4>1
    <3> QED BY <3>3, <3>4
  <2> QED BY <1>1, <1>7, <2>1 DEF OnlyDuringWork
<1>10. EvidenceInv'
  <2>1. Arrived' BY <1>1, <1>4, <1>7 DEF Arrived
  <2>2. HighWaterIsNewest' /\ IsFiniteSet(receipts') /\ (highWater \in [Epochs -> Marks])'
    BY <1>0, <1>1 DEF EvidenceInv, HighWaterIsNewest
  <2> QED BY <1>4, <1>6, <1>8, <1>9, <2>1, <2>2 DEF EvidenceInv
<1>11. HostInv' /\ LimitInv' /\ DOMAIN host' = Request BY <1>0, <1>1 DEF HostInv, LimitInv, limits
<1> QED BY <1>5, <1>10, <1>11 DEF IngestInv

LEMMA WorldSound ==
  ASSUME IngestInv, World
  PROVE  IngestInv'
<1>0. WorldInv /\ EvidenceInv /\ HostInv /\ LimitInv /\ DOMAIN host = Request /\ now \in Nat /\ now <= MaxTime
  BY PolicyAssumption DEF IngestInv, WorldInv
<1>c. ASSUME now' = now \/ (now < MaxTime /\ now' = now + 1), UNCHANGED <<history, evidence, limits, host>>,
             device' \in [active : BOOLEAN, gpsReady : BOOLEAN, credentialEnd : Nat],
             device'.credentialEnd = device.credentialEnd \/ device'.credentialEnd >= now,
             ended' \in [Authority -> Nat], \A a \in Authority : ended'[a] = ended[a] \/ ended'[a] = now,
             rival' \in Nat, rival' = rival \/ rival' = now
      PROVE  IngestInv'
  <2>0. now' \in 0..MaxTime /\ now' \in Nat /\ now <= now' BY <1>0, <1>c, PolicyAssumption
  <2>1. WorldInv'
    <3>1. ASSUME NEW row \in DOMAIN history PROVE history[row].from \in Nat /\ history[row].from <= now
      <4>1. history \in Seq(HistoryRows) /\ history[row].from <= now BY <1>0 DEF WorldInv
      <4>2. history[row] \in HistoryRows BY <4>1
      <4> QED BY <4>1, <4>2 DEF HistoryRows
    <3>2. history' = history BY <1>c
    <3> QED BY <1>0, <1>c, <2>0, <3>1, <3>2 DEF WorldInv
  <2>2. Arrived /\ StoredOnce /\ OnlyDuringWork BY <1>0 DEF EvidenceInv
  <2>3. Arrived' BY <1>0, <1>c, <2>0, <2>2 DEF Arrived, evidence
  <2>4. StoredOnce' /\ HighWaterIsNewest' /\ IsFiniteSet(receipts') /\ (sessions \in Seq(SessionRecords))'
        /\ (Len(sessions) = Len(history))' /\ (highWater \in [Epochs -> Marks])'
    BY <1>0, <1>c DEF EvidenceInv, StoredOnce, HighWaterIsNewest, evidence
  <2>5. OnlyDuringWork'
    <3>1. UNCHANGED <<receipts, history>> BY <1>c DEF evidence
    <3>2. ASSUME NEW x \in receipts, x.row # 0
          PROVE  LET latest == IF x.captured < x.received THEN x.captured ELSE x.received
                 IN  /\ history[x.row].status = "running"
                     /\ history[x.row].from <= x.captured /\ latest <= Until(x.row)
                     /\ \A a \in Authority : latest <= ended'[a]
                     /\ latest <= rival' /\ x.received <= device'.credentialEnd
      <4>1. x.received \in Nat /\ x.received <= now /\ x.captured \in Nat BY <1>0, <2>2 DEF Arrived
      <4>2. LET latest == IF x.captured < x.received THEN x.captured ELSE x.received
            IN  /\ history[x.row].status = "running"
                /\ history[x.row].from <= x.captured /\ latest <= Until(x.row)
                /\ \A a \in Authority : latest <= ended[a]
                /\ latest <= rival /\ x.received <= device.credentialEnd
        BY <2>2, <3>2 DEF OnlyDuringWork
      <4>3. device'.credentialEnd \in Nat BY <1>c
      <4> QED BY <1>0, <1>c, <4>1, <4>2, <4>3
    <3> QED BY <3>1, <3>2 DEF OnlyDuringWork, Until
  <2>6. EvidenceInv' BY <2>3, <2>4, <2>5 DEF EvidenceInv
  <2>7. HostInv'
    <3>1. host' = host BY <1>c
    <3> QED BY <1>0, <2>0, <3>1 DEF HostInv
  <2>8. LimitInv' /\ DOMAIN host' = Request BY <1>0, <1>c DEF LimitInv, limits
  <2> QED BY <2>1, <2>6, <2>7, <2>8 DEF IngestInv
<1>d. /\ device \in [active : BOOLEAN, gpsReady : BOOLEAN, credentialEnd : Nat]
      /\ ended \in [Authority -> Nat] /\ rival \in Nat
  BY <1>0 DEF WorldInv
<1>1. CASE Tick BY <1>1, <1>c, <1>d DEF Tick, world
<1>2. CASE AssignElsewhere BY <1>0, <1>2, <1>c, <1>d DEF AssignElsewhere, Change
<1>3. CASE SuspendDevice
  <2>1. device' = [device EXCEPT !.active = FALSE] BY <1>3 DEF SuspendDevice, Change
  <2>2. device' \in [active : BOOLEAN, gpsReady : BOOLEAN, credentialEnd : Nat]
        /\ device'.credentialEnd = device.credentialEnd
    BY <1>d, <2>1
  <2> QED BY <1>3, <1>c, <1>d, <2>2 DEF SuspendDevice, Change
<1>4. ASSUME NEW a \in Authority, EndAuthority(a) PROVE IngestInv'
  <2>1. ended' = [ended EXCEPT ![a] = now] BY <1>4 DEF EndAuthority, Change
  <2>2. ended' \in [Authority -> Nat] /\ \A b \in Authority : ended'[b] = ended[b] \/ ended'[b] = now
    BY <1>0, <1>d, <2>1
  <2> QED BY <1>4, <1>c, <1>d, <2>2 DEF EndAuthority, Change
<1>5. ASSUME NEW at \in {now, now + Overlap}, EndCredential(at) PROVE IngestInv'
  <2>1. at \in Nat /\ at >= now BY <1>0, PolicyAssumption
  <2>2. device' = [device EXCEPT !.credentialEnd = at] BY <1>5 DEF EndCredential, Change
  <2>3. device' \in [active : BOOLEAN, gpsReady : BOOLEAN, credentialEnd : Nat] /\ device'.credentialEnd >= now
    BY <1>d, <2>1, <2>2
  <2> QED BY <1>5, <1>c, <1>d, <2>3 DEF EndCredential, Change
<1>6. ASSUME NEW status \in {"running", "on_break", "completed"}, MoveDay(status) PROVE IngestInv'
  BY <1>6, MoveDaySound
<1> QED BY <1>1, <1>2, <1>3, <1>4, <1>5, <1>6 DEF World

LEMMA StutterSound == ASSUME IngestInv, UNCHANGED vars PROVE IngestInv'
<1>1. WorldInv' /\ EvidenceInv' BY EvidenceStays DEF IngestInv, vars
<1>2. HostInv' /\ LimitInv' /\ DOMAIN host' = Request BY DEF IngestInv, HostInv, LimitInv, vars, limits
<1> QED BY <1>1, <1>2 DEF IngestInv

\* The ingestion keeps its inductive invariant.
THEOREM IngestAlwaysSound == Spec => []IngestInv
<1>1. Init => IngestInv BY IngestInitially
<1>2. IngestInv /\ [Next]_vars => IngestInv'
  BY HostStepSound, TroubleSound, SendSound, WorldSound, StutterSound DEF Next
<1> QED BY <1>1, <1>2, PTL DEF Spec

\* Every reachable state is well typed, the sessions are those of the rows of
\* the day's history and the buckets of the rate limits count.
THEOREM TypeCorrect == Spec => []TypeOK
<1>1. IngestInv => TypeOK
  <2> SUFFICES ASSUME IngestInv PROVE TypeOK OBVIOUS
  <2>1. WorldInv /\ EvidenceInv /\ LimitInv BY DEF IngestInv
  <2>2. DOMAIN sessions = DOMAIN history /\ \A row \in DOMAIN sessions : sessions[row] \in SessionRecords
    BY <2>1 DEF WorldInv, EvidenceInv
  <2>3. \A row \in DOMAIN history : history[row].from \in 0..now
    <3> SUFFICES ASSUME NEW row \in DOMAIN history PROVE history[row].from \in 0..now OBVIOUS
    <3>1. history[row] \in HistoryRows BY <2>1 DEF WorldInv
    <3>2. history[row].from \in Nat BY <3>1 DEF HistoryRows
    <3> QED BY <2>1, <3>2, PolicyAssumption DEF WorldInv
  <2>4. \A w \in Windows : unauth[w] \in Nat /\ requests[w] \in Nat /\ counted[w] \in Nat BY <2>1 DEF LimitInv
  <2> QED BY <2>1, <2>2, <2>3, <2>4 DEF TypeOK, WorldInv, SessionRecords
<1> QED BY <1>1, IngestAlwaysSound, PTL

\* However often a device repeats what was not answered, m21_persist_telemetry_event
\* stores each event once and its session counts it once.
THEOREM EvidenceIsStoredOnce == Spec => []StoredOnce
<1>1. IngestInv => StoredOnce BY DEF IngestInv, EvidenceInv
<1> QED BY <1>1, IngestAlwaysSound, PTL

\* A stored position had every authority when it was captured, whatever ended
\* between the request's arrival and its transaction.
THEOREM PositionsAreOfWork == Spec => []OnlyDuringWork
<1>1. IngestInv => OnlyDuringWork BY DEF IngestInv, EvidenceInv
<1> QED BY <1>1, IngestAlwaysSound, PTL

\* The high water mark of a stream is the newest sequence that was not
\* rejected, in whatever order events are persisted.
THEOREM HighWaterIsAlwaysNewest == Spec => []HighWaterIsNewest
<1>1. IngestInv => HighWaterIsNewest BY DEF IngestInv, EvidenceInv
<1> QED BY <1>1, IngestAlwaysSound, PTL

(***************************************************************************)
(* What a step does to the evidence, and the promise to a device that      *)
(* repeats itself.                                                         *)
(***************************************************************************)
LEMMA PersistSteps ==
  ASSUME NEW e \in Catalog, NEW received \in 0..now, NEW answer, Persist(e, received, answer)
  PROVE  \/ UNCHANGED <<receipts, highWater, sessions>> /\ conflicts \subseteq conflicts'
         \/ Known(e) = {} /\ Store(e, received)
<1>1. CASE Known(e) = {} BY <1>1 DEF Persist
<1>2. CASE Known(e) # {}
  <2>1. UNCHANGED <<receipts, highWater, sessions>> /\ conflicts \subseteq conflicts' BY <1>2 DEF Persist
  <2> QED BY <2>1
<1> QED BY <1>1, <1>2

LEMMA EvidenceSteps ==
  ASSUME IngestInv, [Next]_vars
  PROVE  \/ UNCHANGED <<receipts, highWater, sessions>> /\ conflicts \subseteq conflicts'
         \/ \E e \in Catalog, received \in 0..now : Known(e) = {} /\ Store(e, received)
         \/ \E status \in {"running", "on_break", "completed"} : MoveDay(status)
<1>0. HostInv BY DEF IngestInv
<1>u. ASSUME UNCHANGED evidence
      PROVE  UNCHANGED <<receipts, highWater, sessions>> /\ conflicts \subseteq conflicts'
  BY <1>u DEF evidence
<1>1. ASSUME NEW r \in Request, HostStep(r) \/ Fail(r) \/ \E b \in Batches : Send(r, b), ~PersistEvent(r)
      PROVE  UNCHANGED evidence
  BY <1>1 DEF HostStep, Reserve, Verify, ChargeRequest, ChargeEvents, RejectEvent, PersistRaises, Quiet, Fail, Send
<1>2. ASSUME NEW r \in Request, PersistEvent(r)
      PROVE  \/ UNCHANGED <<receipts, highWater, sessions>> /\ conflicts \subseteq conflicts'
             \/ \E e \in Catalog, received \in 0..now : Known(e) = {} /\ Store(e, received)
  <2>1. Current(r) \in Catalog /\ host[r].received \in 0..now BY <1>0, <1>2, CurrentIsVendorEvent DEF PersistEvent
  <2>2. PICK answer : Persist(Current(r), host[r].received, answer) BY <1>2 DEF PersistEvent
  <2> QED BY <2>1, <2>2, PersistSteps
<1>3. ASSUME NEW r \in Request, LoseAnswer(r)
      PROVE  \/ UNCHANGED <<receipts, highWater, sessions>> /\ conflicts \subseteq conflicts'
             \/ \E e \in Catalog, received \in 0..now : Known(e) = {} /\ Store(e, received)
  <2>1. CASE UNCHANGED evidence BY <1>u, <2>1
  <2>2. CASE At(r, "events") /\ \E answer : Persist(Current(r), host[r].received, answer)
    <3>1. Current(r) \in Catalog /\ host[r].received \in 0..now BY <1>0, <2>2, CurrentIsVendorEvent
    <3>2. PICK answer : Persist(Current(r), host[r].received, answer) BY <2>2
    <3> QED BY <3>1, <3>2, PersistSteps
  <2> QED BY <1>3, <2>1, <2>2 DEF LoseAnswer
<1>4. ASSUME World, ~\E status \in {"running", "on_break", "completed"} : MoveDay(status)
      PROVE  UNCHANGED evidence
  BY <1>4 DEF World, Tick, AssignElsewhere, SuspendDevice, EndAuthority, EndCredential, Change
<1>5. ASSUME UNCHANGED vars PROVE UNCHANGED evidence BY <1>5 DEF vars
<1> QED BY <1>u, <1>1, <1>2, <1>3, <1>4, <1>5 DEF Next, HostStep

LEMMA OpenRowSteps ==
  ASSUME IngestInv, NEW status \in {"running", "on_break", "completed"}, MoveDay(status)
  PROVE  /\ UNCHANGED <<receipts, conflicts, highWater>>
         /\ [row \in DOMAIN sessions |-> sessions[row].points]'
                = Append([row \in DOMAIN sessions |-> sessions[row].points], 0)
<1> DEFINE kept == SessionsOn(status)
<1> DEFINE points == [row \in DOMAIN sessions |-> sessions[row].points]
<1>0. EvidenceInv BY DEF IngestInv
<1>1. sessions' = Append(kept, NoSession) /\ UNCHANGED <<receipts, conflicts, highWater>> BY DEF MoveDay
<1>2. /\ kept \in Seq(SessionRecords) /\ Len(kept) = Len(history) /\ Len(history) \in Nat
      /\ \A row \in 1..Len(history) : kept[row].points = sessions[row].points
      /\ DOMAIN sessions = 1..Len(history)
  BY <1>0, SessionsOnKeep DEF EvidenceInv, IngestInv
<1>3. NoSession \in SessionRecords /\ NoSession.points = 0 BY DEF NoSession, SessionRecords
<1>4. \A row \in 1..Len(history) : sessions[row].points \in Nat
  <2>1. \A row \in 1..Len(history) : sessions[row] \in SessionRecords BY <1>0, <1>2 DEF EvidenceInv
  <2> QED BY <2>1 DEF SessionRecords
<1>5. points \in Seq(Nat) /\ Len(points) = Len(history) BY <1>2, <1>4
<1> HIDE DEF kept, NoSession
<1>6. /\ DOMAIN sessions' = 1..(Len(history) + 1) /\ sessions'[Len(history) + 1] = NoSession
      /\ \A row \in 1..Len(history) : sessions'[row] = kept[row]
  BY <1>1, <1>2, <1>3
<1>7. \A row \in 1..(Len(history) + 1) :
          sessions'[row].points = IF row = Len(history) + 1 THEN 0 ELSE points[row]
  BY <1>2, <1>3, <1>6
<1>9. Append(points, 0) = [row \in 1..(Len(history) + 1) |-> IF row = Len(history) + 1 THEN 0 ELSE points[row]]
  BY <1>2, <1>5
<1>10. [row \in DOMAIN sessions' |-> sessions'[row].points]
           = [row \in 1..(Len(history) + 1) |-> IF row = Len(history) + 1 THEN 0 ELSE points[row]]
  BY <1>6, <1>7
<1> QED BY <1>1, <1>9, <1>10

LEMMA EvidenceGrows ==
  ASSUME IngestInv, [Next]_vars
  PROVE  /\ receipts \subseteq receipts' /\ conflicts \subseteq conflicts'
         /\ \A e \in DOMAIN highWater : highWater'[e] >= highWater[e]
<1>0. highWater \in [Epochs -> Marks] BY DEF IngestInv, EvidenceInv
<1>1. CASE UNCHANGED <<receipts, highWater, sessions>> /\ conflicts \subseteq conflicts'
  BY <1>0, <1>1 DEF Marks, NoSequence
<1>2. ASSUME NEW e \in Catalog, NEW received \in 0..now, Store(e, received)
      PROVE  /\ receipts \subseteq receipts' /\ conflicts \subseteq conflicts'
             /\ \A p \in DOMAIN highWater : highWater'[p] >= highWater[p]
  <2>1. receipts \subseteq receipts' /\ conflicts' = conflicts BY <1>2 DEF Store
  <2>2. e.sequence \in Marks /\ e.epoch \in Epochs BY CatalogAssumption DEF Marks, Epochs
  <2>3. \/ highWater' = highWater
        \/ /\ e.sequence > highWater[e.epoch]
           /\ highWater' = [highWater EXCEPT ![e.epoch] = e.sequence]
    BY <1>2 DEF Store
  <2> QED BY <1>0, <2>1, <2>2, <2>3 DEF Marks, NoSequence
<1>3. ASSUME NEW status \in {"running", "on_break", "completed"}, MoveDay(status)
      PROVE  UNCHANGED <<receipts, conflicts, highWater>>
  BY <1>3 DEF MoveDay
<1> QED BY <1>0, <1>1, <1>2, <1>3, EvidenceSteps DEF Marks, NoSequence

\* The marks of the streams never go back and no receipt or conflict is
\* forgotten: every function of the ingestion only inserts evidence.
THEOREM EvidenceIsNeverLost == Spec => EvidenceOnlyGrows
<1>1. IngestInv /\ [Next]_vars =>
          [/\ receipts \subseteq receipts' /\ conflicts \subseteq conflicts'
           /\ \A e \in DOMAIN highWater : highWater'[e] >= highWater[e]]_vars
  BY EvidenceGrows
<1> QED BY <1>1, IngestAlwaysSound, PTL DEF Spec, EvidenceOnlyGrows

\* The ingestion implements EvidenceOnce: whatever is repeated, lost or late,
\* each step of it stores nothing, stores one new event and counts it at most
\* once, or opens a session for the next row of the day.
THEOREM RefinesEvidenceOnce == Spec => ImplementsEvidenceOnce
<1> DEFINE storedIds == {x.id : x \in receipts}
<1> DEFINE points == [row \in DOMAIN sessions |-> sessions[row].points]
<1>1. Init => Once!Init
  <2> SUFFICES ASSUME Init PROVE storedIds = {} /\ points = <<0>> BY DEF Once!Init
  <2>1. sessions = <<[status |-> "none", points |-> 0]>> /\ receipts = {} BY DEF Init
  <2> QED BY <2>1
<1>2. IngestInv /\ [Next]_vars => [Once!Next]_<<storedIds, points>>
  <2> SUFFICES ASSUME IngestInv, [Next]_vars PROVE Once!Next \/ UNCHANGED <<storedIds, points>> OBVIOUS
  <2>0. EvidenceInv BY DEF IngestInv
  <2>1. CASE UNCHANGED <<receipts, highWater, sessions>> BY <2>1
  <2>2. ASSUME NEW e \in Catalog, NEW received \in 0..now, Known(e) = {}, Store(e, received)
        PROVE  Once!Next
    <3> DEFINE x == Receipt(e, received)
    <3>1. x.id = e.id BY ReceiptFields
    <3>2. /\ receipts' = receipts \cup {x}
          /\ sessions' = IF x.row = 0 THEN sessions
                         ELSE [sessions EXCEPT ![x.row] = SessionAfter(e, received, x.row)]
      BY <2>2 DEF Store
    <3> HIDE DEF x
    <3>3. e.id \notin storedIds /\ storedIds' = storedIds \cup {e.id} BY <2>2, <3>1, <3>2 DEF Known, SameEvent
    <3>4. points' = points \/ \E row \in DOMAIN points : points' = [points EXCEPT ![row] = @ + 1]
      <4>1. CASE x.row = 0 BY <3>2, <4>1
      <4>3. CASE x.row # 0 /\ x.row \notin DOMAIN sessions
        <5>1. sessions' = [sessions EXCEPT ![x.row] = SessionAfter(e, received, x.row)] BY <3>2, <4>3
        <5>2. DOMAIN sessions' = DOMAIN sessions /\ \A row \in DOMAIN sessions : sessions'[row] = sessions[row]
          BY <4>3, <5>1
        <5> QED BY <5>2
      <4>2. CASE x.row # 0 /\ x.row \in DOMAIN sessions
        <5>1. SessionAfter(e, received, x.row).points = sessions[x.row].points + 1
          BY <2>0, <4>2, SessionAfterIsSession
        <5>2. sessions' = [sessions EXCEPT ![x.row] = SessionAfter(e, received, x.row)] BY <3>2, <4>2
        <5>3. points' = [points EXCEPT ![x.row] = @ + 1] BY <4>2, <5>1, <5>2
        <5> QED BY <4>2, <5>3
      <4> QED BY <4>1, <4>2, <4>3
    <3>5. Once!Record(e.id) BY <3>3, <3>4 DEF Once!Record
    <3> QED BY <3>5 DEF Once!Next
  <2>3. ASSUME NEW status \in {"running", "on_break", "completed"}, MoveDay(status)
        PROVE  Once!Next
    <3>1. UNCHANGED storedIds /\ points' = Append(points, 0) BY <2>3, OpenRowSteps
    <3> QED BY <3>1 DEF Once!Next, Once!OpenRow
  <2> QED BY <2>1, <2>2, <2>3, EvidenceSteps
<1> QED BY <1>1, <1>2, IngestAlwaysSound, PTL DEF Spec, ImplementsEvidenceOnce, Once!Spec
(***************************************************************************)
(* The day's history, and the sessions of the rows that are over.          *)
(***************************************************************************)

\* The day starts ready, runs and breaks, and ends once; its rows follow
\* each other in time.
DayInv ==
    /\ history[1].status = "ready"
    /\ \A row \in DOMAIN history : row > 1 => history[row].status # "ready"
    /\ \A row \in DOMAIN history : history[row].status = "completed" => row = Len(history)
    /\ \A row, later \in DOMAIN history : row <= later => history[row].from <= history[later].from

\* Only a row of running work has a session.
SessionsOfRuns ==
    \A row \in DOMAIN sessions : sessions[row].status # "none" => history[row].status = "running"

LEMMA HistorySteps ==
  ASSUME IngestInv, [Next]_vars
  PROVE  \/ UNCHANGED history
         \/ \E status \in {"running", "on_break", "completed"} : MoveDay(status)
<1>1. ASSUME NEW r \in Request, HostStep(r) PROVE UNCHANGED history
  BY <1>1 DEF HostStep, Reserve, Verify, ChargeRequest, ChargeEvents, RejectEvent, PersistEvent, PersistRaises, Quiet, world
<1>2. ASSUME NEW r \in Request, Fail(r) \/ LoseAnswer(r) \/ \E b \in Batches : Send(r, b) PROVE UNCHANGED history
  BY <1>2 DEF Fail, LoseAnswer, Send, world
<1>3. ASSUME World, ~\E status \in {"running", "on_break", "completed"} : MoveDay(status) PROVE UNCHANGED history
  BY <1>3 DEF World, Tick, AssignElsewhere, SuspendDevice, EndAuthority, EndCredential, Change, world
<1> QED BY <1>1, <1>2, <1>3 DEF Next, vars, world

\* A row that is over ended at some instant; the last row has not.
LEMMA UntilOver ==
  ASSUME WorldInv, NEW row \in DOMAIN history
  PROVE  Until(row) # Never <=> row # Len(history)
<1>1. history \in Seq(HistoryRows) BY DEF WorldInv
<1>2. CASE row = Len(history) BY <1>2 DEF Until
<1>3. CASE row # Len(history)
  <2>1. row + 1 \in DOMAIN history BY <1>1, <1>3
  <2>2. history[row + 1].from <= now /\ now <= MaxTime /\ now \in Nat /\ MaxTime \in Nat
    BY <2>1, PolicyAssumption DEF WorldInv
  <2>3. history[row + 1] \in HistoryRows BY <1>1, <2>1
  <2>4. history[row + 1].from \in Nat BY <2>3 DEF HistoryRows
  <2>5. Until(row) = history[row + 1].from BY <1>3 DEF Until
  <2> QED BY <1>3, <2>2, <2>4, <2>5, NeverIsLater
<1> QED BY <1>2, <1>3

LEMMA DaySound ==
  ASSUME IngestInv, DayInv, [Next]_vars
  PROVE  DayInv'
<1>1. CASE UNCHANGED history BY <1>1 DEF DayInv
<1>2. ASSUME NEW status \in {"running", "on_break", "completed"}, MoveDay(status) PROVE DayInv'
  <2>1. /\ history' = Append(history, [status |-> status, from |-> now])
        /\ history[Len(history)].status # "completed"
    BY <1>2 DEF MoveDay
  <2>2. history \in Seq(HistoryRows) /\ Len(history) > 0 /\ \A row \in DOMAIN history : history[row].from <= now
    BY DEF IngestInv, WorldInv
  <2>n. now \in Nat BY PolicyAssumption DEF IngestInv, WorldInv
  <2>3. /\ DOMAIN history = 1..Len(history) /\ DOMAIN history' = 1..(Len(history) + 1)
        /\ Len(history') = Len(history) + 1 /\ Len(history) \in Nat
        /\ \A row \in 1..Len(history) : history'[row] = history[row]
        /\ history'[Len(history) + 1] = [status |-> status, from |-> now]
    BY <2>1, <2>2
  <2>4. history'[Len(history) + 1].status = status /\ history'[Len(history) + 1].from = now BY <2>3
  <2>5. history'[1].status = "ready" /\ \A row \in DOMAIN history' : row > 1 => history'[row].status # "ready"
    BY <2>2, <2>3, <2>4 DEF DayInv
  <2>6. \A row \in DOMAIN history' : history'[row].status = "completed" => row = Len(history')
    BY <2>1, <2>2, <2>3, <2>4 DEF DayInv
  <2>7. \A row, later \in DOMAIN history' : row <= later => history'[row].from <= history'[later].from
    BY <2>2, <2>3, <2>4, <2>n DEF DayInv
  <2> QED BY <2>5, <2>6, <2>7 DEF DayInv
<1> QED BY <1>1, <1>2, HistorySteps

LEMMA DayInitially == Init => DayInv /\ SessionsOfRuns /\ OnlyLateLiveReopens
<1> SUFFICES ASSUME Init PROVE DayInv /\ SessionsOfRuns /\ OnlyLateLiveReopens OBVIOUS
<1>1. history = <<[status |-> "ready", from |-> 0]>> /\ sessions = <<[status |-> "none", points |-> 0]>> BY DEF Init
<1> QED BY <1>1 DEF DayInv, SessionsOfRuns, OnlyLateLiveReopens

(***************************************************************************)
(* The decision of the database and of the shared contract.                *)
(***************************************************************************)

\* A running row that contains an instant begins no earlier than the work and
\* is over no later.
LEMMA RunsInsideWork ==
  ASSUME IngestInv, DayInv, NEW t \in Nat, NEW row \in RunningRows(t)
  PROVE  /\ row \in DOMAIN history /\ row >= 2 /\ Len(history) >= 2
         /\ WorkStart \in Nat /\ WorkStart <= t
         /\ ActualEnd \in Nat
         /\ ActualEnd # Never => /\ row < Len(history) /\ WorkStart <= ActualEnd
                                 /\ t <= ActualEnd /\ Until(row) <= ActualEnd
<1>0. WorldInv /\ history \in Seq(HistoryRows) BY DEF IngestInv, WorldInv
<1>1. row \in DOMAIN history /\ history[row].status = "running" /\ history[row].from <= t BY DEF RunningRows
<1>2. row # 1 /\ row \in Nat /\ row >= 2 /\ Len(history) >= 2 /\ row <= Len(history) BY <1>0, <1>1 DEF DayInv
<1>3. \A i \in DOMAIN history : history[i].from \in Nat /\ history[i].from <= now
  <2> TAKE i \in DOMAIN history
  <2>1. history[i] \in HistoryRows BY <1>0
  <2> QED BY <1>0, <2>1 DEF WorldInv, HistoryRows
<1>4. 2 \in DOMAIN history /\ Len(history) \in DOMAIN history BY <1>0, <1>2
<1>5. WorkStart \in Nat /\ WorkStart <= t
  <2>1. history[2].from <= history[row].from BY <1>1, <1>2, <1>4 DEF DayInv
  <2> QED BY <1>1, <1>3, <1>4, <2>1 DEF WorkStart
<1>6. ActualEnd \in Nat BY <1>3, <1>4, NeverIsLater DEF ActualEnd
<1>7. ASSUME ActualEnd # Never
      PROVE  row < Len(history) /\ WorkStart <= ActualEnd /\ t <= ActualEnd /\ Until(row) <= ActualEnd
  <2>1. history[Len(history)].status = "completed" /\ ActualEnd = history[Len(history)].from BY <1>7 DEF ActualEnd
  <2>2. row < Len(history) BY <1>1, <1>2, <2>1
  <2>3. row + 1 \in DOMAIN history /\ Until(row) = history[row + 1].from BY <1>0, <1>2, <2>2 DEF Until
  <2>4. Until(row) <= ActualEnd /\ WorkStart <= ActualEnd
    BY <1>2, <1>4, <2>1, <2>2, <2>3 DEF DayInv, WorkStart
  <2>5. Until(row) \in Nat BY <1>3, <2>3
  <2>6. t <= Until(row) BY <2>5 DEF RunningRows
  <2> QED BY <1>6, <2>2, <2>4, <2>5, <2>6
<1> QED BY <1>1, <1>2, <1>5, <1>6, <1>7

\* With the instants of the day, the contract decides by age and lateness only.
LEMMA ContractOfWork ==
  ASSUME IngestInv, DayInv, NEW e \in Catalog, NEW received \in Nat, Resolution(e.captured) = "valid"
  PROVE  ContractDecision(e, received) =
             IF e.captured > received + Skew THEN "rejected"
             ELSE IF ~(ActualEnd # Never /\ received > ActualEnd) /\ received - e.captured <= Live THEN "accepted_live"
             ELSE IF received <= (IF ActualEnd # Never THEN ActualEnd ELSE e.captured) + Backfill THEN "accepted_delayed"
             ELSE "rejected"
<1> DEFINE input == [captured |-> e.captured, received |-> received, started |-> WorkStart,
                     ended |-> ActualEnd # Never, end |-> ActualEnd, identified |-> TRUE,
                     evidence |-> [k \in Capture!EvidenceKinds |-> "valid"]]
           policy == [live |-> Live, backfill |-> Backfill, skew |-> Skew]
<1>0. e.captured \in Nat /\ Live \in Nat /\ Backfill \in Nat /\ Skew \in Nat BY CatalogAssumption, PolicyAssumption
<1>1. RunningRows(e.captured) # {} BY DEF Resolution
<1>2. PICK row : row \in RunningRows(e.captured) BY <1>1
<1>3. /\ WorkStart \in Nat /\ WorkStart <= e.captured /\ ActualEnd \in Nat
      /\ ActualEnd # Never => WorkStart <= ActualEnd /\ e.captured <= ActualEnd
  BY <1>0, <1>2, RunsInsideWork
<1>4. Capture!ValidPolicy(policy) BY <1>0 DEF Capture!ValidPolicy
<1>5. Capture!AllProved(input) BY DEF Capture!AllProved
<1>6. /\ Capture!InsideLive(input, policy)
           <=> ~(ActualEnd # Never /\ received > ActualEnd) /\ received - e.captured <= Live
      /\ Capture!BackfillCutoff(input, policy) = (IF ActualEnd # Never THEN ActualEnd ELSE e.captured) + Backfill
  BY DEF Capture!InsideLive, Capture!BackfillCutoff
<1>7. /\ input.captured = e.captured /\ input.received = received /\ input.started = WorkStart /\ input.identified = TRUE
      /\ input.ended <=> ActualEnd # Never
      /\ input.end = ActualEnd /\ policy.skew = Skew
  OBVIOUS
<1>8. ContractDecision(e, received) = Capture!Decide(input, policy).disposition BY DEF ContractDecision
<1> HIDE DEF input, policy
<1>9. Capture!TimesParse(input) BY <1>0, <1>3, <1>7 DEF Capture!TimesParse, Capture!NoTime
<1>10. Capture!Decide(input, policy) =
           IF e.captured > received + Skew THEN Capture!Rejected("captured_time_future_skew")
           ELSE IF Capture!InsideLive(input, policy) THEN Capture!AcceptedLive
           ELSE IF received <= Capture!BackfillCutoff(input, policy) THEN Capture!AcceptedDelayed
           ELSE Capture!Rejected("delayed_backfill_expired")
  BY <1>0, <1>3, <1>4, <1>9, <1>5, <1>7 DEF Capture!Decide
<1>11. /\ Capture!AcceptedLive.disposition = "accepted_live" /\ Capture!AcceptedDelayed.disposition = "accepted_delayed"
       /\ \A reason : Capture!Rejected(reason).disposition = "rejected"
  BY DEF Capture!AcceptedLive, Capture!AcceptedDelayed, Capture!Rejected
<1> QED BY <1>6, <1>8, <1>10, <1>11

\* Without an objection of its own the database decides by the same rule, but
\* calls live only what arrives before the row is over.
LEMMA DatabaseDecides ==
  ASSUME Live <= Backfill, IngestInv, DayInv, NEW e \in Catalog, NEW received \in Nat,
         e.location, ~Stale(e), Resolution(e.captured) = "valid"
  PROVE  LET decided == ContractDecision(e, received)
         IN  IF decided = "rejected" THEN Disposition(e, received) \notin Positioned
             ELSE \/ Disposition(e, received) = decided
                  \/ Disposition(e, received) = "accepted_delayed" /\ received > Until(RowOf(e))
<1>0. e.captured \in Nat /\ Live \in Nat /\ Backfill \in Nat /\ Skew \in Nat BY CatalogAssumption, PolicyAssumption
<1>1. RowOf(e) \in RunningRows(e.captured) BY DEF Resolution, RowOf
<1>2. /\ RowOf(e) \in DOMAIN history /\ ActualEnd \in Nat
      /\ ActualEnd # Never => e.captured <= ActualEnd /\ Until(RowOf(e)) <= ActualEnd
  BY <1>0, <1>1, RunsInsideWork
<1>3. Until(RowOf(e)) \in Nat BY <1>2, UntilIsTime DEF IngestInv
<1>4. Objection(e, received) = IF e.captured > received + Skew THEN "captured_time_invalid"
                               ELSE IF Expired(e, received) THEN "delayed_backfill_expired" ELSE "valid"
  BY DEF Objection
<1>5. Disposition(e, received) =
          IF Objection(e, received) = "valid"
          THEN IF IsLive(e, received) THEN "accepted_live" ELSE "accepted_delayed" ELSE "rejected"
  BY <1>4 DEF Disposition, HealthMayStay
<1>6. Expired(e, received) <=> received > (IF ActualEnd # Never THEN ActualEnd ELSE e.captured) + Backfill
  BY DEF Expired
<1>7. IsLive(e, received) <=> received <= Until(RowOf(e)) /\ received - e.captured <= Live BY DEF IsLive
<1>8. ContractDecision(e, received) =
             IF e.captured > received + Skew THEN "rejected"
             ELSE IF ~(ActualEnd # Never /\ received > ActualEnd) /\ received - e.captured <= Live THEN "accepted_live"
             ELSE IF received <= (IF ActualEnd # Never THEN ActualEnd ELSE e.captured) + Backfill THEN "accepted_delayed"
             ELSE "rejected"
  BY ContractOfWork
<1>9. CASE e.captured > received + Skew BY <1>4, <1>5, <1>8, <1>9 DEF Positioned
<1>10. CASE ~(e.captured > received + Skew) /\ Expired(e, received)
  <2>1. Disposition(e, received) = "rejected" BY <1>4, <1>5, <1>10
  <2>2. ContractDecision(e, received) = "rejected" BY <1>0, <1>2, <1>6, <1>8, <1>10
  <2> QED BY <2>1, <2>2 DEF Positioned
<1>11. CASE ~(e.captured > received + Skew) /\ ~Expired(e, received)
  <2>1. Disposition(e, received) = IF IsLive(e, received) THEN "accepted_live" ELSE "accepted_delayed"
    BY <1>4, <1>5, <1>11
  <2>2. ContractDecision(e, received) =
            IF ~(ActualEnd # Never /\ received > ActualEnd) /\ received - e.captured <= Live
            THEN "accepted_live" ELSE "accepted_delayed"
    BY <1>0, <1>2, <1>6, <1>8, <1>11
  <2> QED BY <1>2, <1>3, <1>7, <2>1, <2>2
<1> QED BY <1>9, <1>10, <1>11

(***************************************************************************)
(* The sessions of rows that are over.                                     *)
(***************************************************************************)

\* What storing an event makes of the session of its row.
LEMMA StoredSession ==
  ASSUME IngestInv, NEW e \in Catalog, NEW received \in 0..now, Store(e, received)
  PROVE  \/ UNCHANGED sessions /\ receipts \subseteq receipts'
         \/ \E row \in DOMAIN sessions :
              /\ receipts \subseteq receipts' /\ history[row].status = "running"
              /\ sessions' = [sessions EXCEPT ![row] = SessionAfter(e, received, row)]
              /\ Disposition(e, received) = "accepted_live" =>
                     \E x \in receipts' : x.row = row /\ x.disposition = "accepted_live" /\ x.received <= Until(row)
<1> DEFINE x == Receipt(e, received)
<1>1. /\ x.captured = e.captured /\ x.received = received /\ x.disposition = Disposition(e, received)
      /\ x.row = IF Disposition(e, received) \in Positioned THEN RowOf(e) ELSE 0
  BY ReceiptFields
<1>2. /\ receipts' = receipts \cup {x}
      /\ sessions' = IF x.row = 0 THEN sessions
                     ELSE [sessions EXCEPT ![x.row] = SessionAfter(e, received, x.row)]
  BY DEF Store
<1> HIDE DEF x
<1>3. WorldInv /\ e.captured \in Nat /\ received \in Nat /\ DOMAIN sessions = DOMAIN history
  BY CatalogAssumption, PolicyAssumption DEF IngestInv, WorldInv, EvidenceInv
<1>4. CASE x.row = 0 BY <1>2, <1>4
<1>5. CASE x.row # 0
  <2>1. Disposition(e, received) \in Positioned /\ x.row = RowOf(e) BY <1>1, <1>5
  <2>2. x.row \in DOMAIN sessions /\ history[x.row].status = "running" BY <1>3, <2>1, PositionIsAuthorised
  <2>3. Disposition(e, received) = "accepted_live" => received <= Until(x.row)
    BY <2>1 DEF Disposition, IsLive
  <2> QED BY <1>1, <1>2, <1>5, <2>2, <2>3
<1> QED BY <1>4, <1>5

LEMMA LastRunningIsLast ==
  ASSUME WorldInv, history[Len(history)].status = "running"
  PROVE  LastRunning = Len(history)
<1>1. Len(history) \in DOMAIN history /\ DOMAIN history = 1..Len(history) /\ Len(history) \in Nat BY DEF WorldInv
<1>2. \E row \in DOMAIN history : /\ history[row].status = "running"
                                  /\ \A later \in DOMAIN history : later > row => history[later].status # "running"
  BY <1>1
<1>3. /\ LastRunning \in DOMAIN history /\ history[LastRunning].status = "running"
      /\ \A later \in DOMAIN history : later > LastRunning => history[later].status # "running"
  BY <1>2 DEF LastRunning
<1> QED BY <1>1, <1>3

\* When a row of the day is over, its own session runs no more: a break pauses
\* it and the end of the day completes it.
LEMMA MovedSessions ==
  ASSUME IngestInv, SessionsOfRuns, NEW status \in {"running", "on_break", "completed"}, MoveDay(status)
  PROVE  /\ DOMAIN sessions = 1..Len(history) /\ DOMAIN sessions' = 1..(Len(history) + 1)
         /\ Len(history) \in Nat /\ sessions'[Len(history) + 1].status = "none"
         /\ \A row \in 1..Len(history) :
                /\ sessions'[row].status = "running" => sessions[row].status = "running" /\ row # Len(history)
                /\ sessions'[row].status # "none" => sessions[row].status # "none"
<1>0. WorldInv /\ EvidenceInv BY DEF IngestInv
<1>1. /\ sessions' = Append(SessionsOn(status), NoSession)
      /\ <<history[Len(history)].status, status>> \in {<<"ready", "running">>, <<"running", "on_break">>,
                <<"on_break", "running">>, <<"running", "completed">>, <<"on_break", "completed">>}
  BY DEF MoveDay
<1>2. /\ SessionsOn(status) \in Seq(SessionRecords) /\ Len(SessionsOn(status)) = Len(history)
      /\ DOMAIN sessions = 1..Len(history) /\ Len(history) \in Nat /\ Len(history) > 0 /\ DOMAIN history = 1..Len(history)
  BY <1>0, SessionsOnKeep DEF EvidenceInv, WorldInv
<1>3. NoSession \in SessionRecords /\ NoSession.status = "none" BY DEF NoSession, SessionRecords
<1>4. \A row \in 1..Len(history) : sessions[row] \in SessionRecords BY <1>0, <1>2 DEF EvidenceInv
<1>5. /\ DOMAIN sessions' = 1..(Len(history) + 1) /\ sessions'[Len(history) + 1].status = "none"
      /\ \A row \in 1..Len(history) : sessions'[row] = SessionsOn(status)[row]
  <2> HIDE DEF NoSession, SessionsOn
  <2> QED BY <1>1, <1>2, <1>3
<1>6. \A row \in 1..Len(history) :
          /\ SessionsOn(status)[row].status = "running" => sessions[row].status = "running" /\ row # Len(history)
          /\ SessionsOn(status)[row].status # "none" => sessions[row].status # "none"
  <2>1. CASE status = "on_break"
    <3>1. LastRunning = Len(history) BY <1>0, <1>1, <2>1, LastRunningIsLast
    <3>2. SessionsOn(status) = [sessions EXCEPT ![Len(history)].status = IF @ = "none" THEN @ ELSE "paused"]
      BY <2>1, <3>1 DEF SessionsOn
    <3>3. \A row \in 1..Len(history) : row # Len(history) => SessionsOn(status)[row] = sessions[row] BY <1>2, <3>2
    <3>4. SessionsOn(status)[Len(history)].status =
              IF sessions[Len(history)].status = "none" THEN "none" ELSE "paused"
      BY <1>2, <1>4, <3>2 DEF SessionRecords
    <3> QED BY <3>3, <3>4
  <2>2. CASE status = "completed"
    <3>1. SessionsOn(status) = [row \in DOMAIN sessions |->
                IF sessions[row].status \in {"running", "paused"}
                THEN [sessions[row] EXCEPT !.status = "completed"] ELSE sessions[row]]
      BY <2>2 DEF SessionsOn
    <3>2. \A row \in 1..Len(history) :
              SessionsOn(status)[row].status =
                  IF sessions[row].status \in {"running", "paused"} THEN "completed" ELSE sessions[row].status
      BY <1>2, <1>4, <3>1 DEF SessionRecords
    <3> QED BY <3>2
  <2>3. CASE status = "running"
    <3>1. SessionsOn(status) = sessions BY <2>3 DEF SessionsOn
    <3>2. history[Len(history)].status # "running" BY <1>1, <2>3
    <3>3. sessions[Len(history)].status = "none" BY <1>2, <3>2 DEF SessionsOfRuns
    <3> QED BY <3>1, <3>3
  <2> QED BY <2>1, <2>2, <2>3
<1> QED BY <1>2, <1>5, <1>6

LEMMA SessionsOfRunsSound ==
  ASSUME IngestInv, SessionsOfRuns, OnlyLateLiveReopens, [Next]_vars
  PROVE  SessionsOfRuns' /\ OnlyLateLiveReopens'
<1>0. WorldInv /\ EvidenceInv /\ DOMAIN sessions = DOMAIN history
  BY DEF IngestInv, WorldInv, EvidenceInv
<1>u. UNCHANGED history => \A row : Until(row)' = Until(row) BY DEF Until
<1>1. CASE UNCHANGED <<history, sessions>> /\ receipts \subseteq receipts'
  BY <1>u, <1>1 DEF SessionsOfRuns, OnlyLateLiveReopens
<1>2. ASSUME UNCHANGED history, NEW e \in Catalog, NEW received \in 0..now, Store(e, received)
      PROVE  SessionsOfRuns' /\ OnlyLateLiveReopens'
  <2>1. CASE UNCHANGED sessions /\ receipts \subseteq receipts' BY <1>1, <1>2, <2>1
  <2>2. CASE ~(UNCHANGED sessions /\ receipts \subseteq receipts')
    <3>1. PICK row \in DOMAIN sessions :
              /\ receipts \subseteq receipts' /\ history[row].status = "running"
              /\ sessions' = [sessions EXCEPT ![row] = SessionAfter(e, received, row)]
              /\ Disposition(e, received) = "accepted_live" =>
                     \E x \in receipts' : x.row = row /\ x.disposition = "accepted_live" /\ x.received <= Until(row)
      BY <1>2, <2>2, StoredSession
    <3>2. /\ DOMAIN sessions' = DOMAIN sessions
          /\ \A other \in DOMAIN sessions : other # row => sessions'[other] = sessions[other]
          /\ sessions'[row] = SessionAfter(e, received, row)
      BY <3>1
    <3>3. SessionsOfRuns' BY <1>2, <3>1, <3>2 DEF SessionsOfRuns
    <3>4. sessions'[row].status = "running"
              => \/ Disposition(e, received) = "accepted_live"
                 \/ sessions[row].status = "running"
      BY <3>2 DEF SessionAfter
    <3>5. OnlyLateLiveReopens' BY <1>u, <1>2, <3>1, <3>2, <3>4 DEF OnlyLateLiveReopens
    <3> QED BY <3>3, <3>5
  <2> QED BY <2>1, <2>2
<1>3. ASSUME NEW status \in {"running", "on_break", "completed"}, MoveDay(status)
      PROVE  SessionsOfRuns' /\ OnlyLateLiveReopens'
  <2>1. history' = Append(history, [status |-> status, from |-> now]) /\ UNCHANGED receipts BY <1>3 DEF MoveDay
  <2>2. /\ DOMAIN history = 1..Len(history) /\ Len(history') = Len(history) + 1
        /\ \A row \in 1..Len(history) : history'[row] = history[row]
    BY <1>0, <2>1 DEF WorldInv
  <2>3. /\ DOMAIN sessions = 1..Len(history) /\ DOMAIN sessions' = 1..(Len(history) + 1)
        /\ Len(history) \in Nat /\ sessions'[Len(history) + 1].status = "none"
        /\ \A row \in 1..Len(history) :
               /\ sessions'[row].status = "running" => sessions[row].status = "running" /\ row # Len(history)
               /\ sessions'[row].status # "none" => sessions[row].status # "none"
    BY <1>3, MovedSessions
  <2>4. SessionsOfRuns'
    <3>1. ASSUME NEW row \in DOMAIN sessions', sessions'[row].status # "none" PROVE history'[row].status = "running"
      <4>1. row \in 1..Len(history) /\ sessions[row].status # "none" BY <2>3, <3>1
      <4>2. history[row].status = "running" BY <2>3, <4>1 DEF SessionsOfRuns
      <4> QED BY <2>2, <4>1, <4>2
    <3> QED BY <3>1 DEF SessionsOfRuns
  <2>5. ASSUME NEW row \in DOMAIN sessions', sessions'[row].status = "running"
        PROVE  \E x \in receipts : x.row = row /\ x.disposition = "accepted_live" /\ x.received <= Until(row)'
    <3>1. row \in 1..Len(history) /\ row # Len(history) /\ sessions[row].status = "running" BY <2>3, <2>5
    <3>2. Until(row) # Never BY <1>0, <2>2, <3>1, UntilOver
    <3>3. Until(row)' = Until(row)
      <4>0. Len(history) \in Nat /\ Len(history') = Len(history) + 1 BY <2>2, <2>3
      <4>1. row + 1 \in 1..Len(history) /\ row # Len(history') BY <3>1, <4>0
      <4>2. Until(row)' = history'[row + 1].from BY <4>1 DEF Until
      <4>3. Until(row) = history[row + 1].from BY <3>1 DEF Until
      <4> QED BY <2>2, <4>1, <4>2, <4>3
    <3> QED BY <2>3, <3>1, <3>2, <3>3 DEF OnlyLateLiveReopens
  <2>6. OnlyLateLiveReopens' BY <2>1, <2>5 DEF OnlyLateLiveReopens
  <2> QED BY <2>4, <2>6
<1>4. CASE UNCHANGED history
  BY <1>1, <1>2, <1>4, EvidenceSteps DEF MoveDay
<1> QED BY <1>3, <1>4, HistorySteps

(***************************************************************************)
(* What the device was told.                                               *)
(***************************************************************************)

\* An answer that is true stays true: evidence is never lost.
LEMMA AnswersKeep ==
  ASSUME NEW e, NEW result, AnswerHolds(e, result), receipts \subseteq receipts', conflicts \subseteq conflicts'
  PROVE  AnswerHolds(e, result)'
<1>1. SameEvent(e) \subseteq SameEvent(e)' /\ SameSequence(e) \subseteq SameSequence(e)' BY DEF SameEvent, SameSequence
<1> QED BY <1>1 DEF AnswerHolds

\* The database answers what its transaction has done.
LEMMA PersistAnswers ==
  ASSUME NEW e, NEW received, NEW answer, Persist(e, received, answer)
  PROVE  AnswerHolds(e, answer)'
<1> DEFINE x == Receipt(e, received)
<1>1. CASE Known(e) = {}
  <2>1. receipts' = receipts \cup {x} /\ answer = Disposition(e, received) BY <1>1 DEF Persist, Store
  <2>2. x.id = e.id /\ x.content = e.content /\ x.disposition = answer BY <2>1, ReceiptFields
  <2>3. answer # "duplicate" /\ answer # "duplicate_conflict" BY <2>1 DEF Disposition
  <2> HIDE DEF x
  <2> QED BY <2>1, <2>2, <2>3 DEF AnswerHolds
<1>2. CASE Known(e) # {}
  <2>1. /\ conflicts' = IF Repeated(e) THEN conflicts ELSE conflicts \cup {<<y.id, e.content>> : y \in Known(e)}
        /\ answer = IF Repeated(e) THEN "duplicate" ELSE "duplicate_conflict"
        /\ UNCHANGED receipts
    BY <1>2 DEF Persist
  <2>2. Known(e) \subseteq SameEvent(e) \cup SameSequence(e) BY DEF Known
  <2>3. (SameEvent(e) \cup SameSequence(e))' = SameEvent(e) \cup SameSequence(e)
    BY <2>1 DEF SameEvent, SameSequence
  <2>4. answer \notin Positioned \cup {"health_only"} BY <2>1 DEF Positioned
  <2>5. CASE Repeated(e) BY <2>1, <2>2, <2>3, <2>4, <2>5 DEF AnswerHolds, Repeated
  <2>6. CASE ~Repeated(e) BY <1>2, <2>1, <2>2, <2>3, <2>4, <2>6 DEF AnswerHolds, Repeated
  <2> QED BY <2>5, <2>6
<1> QED BY <1>1, <1>2

\* A request reports one result more, or none, or what it reported before.
LEMMA ResultSteps ==
  ASSUME IngestInv, [Next]_vars, NEW r \in Request, "results" \in DOMAIN host'[r]
  PROVE  \/ host'[r].results = <<>>
         \/ /\ "results" \in DOMAIN host[r]
            /\ host'[r].results = host[r].results /\ host'[r].batch = host[r].batch
         \/ /\ "results" \in DOMAIN host[r] /\ host[r].results \in Seq(Answers)
            /\ host'[r].batch = host[r].batch
            /\ \E e \in Catalog, result \in Answers :
                   /\ host'[r].results = Append(host[r].results, result)
                   /\ e = Current(r) /\ AnswerHolds(e, result)'
<1> DEFINE Goal == \/ host'[r].results = <<>>
                   \/ /\ "results" \in DOMAIN host[r]
                      /\ host'[r].results = host[r].results /\ host'[r].batch = host[r].batch
                   \/ /\ "results" \in DOMAIN host[r] /\ host[r].results \in Seq(Answers)
                      /\ host'[r].batch = host[r].batch
                      /\ \E e \in Catalog, result \in Answers :
                             /\ host'[r].results = Append(host[r].results, result)
                             /\ e = Current(r) /\ AnswerHolds(e, result)'
<1>0. HostInv /\ DOMAIN host = Request BY DEF IngestInv
<1>1. CASE host'[r] = host[r] BY <1>1
<1>2. CASE \E status : Answer(r, status)
  <2>1. PICK status : host'[r] = [stage |-> "answered", status |-> status] BY <1>0, <1>2 DEF Answer
  <2>2. "results" \notin DOMAIN host'[r] BY <2>1
  <2> QED BY <2>2
<1>3. ASSUME NEW stage, Go(r, stage), host[r].stage \in Active PROVE Goal
  <2>1. host'[r] = [host[r] EXCEPT !.stage = stage] BY <1>0, <1>3 DEF Go
  <2>2. host[r] = [stage |-> host[r].stage, ticket |-> host[r].ticket, received |-> host[r].received,
                   batch |-> host[r].batch, results |-> host[r].results]
    BY <1>0, <1>3 DEF HostInv
  <2>3. "results" \in DOMAIN host[r] BY <2>2
  <2>4. host'[r].results = host[r].results /\ host'[r].batch = host[r].batch BY <2>1, <2>2
  <2> QED BY <2>3, <2>4
<1>4. ASSUME NEW e \in Catalog, NEW result \in Answers, Finish(r, result), At(r, "events"),
             e = Current(r), AnswerHolds(e, result)'
      PROVE  Goal
  <2> DEFINE results == Append(host[r].results, result)
  <2>1. /\ host[r] = [stage |-> "events", ticket |-> host[r].ticket, received |-> host[r].received,
                      batch |-> host[r].batch, results |-> host[r].results]
        /\ host[r].results \in Seq(Answers)
    BY <1>0, <1>4 DEF HostInv, At, Active
  <2>2. host'[r] = IF Len(results) < Len(host[r].batch.events) THEN [host[r] EXCEPT !.results = results]
                   ELSE [stage |-> "answered", status |-> 202, batch |-> host[r].batch, results |-> results]
    BY <1>0, <1>4 DEF Finish
  <2> HIDE DEF results
  <2>3. host'[r].results = results /\ host'[r].batch = host[r].batch BY <2>1, <2>2
  <2>4. "results" \in DOMAIN host[r] BY <2>1
  <2> QED BY <1>4, <2>1, <2>3, <2>4 DEF results
<1>5. ASSUME NEW q \in Request, HostStep(q) PROVE Goal
  <2>1. CASE q # r
    <3>1. host'[r] = host[r]
      BY <1>0, <1>5, <2>1 DEF HostStep, Reserve, Verify, ChargeRequest, ChargeEvents, RejectEvent, PersistEvent,
         PersistRaises, Answer, Go, Finish
    <3> QED BY <1>1, <3>1
  <2>2. CASE q = r
    <3>1. CASE Reserve(r) \/ Verify(r) \/ ChargeRequest(r) \/ ChargeEvents(r) \/ PersistRaises(r)
      <4>1. host[r].stage \in Active
        BY <3>1 DEF Reserve, Verify, ChargeRequest, ChargeEvents, PersistRaises, At, Active
      <4>2. (\E status : Answer(r, status)) \/ \E stage : Go(r, stage)
        BY <3>1 DEF Reserve, Verify, ChargeRequest, ChargeEvents, PersistRaises
      <4> QED BY <1>2, <1>3, <4>1, <4>2
    <3>2. CASE RejectEvent(r)
      <4>1. PICK e \in Catalog : e = Current(r) BY <1>0, <3>2, CurrentIsVendorEvent DEF RejectEvent
      <4>2. "rejected" \in Answers /\ AnswerHolds(e, "rejected")' BY DEF Answers, AnswerHolds, Positioned
      <4> QED BY <1>4, <3>2, <4>1, <4>2 DEF RejectEvent
    <3>3. CASE PersistEvent(r)
      <4>1. PICK result \in Answers : Persist(Current(r), host[r].received, result) /\ Finish(r, result)
        BY <3>3 DEF PersistEvent, Answers
      <4>2. PICK e \in Catalog, received \in 0..now : e = Current(r) /\ received = host[r].received
        BY <1>0, <3>3, CurrentIsVendorEvent DEF PersistEvent
      <4>3. Persist(e, received, result) BY <4>1, <4>2
      <4>4. AnswerHolds(e, result)' BY <4>3, PersistAnswers
      <4> QED BY <1>4, <3>3, <4>1, <4>2, <4>4 DEF PersistEvent
    <3> QED BY <1>5, <2>2, <3>1, <3>2, <3>3 DEF HostStep
  <2> QED BY <2>1, <2>2
<1>6. ASSUME NEW q \in Request, Fail(q) \/ LoseAnswer(q) PROVE Goal
  <2>1. \E status : Answer(q, status) BY <1>6 DEF Fail, LoseAnswer
  <2>2. CASE q # r
    <3>1. host'[r] = host[r] BY <1>0, <2>1, <2>2 DEF Answer
    <3> QED BY <1>1, <3>1
  <2> QED BY <1>2, <2>1, <2>2
<1>7. ASSUME NEW q \in Request, NEW b \in Batches, Send(q, b) PROVE Goal
  <2>1. host' = [host EXCEPT ![q] = [stage |-> "reserve", ticket |-> sends, received |-> now,
                                     batch |-> b, results |-> <<>>]]
    BY <1>7 DEF Send
  <2>2. CASE q # r
    <3>1. host'[r] = host[r] BY <1>0, <2>1, <2>2
    <3> QED BY <1>1, <3>1
  <2>3. CASE q = r BY <1>0, <2>1, <2>3
  <2> QED BY <2>2, <2>3
<1>8. CASE World \/ UNCHANGED vars
  <2>1. host' = host
    BY <1>8 DEF World, Tick, AssignElsewhere, SuspendDevice, EndAuthority, EndCredential, Change, MoveDay, vars
  <2> QED BY <1>1, <2>1
<1> QED BY <1>5, <1>6, <1>7, <1>8 DEF Next

LEMMA AnswersSound ==
  ASSUME IngestInv, AnswersAreTrue, [Next]_vars
  PROVE  AnswersAreTrue'
<1> SUFFICES ASSUME NEW r \in Request, "results" \in DOMAIN host'[r], NEW i \in DOMAIN host'[r].results,
                    NEW e, e = host'[r].batch.events[i], NEW result, result = host'[r].results[i]
             PROVE  AnswerHolds(e, result)'
  BY DEF AnswersAreTrue
<1>1. receipts \subseteq receipts' /\ conflicts \subseteq conflicts' BY EvidenceGrows
<1>2. CASE host'[r].results = <<>>
  <2>1. DOMAIN host'[r].results = {} BY <1>2
  <2> QED BY <2>1
<1>3. CASE /\ "results" \in DOMAIN host[r] /\ i \in DOMAIN host[r].results
           /\ host'[r].results[i] = host[r].results[i] /\ host'[r].batch = host[r].batch
  <2>1. AnswerHolds(e, result) BY <1>3 DEF AnswersAreTrue
  <2> QED BY <1>1, <2>1, AnswersKeep
<1>4. ASSUME "results" \in DOMAIN host[r], host[r].results \in Seq(Answers), host'[r].batch = host[r].batch,
             NEW event \in Catalog, NEW last \in Answers,
             host'[r].results = Append(host[r].results, last), event = Current(r), AnswerHolds(event, last)'
      PROVE  AnswerHolds(e, result)'
  <2> DEFINE n == Len(host[r].results)
  <2>1. /\ DOMAIN host[r].results = 1..n /\ n \in Nat /\ DOMAIN host'[r].results = 1..(n + 1)
        /\ host'[r].results[n + 1] = last /\ \A k \in 1..n : host'[r].results[k] = host[r].results[k]
    BY <1>4
  <2>2. CASE i \in 1..n BY <1>3, <1>4, <2>1, <2>2
  <2>3. CASE i = n + 1
    <3>1. e = event /\ result = last BY <1>4, <2>1, <2>3 DEF Current
    <3> QED BY <1>4, <3>1
  <2> QED BY <2>1, <2>2, <2>3
<1> QED BY <1>2, <1>3, <1>4, ResultSteps

(***************************************************************************)
(* The limits of a window.                                                 *)
(***************************************************************************)

\* The reservations of a window that nobody has given back, which its bucket
\* counts.
Held(w) == {v \in reservations : v.window = w /\ ~v.refunded}
ReservationsInv ==
    /\ IsFiniteSet(reservations)
    /\ \A v \in reservations : "refunded" \in DOMAIN v
    /\ \A w \in Windows : Cardinality(Held(w)) <= unauth[w] /\ Cardinality(Held(w)) <= UnauthLimit

\* The events of the window that were charged and have no result yet.  What
\* is stored and what may still be stored was charged, within the limit.
Owes(r, w) ==
    IF host[r].stage = "events" /\ Window(host[r].received) = w
    THEN (Len(host[r].results) + 1)..Len(host[r].batch.events) ELSE {}
Owed(w) == {p \in Request \X Nat : p[2] \in Owes(p[1], w)}
StoredIn(w) == {x \in receipts : Window(x.received) = w}
ChargesInv ==
    \A w \in Windows :
        /\ IsFiniteSet(Owed(w))
        /\ Cardinality(StoredIn(w)) + Cardinality(Owed(w)) <= counted[w]
        /\ Cardinality(StoredIn(w)) + Cardinality(Owed(w)) <= EventLimit

LEMMA LimitsInitially == Init => ReservationsInv /\ ChargesInv
<1> SUFFICES ASSUME Init PROVE ReservationsInv /\ ChargesInv OBVIOUS
<1>1. IsFiniteSet({}) /\ Cardinality({}) = 0 BY FS_EmptySet
<1>2. reservations = {} /\ receipts = {} /\ host = [r \in Request |-> Idle] BY DEF Init
<1>3. \A w \in Windows : unauth[w] = 0 /\ counted[w] = 0 BY DEF Init
<1>4. \A w : Held(w) = {} /\ StoredIn(w) = {} BY <1>2 DEF Held, StoredIn
<1>5. \A w : Owed(w) = {} BY <1>2 DEF Owed, Owes, Idle
<1>6. UnauthLimit \in Nat /\ EventLimit \in Nat BY PolicyAssumption
<1>7. ReservationsInv BY <1>1, <1>2, <1>3, <1>4, <1>6 DEF ReservationsInv
<1>8. ChargesInv
  <2> SUFFICES ASSUME NEW w \in Windows
               PROVE  /\ IsFiniteSet(Owed(w))
                      /\ Cardinality(StoredIn(w)) + Cardinality(Owed(w)) <= counted[w]
                      /\ Cardinality(StoredIn(w)) + Cardinality(Owed(w)) <= EventLimit
    BY DEF ChargesInv
  <2>1. Owed(w) = {} /\ StoredIn(w) = {} /\ counted[w] = 0 BY <1>3, <1>4, <1>5
  <2>2. Cardinality(StoredIn(w)) + Cardinality(Owed(w)) = 0 BY <1>1, <2>1
  <2> QED BY <1>1, <1>6, <2>1, <2>2
<1> QED BY <1>7, <1>8

LEMMA ReservedSound ==
  ASSUME LimitInv, ReservationsInv, NEW r \in Request, Reserved(r)
  PROVE  ReservationsInv'
<1> DEFINE w0 == Window(host[r].received)
           v0 == [ticket |-> host[r].ticket, window |-> w0, refunded |-> FALSE]
<1>1. /\ unauth' = [unauth EXCEPT ![w0] = unauth[w0] + 1]
      /\ reservations' = IF unauth[w0] < UnauthLimit THEN reservations \cup {v0} ELSE reservations
  BY DEF Reserved
<1>2. v0.window = w0 /\ "refunded" \in DOMAIN v0 OBVIOUS
<1> HIDE DEF v0, w0
<1>3. /\ IsFiniteSet(reservations')
      /\ \A v \in reservations' : "refunded" \in DOMAIN v
  BY <1>1, <1>2, FS_AddElement DEF ReservationsInv
<1>4. ASSUME NEW w \in Windows
      PROVE  Cardinality(Held(w)') <= unauth'[w] /\ Cardinality(Held(w)') <= UnauthLimit
  <2>1. /\ IsFiniteSet(Held(w)) /\ Cardinality(Held(w)) \in Nat /\ Cardinality(Held(w)) <= unauth[w]
        /\ Cardinality(Held(w)) <= UnauthLimit /\ unauth[w] \in Nat /\ UnauthLimit \in Nat
    BY FS_Subset, FS_CardinalityType, PolicyAssumption DEF ReservationsInv, LimitInv, Held
  <2>2. unauth'[w] = IF w = w0 THEN unauth[w] + 1 ELSE unauth[w] BY <1>1 DEF LimitInv
  <2>3. CASE Held(w)' = Held(w) BY <2>1, <2>2, <2>3
  <2>4. CASE w = w0 /\ unauth[w] < UnauthLimit
    <3>1. Held(w)' \subseteq Held(w) \cup {v0} BY <1>1, <2>4 DEF Held
    <3>2. IsFiniteSet(Held(w) \cup {v0}) /\ Cardinality(Held(w) \cup {v0}) <= Cardinality(Held(w)) + 1
      <4>1. Cardinality(Held(w) \cup {v0}) = IF v0 \in Held(w) THEN Cardinality(Held(w)) ELSE Cardinality(Held(w)) + 1
        BY <2>1, FS_AddElement
      <4>2. IsFiniteSet(Held(w) \cup {v0}) BY <2>1, FS_AddElement
      <4> QED BY <2>1, <4>1, <4>2
    <3>3. Cardinality(Held(w)') <= Cardinality(Held(w) \cup {v0}) /\ Cardinality(Held(w)') \in Nat
          /\ Cardinality(Held(w) \cup {v0}) \in Nat
      BY <3>1, <3>2, FS_Subset, FS_CardinalityType
    <3> QED BY <2>1, <2>2, <2>4, <3>2, <3>3
  <2>5. CASE ~(w = w0 /\ unauth[w] < UnauthLimit)
    <3>1. Held(w)' = Held(w) BY <1>1, <1>2, <2>5 DEF Held
    <3> QED BY <2>3, <3>1
  <2> QED BY <2>4, <2>5
<1> QED BY <1>3, <1>4 DEF ReservationsInv

LEMMA VerifiedSound ==
  ASSUME LimitInv, ReservationsInv, NEW r \in Request, Verified(r)
  PROVE  ReservationsInv'
<1>1. CASE UNCHANGED <<unauth, reservations>> BY <1>1 DEF ReservationsInv, Held
<1>2. CASE device.active /\ host[r].received < device.credentialEnd /\ Mine(r) # {}
  <2> DEFINE v == CHOOSE v \in Mine(r) : TRUE
             back == [v EXCEPT !.refunded = TRUE]
  <2>1. /\ reservations' = (reservations \ {v}) \cup {back}
        /\ unauth' = [unauth EXCEPT ![v.window] = IF unauth[v.window] > 0 THEN unauth[v.window] - 1 ELSE 0]
    BY <1>2 DEF Verified
  <2>2. v \in reservations /\ ~v.refunded BY <1>2 DEF Mine
  <2> HIDE DEF v
  <2>3. "refunded" \in DOMAIN v BY <2>2 DEF ReservationsInv
  <2>4. back.refunded = TRUE /\ "refunded" \in DOMAIN back BY <2>3
  <2> HIDE DEF back
  <2>5. /\ IsFiniteSet(reservations')
        /\ \A u \in reservations' : "refunded" \in DOMAIN u
    <3>1. IsFiniteSet(reservations \ {v}) BY FS_RemoveElement DEF ReservationsInv
    <3>2. IsFiniteSet(reservations') BY <2>1, <3>1, FS_AddElement
    <3> QED BY <2>1, <2>4, <3>2 DEF ReservationsInv
  <2>6. ASSUME NEW w \in Windows
        PROVE  Cardinality(Held(w)') <= unauth'[w] /\ Cardinality(Held(w)') <= UnauthLimit
    <3>1. /\ IsFiniteSet(Held(w)) /\ Cardinality(Held(w)) \in Nat /\ Cardinality(Held(w)) <= unauth[w]
          /\ Cardinality(Held(w)) <= UnauthLimit /\ unauth[w] \in Nat /\ UnauthLimit \in Nat
      BY FS_Subset, FS_CardinalityType, PolicyAssumption DEF ReservationsInv, LimitInv, Held
    <3>2. Held(w)' = Held(w) \ {v} BY <2>1, <2>4 DEF Held
    <3>3. CASE w = v.window
      <4>1. v \in Held(w) BY <2>2, <3>3 DEF Held
      <4>2. Cardinality(Held(w)') = Cardinality(Held(w)) - 1 BY <3>1, <3>2, <4>1, FS_RemoveElement
      <4>3. Cardinality(Held(w)') \in Nat BY <3>1, <3>2, FS_RemoveElement, FS_CardinalityType
      <4>4. unauth'[w] = unauth[w] - 1 BY <2>1, <3>1, <3>3, <4>2, <4>3 DEF LimitInv
      <4> QED BY <3>1, <4>2, <4>4
    <3>4. CASE w # v.window
      <4>1. Held(w)' = Held(w) BY <3>2, <3>4 DEF Held
      <4>2. unauth'[w] = unauth[w] BY <2>1, <3>4 DEF LimitInv
      <4> QED BY <3>1, <4>1, <4>2
    <3> QED BY <3>3, <3>4
  <2> QED BY <2>5, <2>6 DEF ReservationsInv
<1> QED BY <1>1, <1>2 DEF Verified, Unlimited, limits

LEMMA ReservationsSound ==
  ASSUME IngestInv, ReservationsInv, [Next]_vars
  PROVE  ReservationsInv'
<1>0. LimitInv BY DEF IngestInv
<1>1. CASE UNCHANGED <<unauth, reservations>> BY <1>1 DEF ReservationsInv, Held
<1>2. ASSUME NEW r \in Request, Reserved(r) \/ Verified(r) PROVE ReservationsInv'
  BY <1>0, <1>2, ReservedSound, VerifiedSound
<1>3. ASSUME NEW r \in Request, HostStep(r) \/ Fail(r) \/ LoseAnswer(r) \/ \E b \in Batches : Send(r, b)
      PROVE  UNCHANGED <<unauth, reservations>> \/ Reserved(r) \/ Verified(r)
  BY <1>3 DEF HostStep, Reserve, Verify, ChargeRequest, ChargeEvents, RejectEvent, PersistEvent, PersistRaises,
     Fail, LoseAnswer, Send, Unlimited, limits
<1>4. CASE World \/ UNCHANGED vars
  <2>1. UNCHANGED limits
    BY <1>4 DEF World, Tick, AssignElsewhere, SuspendDevice, EndAuthority, EndCredential, Change, MoveDay, vars
  <2> QED BY <1>1, <2>1 DEF limits
<1> QED BY <1>1, <1>2, <1>3, <1>4 DEF Next

\* What one request owes is all that a step about it changes of what is owed.
LEMMA OnlyItsOwn ==
  ASSUME NEW r \in Request, \A q \in Request \ {r} : host'[q] = host[q], NEW w, NEW more, NEW less,
         Owes(r, w)' \subseteq (Owes(r, w) \cup more) \ less, more \subseteq Nat, less \subseteq Nat
  PROVE  Owed(w)' \subseteq (Owed(w) \cup ({r} \X more)) \ ({r} \X less)
<1> SUFFICES ASSUME NEW p \in Request \X Nat, p[2] \in Owes(p[1], w)'
             PROVE  p \in (Owed(w) \cup ({r} \X more)) \ ({r} \X less)
  BY DEF Owed
<1>1. p[1] \in Request /\ p[2] \in Nat /\ p = <<p[1], p[2]>> OBVIOUS
<1>2. CASE p[1] = r
  <2>1. p[2] \in (Owes(r, w) \cup more) \ less BY <1>2
  <2> QED BY <1>1, <1>2, <2>1 DEF Owed
<1>3. CASE p[1] # r
  <2>1. host'[p[1]] = host[p[1]] BY <1>1, <1>3
  <2>2. p[2] \in Owes(p[1], w) BY <2>1 DEF Owes
  <2> QED BY <1>1, <1>3, <2>2 DEF Owed
<1> QED BY <1>2, <1>3

\* A step that stores nothing and owes nothing more keeps what was charged.
LEMMA ChargesKeep ==
  ASSUME IngestInv, ChargesInv, UNCHANGED receipts, \A w \in Windows : Owed(w)' \subseteq Owed(w),
         \A w \in Windows : counted'[w] \in Nat /\ counted'[w] >= counted[w]
  PROVE  ChargesInv'
<1> SUFFICES ASSUME NEW w \in Windows
             PROVE  /\ IsFiniteSet(Owed(w)')
                    /\ Cardinality(StoredIn(w)') + Cardinality(Owed(w)') <= counted'[w]
                    /\ Cardinality(StoredIn(w)') + Cardinality(Owed(w)') <= EventLimit
  BY DEF ChargesInv
<1>1. /\ IsFiniteSet(Owed(w)) /\ Cardinality(StoredIn(w)) + Cardinality(Owed(w)) <= counted[w]
      /\ Cardinality(StoredIn(w)) + Cardinality(Owed(w)) <= EventLimit
  BY DEF ChargesInv
<1>2. StoredIn(w)' = StoredIn(w) BY DEF StoredIn
<1>3. IsFiniteSet(StoredIn(w)) BY FS_Subset DEF StoredIn, IngestInv, EvidenceInv
<1>4. IsFiniteSet(Owed(w)') /\ Cardinality(Owed(w)') <= Cardinality(Owed(w)) BY <1>1, FS_Subset
<1>5. /\ Cardinality(Owed(w)') \in Nat /\ Cardinality(Owed(w)) \in Nat /\ Cardinality(StoredIn(w)) \in Nat
      /\ counted[w] \in Nat /\ counted'[w] \in Nat /\ counted'[w] >= counted[w] /\ EventLimit \in Nat
  BY <1>1, <1>3, <1>4, FS_CardinalityType, PolicyAssumption DEF IngestInv, LimitInv
<1> QED BY <1>1, <1>2, <1>4, <1>5

\* An event that is stored was owed, and is owed no more.
LEMMA ChargesPaid ==
  ASSUME IngestInv, ChargesInv, UNCHANGED counted, NEW x, receipts' = receipts \cup {x},
         NEW p \in Owed(Window(x.received)), \A w \in Windows : Owed(w)' \subseteq Owed(w),
         p \notin Owed(Window(x.received))'
  PROVE  ChargesInv'
<1> SUFFICES ASSUME NEW w \in Windows
             PROVE  /\ IsFiniteSet(Owed(w)')
                    /\ Cardinality(StoredIn(w)') + Cardinality(Owed(w)') <= counted[w]
                    /\ Cardinality(StoredIn(w)') + Cardinality(Owed(w)') <= EventLimit
  BY DEF ChargesInv
<1>1. /\ IsFiniteSet(Owed(w)) /\ Cardinality(StoredIn(w)) + Cardinality(Owed(w)) <= counted[w]
      /\ Cardinality(StoredIn(w)) + Cardinality(Owed(w)) <= EventLimit
  BY DEF ChargesInv
<1>2. IsFiniteSet(StoredIn(w)) BY FS_Subset DEF StoredIn, IngestInv, EvidenceInv
<1>3. IsFiniteSet(Owed(w)') /\ Cardinality(Owed(w)') <= Cardinality(Owed(w)) BY <1>1, FS_Subset
<1>4. /\ Cardinality(Owed(w)') \in Nat /\ Cardinality(Owed(w)) \in Nat /\ Cardinality(StoredIn(w)) \in Nat
      /\ counted[w] \in Nat /\ EventLimit \in Nat
  BY <1>1, <1>2, <1>3, FS_CardinalityType, PolicyAssumption DEF IngestInv, LimitInv
<1>5. CASE Window(x.received) # w
  <2>1. StoredIn(w)' = StoredIn(w) BY <1>5 DEF StoredIn
  <2> QED BY <1>1, <1>3, <1>4, <2>1
<1>6. CASE Window(x.received) = w
  <2>1. StoredIn(w)' = StoredIn(w) \cup {x} BY <1>6 DEF StoredIn
  <2>2. Cardinality(StoredIn(w) \cup {x}) = IF x \in StoredIn(w) THEN Cardinality(StoredIn(w))
                                           ELSE Cardinality(StoredIn(w)) + 1
    BY <1>2, FS_AddElement
  <2>3. Owed(w)' \subseteq Owed(w) \ {p} BY <1>6
  <2>4. IsFiniteSet(Owed(w) \ {p}) /\ Cardinality(Owed(w) \ {p}) = Cardinality(Owed(w)) - 1
    BY <1>1, <1>6, FS_RemoveElement
  <2>5. Cardinality(Owed(w)') <= Cardinality(Owed(w) \ {p}) BY <2>3, <2>4, FS_Subset
  <2> QED BY <1>1, <1>3, <1>4, <2>1, <2>2, <2>4, <2>5
<1> QED BY <1>5, <1>6

\* A batch that was charged within the limit is owed.
LEMMA ChargesTaken ==
  ASSUME IngestInv, ChargesInv, UNCHANGED receipts, NEW r \in Request, NEW n \in Nat, NEW w0,
         counted' = [counted EXCEPT ![w0] = counted[w0] + n], counted'[w0] <= EventLimit,
         \A w \in Windows : Owed(w)' \subseteq Owed(w) \cup (IF w = w0 THEN {r} \X (1..n) ELSE {})
  PROVE  ChargesInv'
<1> SUFFICES ASSUME NEW w \in Windows
             PROVE  /\ IsFiniteSet(Owed(w)')
                    /\ Cardinality(StoredIn(w)') + Cardinality(Owed(w)') <= counted'[w]
                    /\ Cardinality(StoredIn(w)') + Cardinality(Owed(w)') <= EventLimit
  BY DEF ChargesInv
<1>1. /\ IsFiniteSet(Owed(w)) /\ Cardinality(StoredIn(w)) + Cardinality(Owed(w)) <= counted[w]
      /\ Cardinality(StoredIn(w)) + Cardinality(Owed(w)) <= EventLimit
  BY DEF ChargesInv
<1>2. StoredIn(w)' = StoredIn(w) BY DEF StoredIn
<1>3. IsFiniteSet(StoredIn(w)) BY FS_Subset DEF StoredIn, IngestInv, EvidenceInv
<1>4. /\ Cardinality(Owed(w)) \in Nat /\ Cardinality(StoredIn(w)) \in Nat
      /\ counted[w] \in Nat /\ EventLimit \in Nat
  BY <1>1, <1>3, FS_CardinalityType, PolicyAssumption DEF IngestInv, LimitInv
<1>5. CASE w # w0
  <2>1. Owed(w)' \subseteq Owed(w) /\ counted'[w] = counted[w] BY <1>5 DEF IngestInv, LimitInv
  <2>2. IsFiniteSet(Owed(w)') /\ Cardinality(Owed(w)') <= Cardinality(Owed(w)) BY <1>1, <2>1, FS_Subset
  <2>3. Cardinality(Owed(w)') \in Nat BY <2>2, FS_CardinalityType
  <2> QED BY <1>1, <1>2, <1>4, <2>1, <2>2, <2>3
<1>6. CASE w = w0
  <2> DEFINE batch == {r} \X (1..n)
  <2>1. IsFiniteSet(1..n) /\ Cardinality(1..n) = n BY FS_Interval
  <2>2. IsFiniteSet({r}) /\ Cardinality({r}) = 1 BY FS_Singleton
  <2>3. IsFiniteSet(batch) /\ Cardinality(batch) = n
    <3>1. IsFiniteSet(batch) /\ Cardinality(batch) = Cardinality({r}) * Cardinality(1..n) BY <2>1, <2>2, FS_Product
    <3> QED BY <2>1, <2>2, <3>1
  <2> HIDE DEF batch
  <2>4. IsFiniteSet(Owed(w) \cup batch) /\ Cardinality(Owed(w) \cup batch) <= Cardinality(Owed(w)) + n
    <3>1. IsFiniteSet(Owed(w) \cup batch)
          /\ Cardinality(Owed(w) \cup batch) = Cardinality(Owed(w)) + Cardinality(batch) - Cardinality(Owed(w) \cap batch)
      BY <1>1, <2>3, FS_Union
    <3>2. Cardinality(Owed(w) \cap batch) \in Nat BY <1>1, <2>3, FS_Intersection, FS_CardinalityType
    <3> QED BY <1>4, <2>3, <3>1, <3>2
  <2>5. Owed(w)' \subseteq Owed(w) \cup batch BY <1>6 DEF batch
  <2>6. IsFiniteSet(Owed(w)') /\ Cardinality(Owed(w)') <= Cardinality(Owed(w) \cup batch) BY <2>4, <2>5, FS_Subset
  <2>7. Cardinality(Owed(w)') \in Nat /\ Cardinality(Owed(w) \cup batch) \in Nat BY <2>4, <2>6, FS_CardinalityType
  <2>8. counted'[w] = counted[w] + n /\ counted'[w] <= EventLimit BY <1>6 DEF IngestInv, LimitInv
  <2> QED BY <1>1, <1>2, <1>4, <2>4, <2>6, <2>7, <2>8
<1> QED BY <1>5, <1>6

LEMMA AnswerOwesNothing ==
  ASSUME DOMAIN host = Request, NEW r \in Request,
         (\E status : Answer(r, status)) \/ (\E stage : Go(r, stage) /\ stage # "events")
  PROVE  /\ \A q \in Request \ {r} : host'[q] = host[q]
         /\ \A w : Owes(r, w)' = {}
<1>1. CASE \E status : Answer(r, status)
  <2>1. PICK status : host' = [host EXCEPT ![r] = [stage |-> "answered", status |-> status]] BY <1>1 DEF Answer
  <2>2. host'[r].stage = "answered" BY <2>1
  <2> QED BY <2>1, <2>2 DEF Owes
<1>2. CASE \E stage : Go(r, stage) /\ stage # "events"
  <2>1. PICK stage : host' = [host EXCEPT ![r].stage = stage] /\ stage # "events" BY <1>2 DEF Go
  <2>2. host'[r] = [host[r] EXCEPT !.stage = stage] BY <2>1
  <2>3. host'[r].stage # "events" BY <2>1, <2>2
  <2> QED BY <2>1, <2>3 DEF Owes
<1> QED BY <1>1, <1>2

LEMMA ResultPays ==
  ASSUME IngestInv, NEW r \in Request, At(r, "events"), NEW result \in Answers, Finish(r, result)
  PROVE  /\ \A q \in Request \ {r} : host'[q] = host[q]
         /\ \A w : Owes(r, w)' \subseteq Owes(r, w) \ {Len(host[r].results) + 1}
<1> DEFINE results == Append(host[r].results, result)
           n == Len(host[r].results)
<1>1. /\ host[r] = [stage |-> "events", ticket |-> host[r].ticket, received |-> host[r].received,
                    batch |-> host[r].batch, results |-> host[r].results]
      /\ host[r].batch \in Batches /\ host[r].results \in Seq(Answers)
  BY DEF IngestInv, HostInv, At, Active
<1>2. host' = [host EXCEPT ![r] =
            IF Len(results) < Len(@.batch.events) THEN [@ EXCEPT !.results = results]
            ELSE [stage |-> "answered", status |-> 202, batch |-> @.batch, results |-> results]]
  BY DEF Finish
<1>3. n \in Nat /\ Len(results) = n + 1 BY <1>1
<1>4. \A q \in Request \ {r} : host'[q] = host[q] BY <1>2
<1>5. host[r].batch.events \in Seq(Catalog) BY <1>1, CatalogAssumption
<1>6. Len(host[r].batch.events) \in Nat BY <1>5
<1> HIDE DEF results, n
<1>7. CASE Len(results) < Len(host[r].batch.events)
  <2>1. host'[r] = [stage |-> "events", ticket |-> host[r].ticket, received |-> host[r].received,
                    batch |-> host[r].batch, results |-> results]
    BY <1>1, <1>2, <1>7 DEF IngestInv
  <2>2. \A w : Owes(r, w)' = IF Window(host[r].received) = w THEN (n + 2)..Len(host[r].batch.events) ELSE {}
    BY <1>3, <2>1 DEF Owes
  <2>3. \A w : Owes(r, w) = IF Window(host[r].received) = w THEN (n + 1)..Len(host[r].batch.events) ELSE {}
    BY <1>1 DEF Owes, n
  <2>4. (n + 2)..Len(host[r].batch.events) \subseteq ((n + 1)..Len(host[r].batch.events)) \ {n + 1} BY <1>3, <1>6
  <2> QED BY <1>4, <2>2, <2>3, <2>4 DEF n
<1>8. CASE ~(Len(results) < Len(host[r].batch.events))
  <2>1. host'[r].stage = "answered" BY <1>2, <1>8 DEF IngestInv
  <2>2. \A w : Owes(r, w)' = {} BY <2>1 DEF Owes
  <2> QED BY <1>4, <2>2
<1> QED BY <1>7, <1>8

\* A step about one request that stores nothing and owes nothing more.
LEMMA RequestKeepsCharges ==
  ASSUME IngestInv, ChargesInv, UNCHANGED receipts, NEW r \in Request,
         \A w \in Windows : counted'[w] \in Nat /\ counted'[w] >= counted[w],
         \A q \in Request \ {r} : host'[q] = host[q], \A w : Owes(r, w)' \subseteq Owes(r, w)
  PROVE  ChargesInv'
<1>1. ASSUME NEW w \in Windows PROVE Owed(w)' \subseteq Owed(w)
  <2>1. Owes(r, w)' \subseteq (Owes(r, w) \cup {}) \ {} OBVIOUS
  <2>2. Owed(w)' \subseteq (Owed(w) \cup ({r} \X {})) \ ({r} \X {}) BY <2>1, OnlyItsOwn, Zenon
  <2> QED BY <2>2
<1> QED BY <1>1, ChargesKeep

\* A step about one request that stores the event it comes to.
LEMMA StoredEventWasCharged ==
  ASSUME IngestInv, ChargesInv, UNCHANGED counted, NEW r \in Request, At(r, "events"),
         Store(Current(r), host[r].received),
         \A q \in Request \ {r} : host'[q] = host[q],
         \A w : Owes(r, w)' \subseteq Owes(r, w) \ {Len(host[r].results) + 1}
  PROVE  ChargesInv'
<1> DEFINE n == Len(host[r].results) + 1
           p == <<r, n>>
<1>1. /\ host[r].results \in Seq(Answers) /\ Len(host[r].results) < Len(host[r].batch.events)
      /\ host[r].batch.events \in Seq(Catalog) /\ host[r].stage = "events"
  BY CatalogAssumption DEF IngestInv, HostInv, At, Active
<1>2. n \in Nat /\ n \in Owes(r, Window(host[r].received)) BY <1>1 DEF Owes
<1>3. PICK x : receipts' = receipts \cup {x} /\ x.received = host[r].received
  <2>1. receipts' = receipts \cup {Receipt(Current(r), host[r].received)} BY DEF Store
  <2>2. Receipt(Current(r), host[r].received).received = host[r].received BY DEF Receipt
  <2> QED BY <2>1, <2>2
<1> HIDE DEF n
<1>4. p \in Owed(Window(x.received)) BY <1>2, <1>3 DEF Owed
<1>5. ASSUME NEW w PROVE Owed(w)' \subseteq Owed(w) \ {p}
  <2>1. Owes(r, w)' \subseteq (Owes(r, w) \cup {}) \ {n} BY DEF n
  <2>2. {n} \subseteq Nat BY <1>2
  <2>3. Owed(w)' \subseteq (Owed(w) \cup ({r} \X {})) \ ({r} \X {n}) BY <2>1, <2>2, OnlyItsOwn, Zenon
  <2> QED BY <2>3
<1> QED BY <1>3, <1>4, <1>5, ChargesPaid

LEMMA ChargesSound ==
  ASSUME IngestInv, ChargesInv, [Next]_vars
  PROVE  ChargesInv'
<1>0. DOMAIN host = Request /\ HostInv /\ LimitInv BY DEF IngestInv
<1>c. UNCHANGED counted => \A w \in Windows : counted'[w] \in Nat /\ counted'[w] >= counted[w]
  BY <1>0 DEF LimitInv
<1>a. ASSUME NEW r \in Request, UNCHANGED <<receipts, counted>>,
             (\E status : Answer(r, status)) \/ (\E stage : Go(r, stage) /\ stage # "events")
      PROVE  ChargesInv'
  <2>1. (\A q \in Request \ {r} : host'[q] = host[q]) /\ \A w : Owes(r, w)' \subseteq Owes(r, w)
    BY <1>0, <1>a, AnswerOwesNothing
  <2> QED BY <1>a, <1>c, <2>1, RequestKeepsCharges
<1>f. ASSUME NEW r \in Request, At(r, "events"), NEW result \in Answers, Finish(r, result),
             UNCHANGED <<receipts, counted>>
      PROVE  ChargesInv'
  <2>1. (\A q \in Request \ {r} : host'[q] = host[q]) /\ \A w : Owes(r, w)' \subseteq Owes(r, w)
    BY <1>f, ResultPays
  <2> QED BY <1>c, <1>f, <2>1, RequestKeepsCharges
<1>1. ASSUME NEW r \in Request, Reserve(r) \/ Verify(r) \/ ChargeRequest(r) \/ PersistRaises(r) \/ Fail(r)
      PROVE  ChargesInv'
  <2>1. UNCHANGED <<receipts, counted>>
    BY <1>1 DEF Reserve, Verify, ChargeRequest, PersistRaises, Fail, Reserved, Verified, Unlimited, limits, Quiet, evidence
  <2>2. (\E status : Answer(r, status)) \/ (\E stage : Go(r, stage) /\ stage # "events")
    <3>1. CASE Reserve(r) BY <3>1 DEF Reserve
    <3>2. CASE Verify(r) BY <3>2 DEF Verify
    <3>3. CASE ChargeRequest(r) BY <3>3 DEF ChargeRequest
    <3>4. CASE PersistRaises(r) \/ Fail(r) BY <3>4 DEF PersistRaises, Fail
    <3> QED BY <1>1, <3>1, <3>2, <3>3, <3>4
  <2> QED BY <1>a, <2>1, <2>2
<1>2. ASSUME NEW r \in Request, ChargeEvents(r) PROVE ChargesInv'
  <2> DEFINE w0 == Window(host[r].received)
             n == IF Len(host[r].batch.events) = 0 THEN 1 ELSE Len(host[r].batch.events)
  <2>1. /\ host[r].stage = "body" /\ UNCHANGED receipts
        /\ counted' = [counted EXCEPT ![w0] = counted[w0] + n]
    BY <1>2 DEF ChargeEvents, At, Quiet, evidence
  <2>2. /\ host[r] = [stage |-> "body", ticket |-> host[r].ticket, received |-> host[r].received,
                      batch |-> host[r].batch, results |-> <<>>]
        /\ host[r].batch.events \in Seq(Catalog)
    BY <1>0, <2>1, CatalogAssumption DEF HostInv, Active
  <2>3. n \in Nat /\ Len(host[r].batch.events) \in Nat BY <2>2
  <2>4. CASE \E status : Answer(r, status)
    <3>1. (\A q \in Request \ {r} : host'[q] = host[q]) /\ \A w : Owes(r, w)' \subseteq Owes(r, w)
      BY <1>0, <2>4, AnswerOwesNothing
    <3>2. \A w \in Windows : counted'[w] \in Nat /\ counted'[w] >= counted[w]
      BY <1>0, <2>1, <2>3 DEF LimitInv
    <3> QED BY <2>1, <3>1, <3>2, RequestKeepsCharges
  <2>5. CASE Go(r, "events") /\ counted'[w0] <= EventLimit /\ Len(host[r].batch.events) # 0
    <3>1. \A q \in Request \ {r} : host'[q] = host[q] BY <2>5 DEF Go
    <3>2. host'[r] = [stage |-> "events", ticket |-> host[r].ticket, received |-> host[r].received,
                      batch |-> host[r].batch, results |-> <<>>]
      BY <1>0, <2>2, <2>5 DEF Go
    <3>3. n = Len(host[r].batch.events) BY <2>5
    <3>4. \A w : Owes(r, w)' = IF w0 = w THEN 1..n ELSE {} BY <3>2, <3>3 DEF Owes
    <3> HIDE DEF n, w0
    <3>5. ASSUME NEW w \in Windows PROVE Owed(w)' \subseteq Owed(w) \cup (IF w = w0 THEN {r} \X (1..n) ELSE {})
      <4> DEFINE more == IF w = w0 THEN 1..n ELSE {}
      <4>1. Owes(r, w)' \subseteq (Owes(r, w) \cup more) \ {} BY <3>4
      <4>2. more \subseteq Nat BY <2>3
      <4> HIDE DEF more
      <4>3. Owed(w)' \subseteq (Owed(w) \cup ({r} \X more)) \ ({r} \X {}) BY <3>1, <4>1, <4>2, OnlyItsOwn, Zenon
      <4> QED BY <4>3 DEF more
    <3>6. /\ UNCHANGED receipts /\ n \in Nat /\ counted' = [counted EXCEPT ![w0] = counted[w0] + n]
          /\ counted'[w0] <= EventLimit
      BY <2>1, <2>3, <2>5
    <3> QED BY <3>5, <3>6, ChargesTaken, Zenon
  <2>6. \/ \E status : Answer(r, status)
        \/ Go(r, "events") /\ ~(counted'[w0] > EventLimit) /\ Len(host[r].batch.events) # 0
    BY <1>2 DEF ChargeEvents
  <2>7. ~(counted'[w0] > EventLimit) => counted'[w0] <= EventLimit
    <3> HIDE DEF n
    <3>1. w0 \in Windows
      <4>1. host[r].received \in Nat /\ now \in Nat /\ now <= MaxTime /\ host[r].received <= now
        BY <1>0, <2>1, PolicyAssumption DEF HostInv, Active, IngestInv, WorldInv
      <4> QED BY <4>1, PolicyAssumption DEF Windows, Window
    <3> HIDE DEF w0
    <3>2. counted'[w0] \in Nat BY <1>0, <2>1, <2>3, <3>1 DEF LimitInv
    <3> QED BY <3>2, PolicyAssumption
  <2> QED BY <2>4, <2>5, <2>6, <2>7
<1>3. ASSUME NEW r \in Request, RejectEvent(r) PROVE ChargesInv'
  <2>1. At(r, "events") /\ Finish(r, "rejected") /\ UNCHANGED <<receipts, counted>>
    BY <1>3 DEF RejectEvent, Unlimited, limits, Quiet, evidence
  <2> QED BY <1>f, <2>1 DEF Answers
<1>4. ASSUME NEW r \in Request, At(r, "events"), NEW answer \in Answers, UNCHANGED counted,
             Persist(Current(r), host[r].received, answer), Finish(r, answer) \/ \E status : Answer(r, status)
      PROVE  ChargesInv'
  <2>1. /\ \A q \in Request \ {r} : host'[q] = host[q]
        /\ \A w : Owes(r, w)' \subseteq Owes(r, w) \ {Len(host[r].results) + 1}
    <3>1. CASE Finish(r, answer) BY <1>4, <3>1, ResultPays
    <3>2. CASE \E status : Answer(r, status) BY <1>0, <3>2, AnswerOwesNothing
    <3> QED BY <1>4, <3>1, <3>2
  <2>2. CASE UNCHANGED receipts BY <1>a, <1>f, <1>4, <2>2
  <2>3. CASE Store(Current(r), host[r].received) BY <1>4, <2>1, <2>3, StoredEventWasCharged
  <2> QED BY <1>4, <2>2, <2>3 DEF Persist
<1>5. ASSUME NEW r \in Request, PersistEvent(r) PROVE ChargesInv'
  <2>1. PICK answer \in Answers : Persist(Current(r), host[r].received, answer) /\ Finish(r, answer)
    BY <1>5 DEF PersistEvent, Answers
  <2>2. At(r, "events") /\ UNCHANGED counted BY <1>5 DEF PersistEvent, limits
  <2> QED BY <1>4, <2>1, <2>2
<1>6. ASSUME NEW r \in Request, LoseAnswer(r) PROVE ChargesInv'
  <2>1. CASE (Reserved(r) \/ Verified(r)) /\ (\E status : Answer(r, status)) /\ UNCHANGED evidence
    <3>1. UNCHANGED <<receipts, counted>> BY <2>1 DEF Reserved, Verified, Unlimited, limits, evidence
    <3> QED BY <1>a, <2>1, <3>1
  <2>2. CASE /\ At(r, "events") /\ Unlimited /\ Answer(r, 503)
             /\ \E answer \in Answers : Persist(Current(r), host[r].received, answer)
    <3>1. PICK answer \in Answers : Persist(Current(r), host[r].received, answer) BY <2>2
    <3>2. UNCHANGED counted BY <2>2 DEF Unlimited, limits
    <3> QED BY <1>4, <2>2, <3>1, <3>2
  <2> QED BY <1>6, <2>1, <2>2 DEF LoseAnswer, Answers
<1>7. ASSUME NEW r \in Request, NEW b \in Batches, Send(r, b) PROVE ChargesInv'
  <2>1. /\ host' = [host EXCEPT ![r] = [stage |-> "reserve", ticket |-> sends, received |-> now,
                                        batch |-> b, results |-> <<>>]]
        /\ UNCHANGED <<receipts, counted>>
    BY <1>7 DEF Send, evidence, limits
  <2>2. host'[r].stage = "reserve" BY <1>0, <2>1
  <2>3. (\A q \in Request \ {r} : host'[q] = host[q]) /\ \A w : Owes(r, w)' \subseteq Owes(r, w)
    BY <2>1, <2>2 DEF Owes
  <2> QED BY <1>c, <2>1, <2>3, RequestKeepsCharges
<1>8. CASE World \/ UNCHANGED vars
  <2>1. UNCHANGED <<host, receipts, counted>>
    BY <1>8 DEF World, Tick, AssignElsewhere, SuspendDevice, EndAuthority, EndCredential, Change, MoveDay, vars,
       limits, evidence
  <2>2. \A w : Owed(w)' = Owed(w) BY <2>1 DEF Owed, Owes
  <2> QED BY <1>c, <2>1, <2>2, ChargesKeep
<1> QED BY <1>1, <1>2, <1>3, <1>5, <1>6, <1>7, <1>8 DEF Next, HostStep

\* The rate limits bound what one window stores and how many of its requests
\* may fail to authenticate, with requests that run at the same time, lose
\* their answers and are sent again: an event is stored only against the
\* charge of its batch, and a reservation is given back once.
THEOREM LimitsAlwaysHold == Spec => []LimitsHold
<1>1. Init => IngestInv /\ ReservationsInv /\ ChargesInv BY IngestInitially, LimitsInitially
<1>2. IngestInv /\ ReservationsInv /\ ChargesInv /\ [Next]_vars => ReservationsInv' /\ ChargesInv'
  BY ReservationsSound, ChargesSound
<1>3. IngestInv /\ ReservationsInv /\ ChargesInv => LimitsHold
  <2> SUFFICES ASSUME IngestInv, ReservationsInv, ChargesInv, NEW w \in Windows
               PROVE  Cardinality(StoredIn(w)) <= EventLimit /\ Cardinality(Held(w)) <= UnauthLimit
    BY DEF LimitsHold, StoredIn, Held
  <2>1. IsFiniteSet(Owed(w)) /\ IsFiniteSet(StoredIn(w))
    BY FS_Subset DEF ChargesInv, StoredIn, IngestInv, EvidenceInv
  <2>2. Cardinality(Owed(w)) \in Nat /\ Cardinality(StoredIn(w)) \in Nat /\ EventLimit \in Nat
    BY <2>1, FS_CardinalityType, PolicyAssumption
  <2> QED BY <2>2 DEF ChargesInv, ReservationsInv
<1> QED BY <1>1, <1>2, <1>3, IngestAlwaysSound, PTL DEF Spec

\* What a device was told of an event is so, in every state after it was
\* told: nothing the database answers is taken back.
THEOREM AnswersAreAlwaysTrue == Spec => []AnswersAreTrue
<1>1. Init => AnswersAreTrue
  <2> SUFFICES ASSUME Init, NEW r \in Request PROVE "results" \notin DOMAIN host[r]
    BY DEF AnswersAreTrue
  <2>1. host[r] = [stage |-> "idle"] BY DEF Init, Idle
  <2> QED BY <2>1
<1>2. IngestInv /\ AnswersAreTrue /\ [Next]_vars => AnswersAreTrue' BY AnswersSound
<1> QED BY <1>1, <1>2, IngestAlwaysSound, PTL DEF Spec

\* A session shown running on a row that is over was opened by live evidence
\* that had reached the host before the row ended.
THEOREM OnlyLateLiveAlways == Spec => []OnlyLateLiveReopens
<1>1. Init => SessionsOfRuns /\ OnlyLateLiveReopens BY DayInitially
<1>2. IngestInv /\ SessionsOfRuns /\ OnlyLateLiveReopens /\ [Next]_vars => SessionsOfRuns' /\ OnlyLateLiveReopens'
  BY SessionsOfRunsSound
<1> QED BY <1>1, <1>2, IngestAlwaysSound, PTL DEF Spec

\* With a policy that calls nothing live after it has stopped to accept
\* delayed evidence, the database decides of an event what the shared contract
\* decides of the work time.
THEOREM DatabaseAlwaysAgrees ==
  ASSUME Live <= Backfill
  PROVE  Spec => []DatabaseAgreesWithContract
<1>1. Init => DayInv BY DayInitially
<1>2. IngestInv /\ DayInv /\ [Next]_vars => DayInv' BY DaySound
<1>3. IngestInv /\ DayInv => DatabaseAgreesWithContract
  <2> SUFFICES ASSUME IngestInv, DayInv, NEW r \in Request, At(r, "events"),
                      NEW e, e = Current(r), NEW received, received = host[r].received
               PROVE  e.location /\ ~Stale(e) /\ Resolution(e.captured) = "valid" =>
                        LET decided == ContractDecision(e, received)
                        IN  IF decided = "rejected" THEN Disposition(e, received) \notin Positioned
                            ELSE \/ Disposition(e, received) = decided
                                 \/ Disposition(e, received) = "accepted_delayed" /\ received > Until(RowOf(e))
    BY DEF DatabaseAgreesWithContract
  <2>1. e \in Catalog /\ received \in 0..now BY CurrentIsVendorEvent DEF IngestInv
  <2>2. received \in Nat BY <2>1, PolicyAssumption DEF IngestInv, WorldInv
  <2> QED BY <2>1, <2>2, DatabaseDecides
<1> QED BY <1>1, <1>2, <1>3, IngestAlwaysSound, PTL DEF Spec

(***************************************************************************)
(* Types.                                                                  *)
(***************************************************************************)
Severities == {"warning", "critical"}

Episode == [status : Statuses, severity : Severities, active : BOOLEAN, first : Nat, last : Nat,
            cleared : Int, count : Nat]
RuleState == [stored : BOOLEAN, alert : Nat, active : BOOLEAN, first : Int, last : Int,
              cleared : Int, count : Nat]
Signals == [kind : {"receipt", "sweep", "recovery"},
            rule : {"none", "off_work_location_attempt", "sequence_gap", "device_offline", "heartbeat_missing",
                    "location_update_missing"},
            at : Nat, captured : Nat,
            disposition : {"none", "accepted_live", "accepted_delayed", "health_only", "rejected"},
            readings : {r.readings : r \in Receipts} \cup {<<>>}]

AlertTypeOK ==
    /\ clock \in Nat
    /\ signals \in Seq(Signals)
    /\ jobs \in Seq({"pending", "completed", "failed"})
    /\ Len(jobs) = Len(signals)
    /\ episodes \in [Keys -> Seq(Episode)]
    /\ state \in [Keys -> RuleState]

\* Assessments are of jobs that completed and of episodes that exist.
AssessmentsAreReal ==
    /\ assessed \in [Keys -> SUBSET (Nat \X Nat)]
    /\ \A key \in Keys :
          /\ IsFiniteSet(assessed[key])
          /\ \A a \in assessed[key] : /\ a[1] \in DOMAIN jobs /\ jobs[a[1]] = "completed"
                                      /\ a[2] \in DOMAIN episodes[key]

AlertInv == AlertTypeOK /\ AssessmentsAreReal /\ EpisodesAreSound

Of(set, n) == {a \in set : a[2] = n}

LEMMA InitiallyTyped == AlertInit => AlertTypeOK /\ AssessmentsAreReal
<1> SUFFICES ASSUME AlertInit PROVE AlertTypeOK /\ AssessmentsAreReal
  OBVIOUS
<1>1. \A key \in Keys : episodes[key] = <<>> /\ state[key] = NoState /\ assessed[key] = {}
  BY DEF AlertInit
<1>2. NoState \in RuleState
  BY DEF NoState, RuleState, NoMinute
<1>3. AlertTypeOK
  BY <1>2 DEF AlertInit, AlertTypeOK
<1>4. IsFiniteSet({})
  BY FS_EmptySet
<1>5. AssessmentsAreReal
  BY <1>1, <1>4 DEF AlertInit, AssessmentsAreReal
<1> QED BY <1>3, <1>5

LEMMA InitiallySound == AlertInit => AlertInv
<1> SUFFICES ASSUME AlertInit PROVE AlertInv
  OBVIOUS
<1>1. \A key \in Keys : episodes[key] = <<>> /\ state[key] = NoState
  BY DEF AlertInit
<1>2. EpisodesAreSound
  BY <1>1 DEF EpisodesAreSound, OneOpenEpisode, ClearedIsLater, CountsAreAssessed, Open, NoState
<1> QED BY <1>2, InitiallyTyped DEF AlertInv

(***************************************************************************)
(* The functions a rule is evaluated with.                                 *)
(***************************************************************************)

\* The number of the episode a detection counts in.
CurrentOf(list) == IF Open(list) = {} THEN Len(list) + 1 ELSE Len(list)

\* A detection changes or adds the last episode and leaves it open.
LEMMA DetectedList ==
  ASSUME NEW list \in Seq(Episode), Open(list) \subseteq {Len(list)}, NEW at \in Nat, NEW severity \in Severities
  PROVE  LET new == Detected(list, at, severity)
             n   == CurrentOf(list)
         IN /\ new \in Seq(Episode)
            /\ Len(new) = n /\ Counted(list) = {n}
            /\ Open(new) = {n}
            /\ \A i \in DOMAIN list : i # n => new[i] = list[i]
            /\ Open(list) = {} => new[n] = NewEpisode(at, severity)
            /\ Open(list) # {} => n \in DOMAIN list /\ new[n] = DetectedAgain(list[n], at, severity)
<1> DEFINE new == Detected(list, at, severity)
           n   == CurrentOf(list)
<1>1. NewEpisode(at, severity) \in Episode /\ NewEpisode(at, severity).status = "new"
  BY DEF NewEpisode, Episode, Statuses, NoMinute
<1>2. \A e \in Episode : DetectedAgain(e, at, severity) \in Episode /\ DetectedAgain(e, at, severity).status = e.status
  <2> SUFFICES ASSUME NEW e \in Episode
               PROVE DetectedAgain(e, at, severity) \in Episode /\ DetectedAgain(e, at, severity).status = e.status
    OBVIOUS
  <2>1. Later(e.last, at) \in Nat /\ (IF at >= e.cleared THEN NoMinute ELSE e.cleared) \in Int
    BY DEF Later, NoMinute, Episode
  <2>2. (e.active \/ at >= e.cleared) \in BOOLEAN /\ e.count + 1 \in Nat
    BY DEF Episode
  <2> QED BY <2>1, <2>2 DEF DetectedAgain, Episode
<1>3. CASE Open(list) = {}
  <2>1. new = Append(list, NewEpisode(at, severity)) /\ n = Len(list) + 1
    BY <1>3 DEF Detected, CurrentOf
  <2>2. new \in Seq(Episode) /\ Len(new) = n
    BY <2>1, <1>1
  <2>3. new[n] = NewEpisode(at, severity) /\ \A i \in DOMAIN list : new[i] = list[i]
    BY <2>1, <1>1
  <2>4. Open(new) = {n}
    BY <2>1, <2>2, <2>3, <1>1, <1>3 DEF Open, Terminal
  <2> QED BY <1>3, <2>1, <2>2, <2>3, <2>4 DEF Counted
<1>4. CASE Open(list) # {}
  <2>1. Open(list) = {Len(list)} /\ n = Len(list) /\ n \in DOMAIN list
    BY <1>4 DEF CurrentOf, Open
  <2>2. new = [i \in DOMAIN list |-> IF i = n THEN DetectedAgain(list[i], at, severity) ELSE list[i]]
    BY <1>4, <2>1 DEF Detected
  <2>3. \A i \in DOMAIN list : new[i] \in Episode
    BY <2>2, <1>2
  <2>4. new \in Seq(Episode) /\ Len(new) = n /\ DOMAIN new = DOMAIN list
    BY <2>1, <2>2, <2>3
  <2>5. \A i \in DOMAIN list : new[i].status = list[i].status
    BY <2>2, <1>2
  <2>6. Open(new) = Open(list)
    BY <2>4, <2>5 DEF Open
  <2> QED BY <1>4, <2>1, <2>2, <2>4, <2>6 DEF Counted
<1> QED BY <1>3, <1>4

\* A recovery changes neither the number of the episodes nor their statuses.
LEMMA RecoveredList ==
  ASSUME NEW list \in Seq(Episode), NEW at \in Nat
  PROVE  LET new == Recovered(list, at)
         IN /\ new \in Seq(Episode) /\ Len(new) = Len(list) /\ Open(new) = Open(list)
            /\ \A i \in DOMAIN list :
                  new[i] = IF Clears(list[i], at) THEN [list[i] EXCEPT !.active = FALSE, !.cleared = at]
                           ELSE list[i]
<1> DEFINE new == Recovered(list, at)
<1>1. \A i \in DOMAIN list :
         new[i] = IF Clears(list[i], at) THEN [list[i] EXCEPT !.active = FALSE, !.cleared = at] ELSE list[i]
  BY DEF Recovered
<1>2. \A i \in DOMAIN list : new[i] \in Episode /\ new[i].status = list[i].status
  <2>1. ASSUME NEW e \in Episode
        PROVE  /\ [e EXCEPT !.active = FALSE, !.cleared = at] \in Episode
               /\ [e EXCEPT !.active = FALSE, !.cleared = at].status = e.status
    <3> DEFINE f == [e EXCEPT !.active = FALSE]
    <3>1. f \in Episode /\ f.status = e.status
      BY DEF Episode
    <3> HIDE DEF f
    <3>2. \A c \in Int : [f EXCEPT !.cleared = c] \in Episode /\ [f EXCEPT !.cleared = c].status = f.status
      BY <3>1 DEF Episode
    <3>3. at \in Int
      OBVIOUS
    <3> QED BY <3>1, <3>2, <3>3 DEF f
  <2>2. SUFFICES ASSUME NEW i \in DOMAIN list PROVE new[i] \in Episode /\ new[i].status = list[i].status
    OBVIOUS
  <2>3. list[i] \in Episode
    OBVIOUS
  <2> QED BY <1>1, <2>1, <2>3
<1>3. new \in Seq(Episode) /\ Len(new) = Len(list) /\ DOMAIN new = DOMAIN list
  <2>1. new = [i \in DOMAIN list |-> new[i]]
    BY DEF Recovered
  <2> HIDE DEF new
  <2> QED BY <1>2, <2>1
<1>4. Open(new) = Open(list)
  BY <1>2, <1>3 DEF Open
<1> QED BY <1>1, <1>3, <1>4

\* The rule state stays one, and refers to the current episode once one is.
LEMMA StateTyped ==
  ASSUME NEW st \in RuleState, NEW at \in Nat
  PROVE  /\ Sampled(st, at) \in RuleState /\ Sampled(st, at).alert = st.alert
         /\ Cleared(st, at) \in RuleState /\ Cleared(st, at).alert = st.alert
         /\ \A list \in Seq(Episode) : Open(list) \subseteq {Len(list)} =>
               /\ Observed(st, list, at) \in RuleState
               /\ Observed(st, list, at).alert = CurrentOf(list)
<1>1. Sampled(st, at) \in RuleState /\ Sampled(st, at).alert = st.alert
  <2> DEFINE restarts == st.last = NoMinute \/ at < st.last \/ at - st.last > SampleWindow
             first == IF restarts \/ st.first = NoMinute THEN at ELSE st.first
             count == IF restarts THEN 1 ELSE st.count + 1
             sampled == [stored |-> TRUE, alert |-> st.alert, active |-> FALSE, cleared |-> NoMinute, last |-> at,
                         first |-> first, count |-> count]
  <2>1. first \in Int /\ count \in Nat /\ NoMinute \in Int
    BY DEF RuleState, NoMinute
  <2>2. sampled \in RuleState /\ sampled.alert = st.alert
    <3> HIDE DEF first, count
    <3> QED BY <2>1 DEF RuleState
  <2>3. Sampled(st, at) = IF ~ Counting(st) THEN st ELSE sampled
    BY DEF Sampled
  <2> QED BY <2>2, <2>3
<1>2. Cleared(st, at) \in RuleState /\ Cleared(st, at).alert = st.alert
  <2> DEFINE clear == [stored |-> TRUE, alert |-> st.alert, active |-> FALSE, cleared |-> at, last |-> at, first |-> NoMinute, count |-> 0]
  <2>1. clear \in RuleState /\ clear.alert = st.alert
    BY DEF RuleState, NoMinute
  <2>2. Cleared(st, at) = IF st.stored /\ at >= st.last THEN clear ELSE st
    BY DEF Cleared
  <2> QED BY <2>1, <2>2
<1>3. ASSUME NEW list \in Seq(Episode), Open(list) \subseteq {Len(list)}
      PROVE  Observed(st, list, at) \in RuleState /\ Observed(st, list, at).alert = CurrentOf(list)
  <2>1. (IF Open(list) = {} THEN Len(list) + 1 ELSE CHOOSE i \in Open(list) : TRUE) = CurrentOf(list)
    BY <1>3 DEF CurrentOf
  <2>2. CurrentOf(list) \in Nat
    BY DEF CurrentOf
  <2>3. Later(st.last, at) \in Int /\ st.count + 1 \in Nat
    BY DEF Later, RuleState
  <2>4. (IF at >= st.cleared THEN NoMinute ELSE st.cleared) \in Int /\ (IF st.first = NoMinute THEN at ELSE st.first) \in Int
    BY DEF RuleState, NoMinute
  <2>5. (st.active \/ at >= st.cleared) \in BOOLEAN
    OBVIOUS
  <2> DEFINE active == st.active \/ at >= st.cleared
             cleared == IF at >= st.cleared THEN NoMinute ELSE st.cleared
             first == IF st.first = NoMinute THEN at ELSE st.first
             last == Later(st.last, at)
             count == st.count + 1
  <2>6. Observed(st, list, at) = [stored |-> TRUE, alert |-> CurrentOf(list), active |-> active, cleared |-> cleared,
                                  first |-> first, last |-> last, count |-> count]
    BY <2>1 DEF Observed
  <2>7. active \in BOOLEAN /\ cleared \in Int /\ first \in Int /\ last \in Int /\ count \in Nat
    BY <2>3, <2>4, <2>5
  <2> HIDE DEF active, cleared, first, last, count
  <2> QED BY <2>2, <2>6, <2>7 DEF RuleState
<1> QED BY <1>1, <1>2, <1>3

(***************************************************************************)
(* One key.                                                                *)
(***************************************************************************)

\* What EpisodesAreSound says of one key.
ClearedLate(e) == IF e.active THEN e.cleared = NoMinute ELSE e.last <= e.cleared
KeySound(list, st, set) ==
    /\ Open(list) \subseteq {Len(list)}
    /\ st.alert = Len(list)
    /\ \A i \in DOMAIN list : ClearedLate(list[i]) /\ list[i].count = Cardinality(Of(set, i))

LEMMA SoundByKey == EpisodesAreSound <=> \A k \in Keys : KeySound(episodes[k], state[k], assessed[k])
  BY DEF EpisodesAreSound, OneOpenEpisode, ClearedIsLater, CountsAreAssessed, KeySound, ClearedLate, Of

LEMMA SoundByKeyNext ==
  (\A k \in Keys : KeySound(episodes[k], state[k], assessed[k]))' => EpisodesAreSound'
<1>1. (EpisodesAreSound <=> \A k \in Keys : KeySound(episodes[k], state[k], assessed[k]))'
  BY SoundByKey, PTL
<1> QED BY <1>1

\* Field by field, what a detection makes of an episode.
LEMMA RepeatedFields ==
  ASSUME NEW e \in Episode, NEW at \in Nat, NEW severity \in Severities
  PROVE  LET f == DetectedAgain(e, at, severity)
         IN /\ f.status = e.status /\ f.first = e.first /\ f.count = e.count + 1
            /\ f.last = Later(e.last, at)
            /\ f.active = (e.active \/ at >= e.cleared)
            /\ f.cleared = IF at >= e.cleared THEN NoMinute ELSE e.cleared
            /\ f.severity = IF severity = "critical" THEN severity ELSE e.severity
  BY DEF DetectedAgain, Episode

LEMMA RepeatedClearedLate ==
  ASSUME NEW e \in Episode, NEW at \in Nat, NEW severity \in Severities, ClearedLate(e)
  PROVE  ClearedLate(DetectedAgain(e, at, severity))
<1> DEFINE f == DetectedAgain(e, at, severity)
<1>1. /\ f.last = Later(e.last, at)
      /\ f.active = (e.active \/ at >= e.cleared)
      /\ f.cleared = IF at >= e.cleared THEN NoMinute ELSE e.cleared
  BY RepeatedFields
<1>2. e.last \in Nat /\ e.cleared \in Int /\ e.active \in BOOLEAN
  BY DEF Episode
<1> HIDE DEF f
<1>3. ASSUME at >= e.cleared PROVE ClearedLate(f)
  <2>1. f.active = TRUE
    BY <1>1, <1>3, Zenon
  <2>2. f.cleared = NoMinute
    BY <1>1, <1>3
  <2> QED BY <2>1, <2>2 DEF ClearedLate
<1>4. ASSUME ~ (at >= e.cleared) PROVE ClearedLate(f)
  <2>1. ~ e.active
    BY <1>2, <1>4 DEF ClearedLate, NoMinute
  <2>2. f.active = FALSE /\ f.cleared = e.cleared /\ e.last <= e.cleared
    BY <1>1, <1>4, <2>1 DEF ClearedLate
  <2>3. Later(e.last, at) <= e.cleared
    BY <1>2, <1>4, <2>2 DEF Later
  <2>4. f.last <= f.cleared
    BY <1>1, <2>2, <2>3
  <2> QED BY <2>2, <2>4 DEF ClearedLate
<1> QED BY <1>3, <1>4 DEF f

\* A new assessment adds one to the count of its episode and to no other.
LEMMA Assess ==
  ASSUME NEW set, IsFiniteSet(set), NEW i, NEW n, <<i, n>> \notin set, NEW new, new = set \cup {i} \X {n}
  PROVE  /\ IsFiniteSet(new)
         /\ Cardinality(Of(new, n)) = Cardinality(Of(set, n)) + 1
         /\ \A k : k # n => Of(new, k) = Of(set, k)
<1>1. {i} \X {n} = {<<i, n>>}
  OBVIOUS
<1>2. new = set \cup {<<i, n>>}
  BY <1>1
<1>3. IsFiniteSet(new)
  BY <1>2, FS_AddElement
<1>4. Of(new, n) = Of(set, n) \cup {<<i, n>>} /\ <<i, n>> \notin Of(set, n)
  BY <1>2 DEF Of
<1>5. IsFiniteSet(Of(set, n))
  <2>1. Of(set, n) \subseteq set
    BY DEF Of
  <2> QED BY <2>1, FS_Subset
<1>6. Cardinality(Of(new, n)) = Cardinality(Of(set, n)) + 1
  BY <1>4, <1>5, FS_AddElement
<1>7. \A k : k # n => Of(new, k) = Of(set, k)
  BY <1>2 DEF Of
<1> QED BY <1>3, <1>6, <1>7

\* A detection keeps a key sound when its assessment is new.
LEMMA DetectedSound ==
  ASSUME NEW list \in Seq(Episode), NEW st, NEW set, KeySound(list, st, set), IsFiniteSet(set),
         \A a \in set : a[2] \in DOMAIN list,
         NEW i, \A n : <<i, n>> \notin set, NEW at \in Nat, NEW severity \in Severities,
         NEW st2, st2.alert = CurrentOf(list)
  PROVE  LET new  == Detected(list, at, severity)
             more == set \cup {i} \X Counted(list)
         IN KeySound(new, st2, more) /\ IsFiniteSet(more) /\ \A a \in more : a[2] \in DOMAIN new
<1> DEFINE new  == Detected(list, at, severity)
           n    == CurrentOf(list)
           more == set \cup {i} \X {n}
<1>1. Open(list) \subseteq {Len(list)} /\ \A k \in DOMAIN list : ClearedLate(list[k]) /\ list[k].count = Cardinality(Of(set, k))
  BY DEF KeySound
<1>2. /\ new \in Seq(Episode) /\ Len(new) = n /\ Counted(list) = {n} /\ Open(new) = {n}
      /\ \A k \in DOMAIN list : k # n => new[k] = list[k]
      /\ Open(list) = {} => new[n] = NewEpisode(at, severity)
      /\ Open(list) # {} => n \in DOMAIN list /\ new[n] = DetectedAgain(list[n], at, severity)
  BY <1>1, DetectedList
<1>3. /\ IsFiniteSet(more) /\ Cardinality(Of(more, n)) = Cardinality(Of(set, n)) + 1
      /\ \A k : k # n => Of(more, k) = Of(set, k)
  <2>1. <<i, n>> \notin set
    OBVIOUS
  <2>2. more = set \cup {i} \X {n}
    OBVIOUS
  <2> HIDE DEF n, more
  <2> QED BY <2>1, <2>2, Assess, SMTT(60)
<1>4. n \in Nat /\ (Open(list) = {} => n = Len(list) + 1) /\ (Open(list) # {} => n = Len(list))
  BY DEF CurrentOf
<1> HIDE DEF new, n, more
<1>5. ClearedLate(new[n]) /\ new[n].count = Cardinality(Of(more, n))
  <2>1. CASE Open(list) = {}
    <3>1. Of(set, n) = {}
      BY <1>4, <2>1 DEF Of
    <3>2. Cardinality(Of(more, n)) = 1
      BY <1>3, <3>1, FS_EmptySet
    <3>3. new[n].active = TRUE /\ new[n].cleared = NoMinute /\ new[n].count = 1
      BY <1>2, <2>1 DEF NewEpisode
    <3> QED BY <3>2, <3>3 DEF ClearedLate
  <2>2. CASE Open(list) # {}
    <3>1. n \in DOMAIN list /\ list[n] \in Episode /\ new[n] = DetectedAgain(list[n], at, severity)
      BY <1>2, <2>2
    <3>2. new[n].count = list[n].count + 1
      BY <3>1, RepeatedFields
    <3>3. ClearedLate(new[n])
      BY <1>1, <3>1, RepeatedClearedLate
    <3> QED BY <1>1, <1>3, <3>1, <3>2, <3>3
  <2> QED BY <2>1, <2>2
<1>6. \A k \in DOMAIN new : k = n \/ k \in DOMAIN list
  BY <1>2, <1>4
<1>7. \A k \in DOMAIN new : ClearedLate(new[k]) /\ new[k].count = Cardinality(Of(more, k))
  BY <1>1, <1>2, <1>3, <1>5, <1>6
<1>8. \A a \in more : a[2] \in DOMAIN new
  <2>1. n \in DOMAIN new /\ DOMAIN list \subseteq DOMAIN new
    BY <1>2, <1>4 DEF Open
  <2>2. \A a \in more : a \in set \/ a[2] = n
    BY DEF more
  <2> QED BY <2>1, <2>2
<1>9. KeySound(new, st2, more)
  <2>1. st2.alert = n
    BY DEF n
  <2> QED BY <1>2, <1>7, <2>1 DEF KeySound
<1> QED BY <1>2, <1>3, <1>8, <1>9 DEF new, more

\* A recovery keeps it sound.
LEMMA RecoveredSound ==
  ASSUME NEW list \in Seq(Episode), NEW st, NEW set, KeySound(list, st, set), NEW at \in Nat,
         NEW st2, st2.alert = st.alert
  PROVE  KeySound(Recovered(list, at), st2, set) /\ DOMAIN Recovered(list, at) = DOMAIN list
<1> DEFINE new == Recovered(list, at)
<1>0. new \in Seq(Episode) /\ Len(new) = Len(list) /\ Open(new) = Open(list)
  BY RecoveredList
<1>1. \A k \in DOMAIN list :
         new[k] = IF Clears(list[k], at) THEN [list[k] EXCEPT !.active = FALSE, !.cleared = at] ELSE list[k]
  BY RecoveredList
<1> HIDE DEF new
<1>2. \A k \in DOMAIN list : ClearedLate(list[k]) /\ list[k].count = Cardinality(Of(set, k))
  BY DEF KeySound
<1>3. ASSUME NEW k \in DOMAIN list PROVE ClearedLate(new[k]) /\ new[k].count = list[k].count
  <2>1. CASE Clears(list[k], at)
    <3> DEFINE e == list[k]
    <3>1. e \in Episode /\ at >= e.last
      BY <2>1 DEF Clears
    <3>2. new[k] = [e EXCEPT !.active = FALSE, !.cleared = at]
      BY <1>1, <2>1
    <3> HIDE DEF e
    <3>3. new[k].active = FALSE /\ new[k].cleared = at /\ new[k].last = e.last /\ new[k].count = e.count
      BY <3>1, <3>2 DEF Episode
    <3>4. e.last <= at
      BY <3>1 DEF Episode
    <3> QED BY <3>3, <3>4 DEF ClearedLate, e
  <2>2. CASE ~ Clears(list[k], at)
    BY <1>1, <1>2, <2>2
  <2> QED BY <2>1, <2>2
<1>4. DOMAIN new = DOMAIN list
  BY <1>0
<1>5. KeySound(new, st2, set)
  <2>1. Open(new) \subseteq {Len(new)} /\ st2.alert = Len(new)
    BY <1>0 DEF KeySound
  <2> QED BY <1>2, <1>3, <1>4, <2>1 DEF KeySound
<1> QED BY <1>4, <1>5 DEF new

(***************************************************************************)
(* What a signal means.                                                    *)
(***************************************************************************)
Meanings ==
    {Nothing} \cup {Clear(at) : at \in Nat} \cup {Detect(at, severity) : at \in Nat, severity \in Severities}
    \cup {Sample(at, severity) : at \in Nat, severity \in Severities}

LEMMA MeaningFields ==
  ASSUME NEW m \in Meanings
  PROVE  /\ m.does \in {"detect", "sample"} => m.at \in Nat /\ m.severity \in Severities
         /\ m.does = "clear" => m.at \in Nat
<1>1. CASE m = Nothing
  BY <1>1 DEF Nothing
<1>2. CASE \E at \in Nat : m = Clear(at)
  BY <1>2 DEF Clear
<1>3. CASE \E at \in Nat, severity \in Severities : m = Detect(at, severity)
  BY <1>3 DEF Detect
<1>4. CASE \E at \in Nat, severity \in Severities : m = Sample(at, severity)
  BY <1>4 DEF Sample
<1> QED BY <1>1, <1>2, <1>3, <1>4 DEF Meanings

LEMMA MeaningSound ==
  ASSUME NEW s \in Signals, NEW key, NEW points
  PROVE  Meaning(s, key, points) \in Meanings
<1>1. s.at \in Nat /\ s.captured \in Nat
  BY DEF Signals
<1>2. Nothing \in Meanings /\ (\A at \in Nat : Clear(at) \in Meanings)
  BY DEF Meanings
<1>3. \A at \in Nat : Detect(at, "warning") \in Meanings /\ Detect(at, "critical") \in Meanings
  BY DEF Meanings, Severities
<1>4. \A at \in Nat : Sample(at, "warning") \in Meanings /\ Sample(at, "critical") \in Meanings
  BY DEF Meanings, Severities
<1>5. \A rule : SweepMeaning(s, rule) \in Meanings /\ RecoveryMeaning(s, rule) \in Meanings
  BY <1>1, <1>2, <1>3 DEF SweepMeaning, RecoveryMeaning
<1>6. \A rule : LiveMeaning(s, rule) \in Meanings
  BY <1>1, <1>2, <1>4 DEF LiveMeaning
<1>7. StopMeaning(s, points) \in Meanings /\ SpeedMeaning(s, points) \in Meanings /\ ReasonMeaning(s, key) \in Meanings
  BY <1>1, <1>2, <1>3 DEF StopMeaning, SpeedMeaning, ReasonMeaning
<1> QED BY <1>2, <1>5, <1>6, <1>7 DEF Meaning

(***************************************************************************)
(* The steps.                                                              *)
(***************************************************************************)

\* What the evaluation of a pending job does to one key.
AssessedAfter(m, key, i) ==
    assessed[key] \cup IF Happens(m, key) THEN {i} \X Counted(episodes[key]) ELSE {}

LEMMA KeyStep ==
  ASSUME AlertInv, NEW i \in DOMAIN jobs, jobs[i] = "pending", NEW key \in Keys, NEW m \in Meanings
  PROVE  /\ EpisodesAfter(m, key) \in Seq(Episode) /\ StateAfter(m, key) \in RuleState
         /\ KeySound(EpisodesAfter(m, key), StateAfter(m, key), AssessedAfter(m, key, i))
         /\ IsFiniteSet(AssessedAfter(m, key, i)) /\ AssessedAfter(m, key, i) \subseteq Nat \X Nat
         /\ \A a \in AssessedAfter(m, key, i) : /\ a[1] \in DOMAIN jobs /\ (jobs[a[1]] = "completed" \/ a[1] = i)
                                               /\ a[2] \in DOMAIN EpisodesAfter(m, key)
<1> DEFINE list == episodes[key]
           st   == state[key]
           set  == assessed[key]
           st1  == IF m.does = "sample" THEN Sampled(st, m.at) ELSE st
<1>1. list \in Seq(Episode) /\ st \in RuleState /\ i \in Nat
  BY DEF AlertInv, AlertTypeOK
<1>2. /\ IsFiniteSet(set) /\ set \subseteq Nat \X Nat
      /\ \A a \in set : a[1] \in DOMAIN jobs /\ jobs[a[1]] = "completed" /\ a[2] \in DOMAIN list
  BY DEF AlertInv, AssessmentsAreReal
<1>3. KeySound(list, st, set)
  BY SoundByKey DEF AlertInv
<1>4. \A n : <<i, n>> \notin set
  BY <1>2
<1>5. Open(list) \subseteq {Len(list)} /\ st.alert = Len(list)
  BY <1>3 DEF KeySound
<1>6. st1 \in RuleState /\ st1.alert = Len(list)
  BY <1>1, <1>5, StateTyped, MeaningFields
<1> HIDE DEF list, st, set, st1
<1>7. CASE Happens(m, key)
  <2> DEFINE new  == Detected(list, m.at, m.severity)
             more == set \cup {i} \X Counted(list)
             st2  == Observed(st1, list, m.at)
  <2>1. m.at \in Nat /\ m.severity \in Severities
    BY <1>7, MeaningFields DEF Happens
  <2>2. EpisodesAfter(m, key) = new /\ StateAfter(m, key) = st2 /\ AssessedAfter(m, key, i) = more
    BY <1>7 DEF EpisodesAfter, StateAfter, AssessedAfter, list, st, st1, set
  <2>3. st2 \in RuleState /\ st2.alert = CurrentOf(list)
    BY <1>1, <1>5, <1>6, <2>1, StateTyped
  <2>4. new \in Seq(Episode)
    BY <1>1, <1>5, <2>1, DetectedList
  <2>5. KeySound(new, st2, more) /\ IsFiniteSet(more) /\ \A a \in more : a[2] \in DOMAIN new
    <3> HIDE DEF st2
    <3> QED BY <1>1, <1>2, <1>3, <1>4, <2>1, <2>3, DetectedSound
  <2>6. Counted(list) \subseteq Nat
    BY <1>1 DEF Counted, Open
  <2>7. more \subseteq Nat \X Nat /\ \A a \in more : a[1] \in DOMAIN jobs /\ (jobs[a[1]] = "completed" \/ a[1] = i)
    BY <1>1, <1>2, <2>6
  <2> HIDE DEF new, more, st2
  <2> QED BY <2>2, <2>3, <2>4, <2>5, <2>7
<1>8. CASE ~ Happens(m, key) /\ m.does = "clear"
  <2>1. m.at \in Nat
    BY <1>8, MeaningFields
  <2>2. /\ EpisodesAfter(m, key) = Recovered(list, m.at) /\ StateAfter(m, key) = Cleared(st1, m.at)
        /\ AssessedAfter(m, key, i) = set
    BY <1>8 DEF EpisodesAfter, StateAfter, AssessedAfter, list, st, st1, set
  <2>3. Cleared(st1, m.at) \in RuleState /\ Cleared(st1, m.at).alert = st.alert
    BY <1>5, <1>6, <2>1, StateTyped
  <2>4. Recovered(list, m.at) \in Seq(Episode)
    BY <1>1, <2>1, RecoveredList
  <2>5. KeySound(Recovered(list, m.at), Cleared(st1, m.at), set) /\ DOMAIN Recovered(list, m.at) = DOMAIN list
    BY <1>1, <1>3, <2>1, <2>3, RecoveredSound
  <2> QED BY <1>2, <2>2, <2>3, <2>4, <2>5
<1>9. CASE ~ Happens(m, key) /\ m.does # "clear"
  <2>1. EpisodesAfter(m, key) = list /\ StateAfter(m, key) = st1 /\ AssessedAfter(m, key, i) = set
    BY <1>9 DEF EpisodesAfter, StateAfter, AssessedAfter, list, st, st1, set
  <2>2. KeySound(list, st1, set)
    BY <1>3, <1>5, <1>6 DEF KeySound
  <2> QED BY <1>1, <1>2, <1>6, <2>1, <2>2
<1> QED BY <1>7, <1>8, <1>9

LEMMA JobStep == ASSUME AlertInv, NEW i \in DOMAIN jobs, JobCompletes(i) PROVE AlertInv'
<1>0. PICK points \in [stop : {"unclear", "stopped", "moved"}, fast : BOOLEAN] :
        LET m == [key \in Keys |-> Meaning(signals[i], key, points)]
        IN /\ episodes' = [key \in Keys |-> EpisodesAfter(m[key], key)]
           /\ state' = [key \in Keys |-> StateAfter(m[key], key)]
           /\ assessed' = [key \in Keys |-> assessed[key] \cup
                             IF Happens(m[key], key) THEN {i} \X Counted(episodes[key]) ELSE {}]
  BY DEF JobCompletes
<1> DEFINE M(key) == Meaning(signals[i], key, points)
<1>1. /\ jobs[i] = "pending" /\ jobs' = [jobs EXCEPT ![i] = "completed"]
      /\ clock' = clock /\ signals' = signals
  BY DEF JobCompletes
<1>2. \A key \in Keys : M(key) \in Meanings
  <2>1. signals[i] \in Signals
    BY DEF AlertInv, AlertTypeOK
  <2> QED BY <2>1, MeaningSound
<1>3. \A key \in Keys : /\ episodes'[key] = EpisodesAfter(M(key), key) /\ state'[key] = StateAfter(M(key), key)
                        /\ assessed'[key] = AssessedAfter(M(key), key, i)
  BY <1>0 DEF AssessedAfter
<1>4. /\ episodes' = [key \in Keys |-> episodes'[key]] /\ state' = [key \in Keys |-> state'[key]]
      /\ assessed' = [key \in Keys |-> assessed'[key]]
  BY <1>0
<1> HIDE DEF M
<1>5. \A key \in Keys :
         /\ episodes'[key] \in Seq(Episode) /\ state'[key] \in RuleState
         /\ KeySound(episodes'[key], state'[key], assessed'[key])
         /\ IsFiniteSet(assessed'[key]) /\ assessed'[key] \subseteq Nat \X Nat
         /\ \A a \in assessed'[key] : /\ a[1] \in DOMAIN jobs /\ (jobs[a[1]] = "completed" \/ a[1] = i)
                                     /\ a[2] \in DOMAIN episodes'[key]
  BY <1>1, <1>2, <1>3, KeyStep
<1>6. /\ jobs' \in Seq({"pending", "completed", "failed"}) /\ Len(jobs') = Len(jobs) /\ DOMAIN jobs' = DOMAIN jobs
      /\ \A j \in DOMAIN jobs : jobs'[j] = IF j = i THEN "completed" ELSE jobs[j]
  BY <1>1 DEF AlertInv, AlertTypeOK
<1>7. AlertTypeOK'
  BY <1>1, <1>4, <1>5, <1>6 DEF AlertInv, AlertTypeOK
<1>8. AssessmentsAreReal'
  BY <1>4, <1>5, <1>6 DEF AssessmentsAreReal
<1>9. EpisodesAreSound'
  <2>1. (\A k \in Keys : KeySound(episodes[k], state[k], assessed[k]))'
    BY <1>5 DEF KeySound, Open, ClearedLate, Of, Keys
  <2> QED BY <2>1, SoundByKeyNext
<1> QED BY <1>7, <1>8, <1>9 DEF AlertInv

\* A step that leaves the keys alone and completes no job less.
LEMMA KeysKept ==
  ASSUME AlertInv, UNCHANGED <<episodes, state, assessed>>, clock' \in Nat, signals' \in Seq(Signals),
         jobs' \in Seq({"pending", "completed", "failed"}), Len(jobs') = Len(signals'), Len(jobs) <= Len(jobs'),
         \A j \in DOMAIN jobs : jobs[j] = "completed" => jobs'[j] = "completed"
  PROVE  AlertInv'
<1>1. AlertTypeOK'
  BY DEF AlertInv, AlertTypeOK
<1>2. DOMAIN jobs \subseteq DOMAIN jobs'
  BY DEF AlertInv, AlertTypeOK
<1>3. AssessmentsAreReal'
  BY <1>2 DEF AlertInv, AssessmentsAreReal
<1>4. EpisodesAreSound'
  BY DEF AlertInv, EpisodesAreSound, OneOpenEpisode, ClearedIsLater, CountsAreAssessed, Open
<1> QED BY <1>1, <1>3, <1>4 DEF AlertInv

LEMMA ReceiptStep == ASSUME AlertInv, NEW r \in Receipts, NEW at \in 0..LastMinute, ReceiptCommits(r, at) PROVE AlertInv'
<1> DEFINE s == [kind |-> "receipt", rule |-> Reason(r, at), at |-> at, captured |-> at - r.lateness,
                 disposition |-> ReceiptDisposition(r, at), readings |-> r.readings]
<1>1. /\ signals' = Append(signals, s) /\ jobs' = Append(jobs, "pending") /\ r.lateness <= at
      /\ clock' = clock /\ UNCHANGED <<episodes, state, assessed>>
  BY DEF ReceiptCommits
<1>2. LastMinute \in Nat /\ r.lateness \in Nat
  BY AlertAssumption
<1>3. at \in Nat /\ at - r.lateness \in Nat
  BY <1>1, <1>2
<1>4. /\ Reason(r, at) \in {"off_work_location_attempt", "sequence_gap", "none"}
      /\ ReceiptDisposition(r, at) \in {"accepted_live", "accepted_delayed", "health_only", "rejected"}
  BY DEF Reason, ReceiptDisposition
<1>5. s \in Signals
  BY <1>3, <1>4 DEF Signals
<1> HIDE DEF s
<1>6. signals \in Seq(Signals) /\ jobs \in Seq({"pending", "completed", "failed"}) /\ Len(jobs) = Len(signals) /\ clock \in Nat
  BY DEF AlertInv, AlertTypeOK
<1>7. /\ signals' \in Seq(Signals) /\ jobs' \in Seq({"pending", "completed", "failed"}) /\ Len(jobs') = Len(signals')
      /\ Len(jobs) <= Len(jobs') /\ \A j \in DOMAIN jobs : jobs'[j] = jobs[j]
  BY <1>1, <1>5, <1>6
<1> QED BY <1>1, <1>6, <1>7, KeysKept

\* What the sweep finds are signals, finitely many.
LEMMA SweepFindsSignals ==
  ASSUME clock \in Nat
  PROVE  SweepFinds \subseteq Signals /\ IsFiniteSet(SweepFinds)
<1> DEFINE four == {Signal("sweep", "device_offline"), Signal("sweep", "heartbeat_missing"),
                    Signal("sweep", "location_update_missing"), Signal("recovery", "none")}
<1>1. four \subseteq Signals
  BY DEF Signal, Signals
<1>2. IsFiniteSet(four)
  <2> DEFINE a == Signal("sweep", "device_offline")
             b == Signal("sweep", "heartbeat_missing")
             c == Signal("sweep", "location_update_missing")
             d == Signal("recovery", "none")
  <2>1. IsFiniteSet({}) /\ IsFiniteSet({} \cup {a})
    BY FS_EmptySet, FS_AddElement
  <2>2. IsFiniteSet(({} \cup {a}) \cup {b})
    BY <2>1, FS_AddElement
  <2>3. IsFiniteSet((({} \cup {a}) \cup {b}) \cup {c})
    BY <2>2, FS_AddElement
  <2>4. IsFiniteSet(((({} \cup {a}) \cup {b}) \cup {c}) \cup {d})
    BY <2>3, FS_AddElement
  <2>5. four = ((({} \cup {a}) \cup {b}) \cup {c}) \cup {d}
    <3> HIDE DEF a, b, c, d
    <3>1. {a, b, c, d} = ((({} \cup {a}) \cup {b}) \cup {c}) \cup {d}
      OBVIOUS
    <3> QED BY <3>1 DEF a, b, c, d
  <2> QED BY <2>4, <2>5
<1>3. SweepFinds \subseteq four
  BY DEF SweepFinds
<1> HIDE DEF four
<1> QED BY <1>1, <1>2, <1>3, FS_Subset

LEMMA SweepStep == ASSUME AlertInv, HealthSweep PROVE AlertInv'
<1>0. signals \in Seq(Signals) /\ jobs \in Seq({"pending", "completed", "failed"}) /\ Len(jobs) = Len(signals) /\ clock \in Nat
  BY DEF AlertInv, AlertTypeOK
<1>1. PICK found \in [1..Cardinality(SweepFinds) -> SweepFinds] :
        signals' = signals \o found /\ jobs' = jobs \o [i \in DOMAIN found |-> "pending"]
  BY DEF HealthSweep
<1>2. SweepFinds \subseteq Signals /\ IsFiniteSet(SweepFinds)
  BY <1>0, SweepFindsSignals
<1>3. Cardinality(SweepFinds) \in Nat
  BY <1>2, FS_CardinalityType
<1>4. found \in Seq(Signals) /\ DOMAIN found = 1..Cardinality(SweepFinds)
  BY <1>2, <1>3
<1> DEFINE added == [i \in DOMAIN found |-> "pending"]
<1>5. added \in Seq({"pending", "completed", "failed"}) /\ Len(added) = Len(found)
  BY <1>3, <1>4
<1> HIDE DEF added
<1>6. signals' = signals \o found /\ jobs' = jobs \o added
  BY <1>1 DEF added
<1>7. /\ signals' \in Seq(Signals) /\ jobs' \in Seq({"pending", "completed", "failed"}) /\ Len(jobs') = Len(signals')
      /\ Len(jobs) <= Len(jobs') /\ \A j \in DOMAIN jobs : jobs'[j] = jobs[j]
  <2>1. signals' \in Seq(Signals) /\ Len(signals') = Len(signals) + Len(found)
    BY <1>0, <1>4, <1>6
  <2>2. jobs' \in Seq({"pending", "completed", "failed"}) /\ Len(jobs') = Len(jobs) + Len(added)
    BY <1>0, <1>5, <1>6
  <2>3. \A j \in DOMAIN jobs : jobs'[j] = jobs[j]
    BY <1>0, <1>5, <1>6
  <2>4. Len(added) \in Nat
    BY <1>5
  <2> QED BY <1>0, <1>5, <2>1, <2>2, <2>3, <2>4
<1>8. clock' = clock /\ UNCHANGED <<episodes, state, assessed>>
  BY DEF HealthSweep
<1> QED BY <1>0, <1>7, <1>8, KeysKept

LEMMA TransitionStep ==
  ASSUME AlertInv, NEW key \in Keys, NEW i \in DOMAIN episodes[key], NEW to, TransitionAlert(key, i, to)
  PROVE  AlertInv'
<1>0. /\ May(episodes[key][i].status, to) /\ episodes' = [episodes EXCEPT ![key][i].status = to]
      /\ UNCHANGED <<clock, signals, jobs, state, assessed>>
  BY DEF TransitionAlert
<1>1. episodes \in [Keys -> Seq(Episode)] /\ episodes[key] \in Seq(Episode) /\ episodes[key][i] \in Episode
  BY DEF AlertInv, AlertTypeOK
<1>2. to \in Statuses /\ episodes[key][i].status \notin Terminal
  BY <1>0 DEF May, Statuses, Terminal
<1> DEFINE e == episodes[key][i]
           f == [e EXCEPT !.status = to]
<1>3. f \in Episode /\ f.active = e.active /\ f.cleared = e.cleared /\ f.last = e.last /\ f.count = e.count
  BY <1>1, <1>2 DEF Episode
<1>4. /\ episodes' \in [Keys -> Seq(Episode)] /\ DOMAIN episodes'[key] = DOMAIN episodes[key] /\ Len(episodes'[key]) = Len(episodes[key])
      /\ episodes'[key][i] = f /\ \A j \in DOMAIN episodes[key] : j # i => episodes'[key][j] = episodes[key][j]
      /\ \A other \in Keys : other # key => episodes'[other] = episodes[other]
  BY <1>0, <1>1, <1>3
<1>5. AlertTypeOK'
  BY <1>0, <1>4 DEF AlertInv, AlertTypeOK
<1>6. AssessmentsAreReal'
  <2>1. \A other \in Keys : DOMAIN episodes'[other] = DOMAIN episodes[other]
    BY <1>4
  <2> QED BY <1>0, <2>1 DEF AlertInv, AssessmentsAreReal
<1> HIDE DEF f, e
<1>7. \A other \in Keys : KeySound(episodes[other], state[other], assessed[other])
  BY SoundByKey DEF AlertInv
<1>8. KeySound(episodes'[key], state[key], assessed[key])
  <2>1. Open(episodes'[key]) \subseteq Open(episodes[key])
    BY <1>2, <1>4 DEF Open, e
  <2>2. \A j \in DOMAIN episodes[key] : /\ ClearedLate(episodes[key][j]) => ClearedLate(episodes'[key][j])
                                       /\ episodes'[key][j].count = episodes[key][j].count
    <3>1. ClearedLate(e) => ClearedLate(f)
      BY <1>3 DEF ClearedLate
    <3> QED BY <1>3, <1>4, <3>1 DEF e
  <2> QED BY <1>4, <1>7, <2>1, <2>2 DEF KeySound
<1>9. \A other \in Keys : KeySound(episodes'[other], state'[other], assessed'[other])
  BY <1>0, <1>4, <1>7, <1>8
<1>10. EpisodesAreSound'
  <2>1. (\A k \in Keys : KeySound(episodes[k], state[k], assessed[k]))'
    BY <1>9 DEF KeySound, Open, ClearedLate, Of, Keys
  <2> QED BY <2>1, SoundByKeyNext
<1> QED BY <1>5, <1>6, <1>10 DEF AlertInv

LEMMA AlertStep == AlertInv /\ [AlertNext]_alertVars => AlertInv'
<1> SUFFICES ASSUME AlertInv, [AlertNext]_alertVars PROVE AlertInv'
  OBVIOUS
<1>0. signals \in Seq(Signals) /\ jobs \in Seq({"pending", "completed", "failed"}) /\ Len(jobs) = Len(signals) /\ clock \in Nat
  BY DEF AlertInv, AlertTypeOK
<1>1. CASE MinutePasses
  BY <1>0, <1>1, KeysKept DEF MinutePasses
<1>2. CASE WorkStarts \/ WorkEnds
  BY <1>0, <1>2, KeysKept DEF WorkStarts, WorkEnds
<1>3. CASE HealthSweep
  BY <1>3, SweepStep
<1>4. CASE \E r \in Receipts, at \in 0..LastMinute : ReceiptCommits(r, at)
  BY <1>4, ReceiptStep
<1>5. ASSUME NEW i \in DOMAIN jobs, JobCompletes(i) PROVE AlertInv'
  BY <1>5, JobStep
<1>6. ASSUME NEW i \in DOMAIN jobs, JobFails(i) PROVE AlertInv'
  <2>1. /\ jobs[i] = "pending" /\ jobs' = [jobs EXCEPT ![i] = "failed"]
        /\ UNCHANGED <<clock, signals, episodes, state, assessed>>
    BY <1>6 DEF JobFails
  <2>2. /\ jobs' \in Seq({"pending", "completed", "failed"}) /\ Len(jobs') = Len(jobs)
        /\ \A j \in DOMAIN jobs : jobs[j] = "completed" => jobs'[j] = "completed"
    BY <1>0, <2>1
  <2> QED BY <1>0, <2>1, <2>2, KeysKept
<1>7. ASSUME NEW key \in Keys, NEW i \in DOMAIN episodes[key], NEW to \in Decisions, TransitionAlert(key, i, to)
      PROVE  AlertInv'
  BY <1>7, TransitionStep
<1>8. CASE UNCHANGED alertVars
  BY <1>0, <1>8, KeysKept DEF alertVars
<1> QED BY <1>1, <1>2, <1>3, <1>4, <1>5, <1>6, <1>7, <1>8 DEF AlertNext

(***************************************************************************)
(* The theorems.                                                           *)
(***************************************************************************)

LEMMA AlertInvariant == AlertSpec => []AlertInv
<1>1. AlertInit => AlertInv
  BY InitiallySound
<1> QED BY <1>1, AlertStep, PTL DEF AlertSpec

\* In whatever order the jobs of the rule queue run, a key has one open episode
\* at most, what it shows as recovered recovered after the last detection, and
\* every assessment is counted once (m22_apply_rule_observation).
THEOREM EpisodesAlwaysSound == AlertSpec => []EpisodesAreSound
<1>1. AlertInv => EpisodesAreSound
  BY DEF AlertInv
<1> QED BY <1>1, AlertInvariant, PTL

(***************************************************************************)
(* What a step may do to an episode.                                       *)
(***************************************************************************)

\* What EpisodesOnlyGrow says of one episode.
Continues(e, f) ==
    /\ e.status \in Terminal => f = e
    /\ f.first = e.first /\ f.last >= e.last /\ f.count >= e.count
    /\ e.severity = "critical" => f.severity = "critical"
    /\ f.status = e.status \/ May(e.status, f.status)

LEMMA Stays == ASSUME NEW e \in Episode PROVE Continues(e, e)
  BY DEF Continues, Episode

LEMMA RepeatedContinues ==
  ASSUME NEW e \in Episode, NEW at \in Nat, NEW severity \in Severities, e.status \notin Terminal
  PROVE  Continues(e, DetectedAgain(e, at, severity))
<1> DEFINE f == DetectedAgain(e, at, severity)
<1>1. /\ f.status = e.status /\ f.first = e.first /\ f.count = e.count + 1 /\ f.last = Later(e.last, at)
      /\ f.severity = IF severity = "critical" THEN severity ELSE e.severity
  BY RepeatedFields
<1>2. e.last \in Nat /\ e.count \in Nat
  BY DEF Episode
<1> HIDE DEF f
<1>3. f.last >= e.last /\ f.count >= e.count
  BY <1>1, <1>2 DEF Later
<1>4. e.severity = "critical" => f.severity = "critical"
  BY <1>1
<1>5. Continues(e, f)
  BY <1>1, <1>3, <1>4 DEF Continues
<1> QED BY <1>5 DEF f

LEMMA ClearedContinues ==
  ASSUME NEW e \in Episode, NEW at \in Nat, e.status \notin Terminal
  PROVE  Continues(e, [e EXCEPT !.active = FALSE, !.cleared = at])
<1> DEFINE f == [e EXCEPT !.active = FALSE]
           g == [f EXCEPT !.cleared = at]
<1>1. f.status = e.status /\ f.first = e.first /\ f.last = e.last /\ f.count = e.count /\ f.severity = e.severity /\ f \in Episode
  BY DEF Episode
<1> HIDE DEF f
<1>2. g.status = f.status /\ g.first = f.first /\ g.last = f.last /\ g.count = f.count /\ g.severity = f.severity
  BY <1>1 DEF Episode
<1>3. g = [e EXCEPT !.active = FALSE, !.cleared = at]
  BY DEF f
<1> HIDE DEF g
<1>4. e.last \in Nat /\ e.count \in Nat
  BY DEF Episode
<1>5. Continues(e, g)
  BY <1>1, <1>2, <1>4 DEF Continues
<1> QED BY <1>3, <1>5

\* An evaluation continues every episode of a key.
LEMMA EvaluationContinues ==
  ASSUME AlertInv, NEW key \in Keys, NEW m \in Meanings, NEW i \in DOMAIN episodes[key]
  PROVE  i \in DOMAIN EpisodesAfter(m, key) /\ Continues(episodes[key][i], EpisodesAfter(m, key)[i])
<1> DEFINE list == episodes[key]
<1>1. list \in Seq(Episode) /\ list[i] \in Episode /\ i \in 1..Len(list) /\ i \in DOMAIN list
  BY DEF AlertInv, AlertTypeOK
<1>2. Open(list) \subseteq {Len(list)}
  BY DEF AlertInv, EpisodesAreSound, OneOpenEpisode
<1> HIDE DEF list
<1>3. CASE Happens(m, key)
  <2> DEFINE new == Detected(list, m.at, m.severity)
             n   == CurrentOf(list)
  <2>1. m.at \in Nat /\ m.severity \in Severities
    BY <1>3, MeaningFields DEF Happens
  <2>2. EpisodesAfter(m, key) = new
    BY <1>3 DEF EpisodesAfter, list
  <2>3. /\ new \in Seq(Episode) /\ Len(new) = n
        /\ \A k \in DOMAIN list : k # n => new[k] = list[k]
        /\ Open(list) = {} => new[n] = NewEpisode(m.at, m.severity)
        /\ Open(list) # {} => n \in DOMAIN list /\ new[n] = DetectedAgain(list[n], m.at, m.severity)
    BY <1>1, <1>2, <2>1, DetectedList
  <2>4. n \in Nat /\ (Open(list) = {} => n = Len(list) + 1) /\ (Open(list) # {} => n = Len(list) /\ n \in Open(list))
    BY <1>1, <1>2 DEF CurrentOf
  <2> HIDE DEF new, n
  <2>5. i \in DOMAIN new
    BY <1>1, <2>3, <2>4
  <2>6. CASE i # n
    BY <1>1, <2>2, <2>3, <2>5, <2>6, Stays DEF list
  <2>7. CASE i = n
    <3>1. list[i].status \notin Terminal /\ new[i] = DetectedAgain(list[i], m.at, m.severity)
      BY <1>1, <2>3, <2>4, <2>7 DEF Open
    <3>2. Continues(list[i], new[i])
      BY <1>1, <2>1, <3>1, RepeatedContinues
    <3> QED BY <2>2, <2>5, <3>2 DEF list
  <2> QED BY <2>6, <2>7
<1>4. CASE ~ Happens(m, key) /\ m.does = "clear"
  <2> DEFINE new == Recovered(list, m.at)
             cleared(e) == [e EXCEPT !.active = FALSE, !.cleared = m.at]
  <2>1. m.at \in Nat
    BY <1>4, MeaningFields
  <2>2. EpisodesAfter(m, key) = new
    BY <1>4 DEF EpisodesAfter, list
  <2>3. /\ new \in Seq(Episode) /\ Len(new) = Len(list)
        /\ \A k \in DOMAIN list :
              new[k] = IF Clears(list[k], m.at) THEN cleared(list[k]) ELSE list[k]
    BY <1>1, <2>1, RecoveredList
  <2>4. \A e \in Episode : e.status \notin Terminal => Continues(e, cleared(e))
    BY <2>1, ClearedContinues
  <2> HIDE DEF new, cleared
  <2>7. i \in DOMAIN new
    BY <1>1, <2>3
  <2>5. CASE Clears(list[i], m.at)
    <3>1. new[i] = cleared(list[i]) /\ list[i].status \notin Terminal
      BY <1>1, <2>3, <2>5 DEF Clears
    <3>2. Continues(list[i], new[i])
      BY <1>1, <2>4, <3>1
    <3> QED BY <2>7, <2>2, <3>2 DEF list
  <2>6. CASE ~ Clears(list[i], m.at)
    <3>1. Continues(list[i], new[i])
      BY <1>1, <2>3, <2>6, Stays
    <3> QED BY <2>7, <2>2, <3>1 DEF list
  <2> QED BY <2>5, <2>6
<1>5. CASE ~ Happens(m, key) /\ m.does # "clear"
  BY <1>1, <1>5, Stays DEF EpisodesAfter, list
<1> QED BY <1>3, <1>4, <1>5

LEMMA EpisodesContinue ==
  ASSUME AlertInv, [AlertNext]_alertVars, NEW key \in Keys, NEW i \in DOMAIN episodes[key]
  PROVE  i \in DOMAIN episodes'[key] /\ Continues(episodes[key][i], episodes'[key][i])
<1>1. episodes \in [Keys -> Seq(Episode)] /\ episodes[key] \in Seq(Episode) /\ episodes[key][i] \in Episode
  BY DEF AlertInv, AlertTypeOK
<1>2. CASE UNCHANGED episodes
  BY <1>1, <1>2, Stays
<1>3. ASSUME NEW j \in DOMAIN jobs, JobCompletes(j)
      PROVE  i \in DOMAIN episodes'[key] /\ Continues(episodes[key][i], episodes'[key][i])
  <2>1. PICK points \in [stop : {"unclear", "stopped", "moved"}, fast : BOOLEAN] :
          LET m == [k \in Keys |-> Meaning(signals[j], k, points)]
          IN episodes' = [k \in Keys |-> EpisodesAfter(m[k], k)]
    BY <1>3 DEF JobCompletes
  <2> DEFINE m == Meaning(signals[j], key, points)
  <2>2. signals[j] \in Signals
    BY DEF AlertInv, AlertTypeOK
  <2>3. m \in Meanings
    BY <2>2, MeaningSound
  <2>4. episodes'[key] = EpisodesAfter(m, key)
    BY <2>1
  <2> HIDE DEF m
  <2> QED BY <2>3, <2>4, EvaluationContinues
<1>4. ASSUME NEW k \in Keys, NEW n \in DOMAIN episodes[k], NEW to \in Decisions, TransitionAlert(k, n, to)
      PROVE  i \in DOMAIN episodes'[key] /\ Continues(episodes[key][i], episodes'[key][i])
  <2>1. May(episodes[k][n].status, to) /\ episodes' = [episodes EXCEPT ![k][n].status = to]
    BY <1>4 DEF TransitionAlert
  <2>2. CASE k = key /\ n = i
    <3> DEFINE e == episodes[key][i]
               f == [e EXCEPT !.status = to]
    <3>1. episodes'[key][i] = f /\ i \in DOMAIN episodes'[key]
      BY <1>1, <2>1, <2>2
    <3>2. e \in Episode /\ e.status \notin Terminal
      BY <1>1, <2>1, <2>2 DEF May, Terminal
    <3>3. f.status = to /\ f.first = e.first /\ f.last = e.last /\ f.count = e.count /\ f.severity = e.severity
      BY <3>2 DEF Episode
    <3>4. e.last \in Nat /\ e.count \in Nat /\ May(e.status, to)
      BY <2>1, <2>2, <3>2 DEF Episode
    <3> HIDE DEF e, f
    <3>5. Continues(e, f)
      BY <3>2, <3>3, <3>4 DEF Continues
    <3> QED BY <3>1, <3>5 DEF e
  <2>3. CASE ~ (k = key /\ n = i)
    <3>1. i \in DOMAIN episodes'[key] /\ episodes'[key][i] = episodes[key][i]
      BY <1>1, <2>1, <2>3
    <3> QED BY <1>1, <3>1, Stays
  <2> QED BY <2>2, <2>3
<1>5. CASE MinutePasses \/ WorkStarts \/ WorkEnds \/ HealthSweep
  BY <1>2, <1>5 DEF MinutePasses, WorkStarts, WorkEnds, HealthSweep
<1>6. CASE \E r \in Receipts, at \in 0..LastMinute : ReceiptCommits(r, at)
  BY <1>2, <1>6 DEF ReceiptCommits
<1>7. CASE \E j \in DOMAIN jobs : JobFails(j)
  BY <1>2, <1>7 DEF JobFails
<1>8. CASE UNCHANGED alertVars
  BY <1>2, <1>8 DEF alertVars
<1> QED BY <1>3, <1>4, <1>5, <1>6, <1>7, <1>8 DEF AlertNext

\* No evaluation and no decision of an administrator touches a closed alert,
\* moves the start of an open one, or takes a detection back from it.
THEOREM EpisodesNeverShrink == AlertSpec => EpisodesOnlyGrow
<1> DEFINE Grow == \A key \in Keys : \A i \in DOMAIN episodes[key] :
                      /\ i \in DOMAIN episodes'[key]
                      /\ LET e == episodes[key][i]
                             f == episodes'[key][i]
                         IN /\ e.status \in Terminal => f = e
                            /\ f.first = e.first /\ f.last >= e.last /\ f.count >= e.count
                            /\ e.severity = "critical" => f.severity = "critical"
                            /\ f.status = e.status \/ May(e.status, f.status)
<1>1. AlertInv /\ [AlertNext]_alertVars => [Grow]_alertVars
  BY EpisodesContinue DEF Continues
<1> QED BY <1>1, AlertInvariant, PTL DEF AlertSpec, EpisodesOnlyGrow

(***************************************************************************)
(* What is shown once everything has been evaluated.                       *)
(***************************************************************************)

\* Only receipts are live evidence.
LiveAreReceipts == \A n \in LiveReceipts : signals[n].kind = "receipt"

\* An alert about reported health was last detected at a live receipt.
DetectedAtReceipts ==
    \A rule \in LiveRules : \A i \in DOMAIN episodes[<<rule, "live">>] :
       \E n \in LiveReceipts : episodes[<<rule, "live">>][i].last <= signals[n].at

\* The newest and latest live receipt.
Decisive(n) == \A i \in LiveReceipts : i <= n /\ signals[i].at <= signals[n].at

\* Once it has been evaluated, no alert about good health is active.
QuietAfterDecisive ==
    \A n \in LiveReceipts : jobs[n] = "completed" /\ Decisive(n) =>
       \A rule \in LiveRules : health[rule] \notin Bad =>
          \A i \in Open(episodes[<<rule, "live">>]) : ~ episodes[<<rule, "live">>][i].active

QuietInv == AlertInv /\ LiveAreReceipts /\ DetectedAtReceipts /\ QuietAfterDecisive

LEMMA InitiallyQuiet == AlertInit => QuietInv
<1> SUFFICES ASSUME AlertInit PROVE QuietInv
  OBVIOUS
<1>1. LiveReceipts = {}
  BY DEF AlertInit, LiveReceipts
<1>2. \A rule \in LiveRules : <<rule, "live">> \in Keys
  BY DEF Keys
<1>3. \A rule \in LiveRules : episodes[<<rule, "live">>] = <<>>
  BY <1>2 DEF AlertInit
<1> QED BY <1>1, <1>3, InitiallySound DEF QuietInv, LiveAreReceipts, DetectedAtReceipts, QuietAfterDecisive

\* Nothing is heard of the device and nothing evaluated.
LEMMA QuietKept ==
  ASSUME QuietInv, AlertInv', UNCHANGED <<episodes, health>>,
         Len(signals) <= Len(signals'), \A j \in DOMAIN signals : signals'[j] = signals[j],
         \A j \in DOMAIN signals' : j \notin DOMAIN signals => signals'[j].disposition \notin LiveDispositions,
         \A j \in DOMAIN signals : jobs'[j] = "completed" => jobs[j] = "completed"
  PROVE  QuietInv'
<1>0. signals \in Seq(Signals) /\ signals' \in Seq(Signals)
  BY DEF QuietInv, AlertInv, AlertTypeOK
<1>1. LiveReceipts' = LiveReceipts /\ LiveReceipts \subseteq DOMAIN signals
  BY <1>0 DEF LiveReceipts
<1>2. \A n \in LiveReceipts : signals'[n] = signals[n] /\ (jobs'[n] = "completed" => jobs[n] = "completed")
  BY <1>1
<1>3. LiveAreReceipts'
  BY <1>1, <1>2 DEF QuietInv, LiveAreReceipts
<1>4. DetectedAtReceipts'
  BY <1>1, <1>2 DEF QuietInv, DetectedAtReceipts
<1>5. \A n \in LiveReceipts : Decisive(n)' => Decisive(n)
  BY <1>1, <1>2 DEF Decisive
<1>6. QuietAfterDecisive'
  BY <1>1, <1>2, <1>5 DEF QuietInv, QuietAfterDecisive, Open
<1> QED BY <1>3, <1>4, <1>6 DEF QuietInv

\* A receipt that is live has yet to be evaluated, and every other is older.
LEMMA QuietReceipt ==
  ASSUME QuietInv, AlertInv', NEW r \in Receipts, NEW at \in 0..LastMinute, ReceiptCommits(r, at)
  PROVE  QuietInv'
<1> DEFINE d == ReceiptDisposition(r, at)
           s == [kind |-> "receipt", rule |-> Reason(r, at), at |-> at, captured |-> at - r.lateness,
                 disposition |-> d, readings |-> r.readings]
           top == Len(signals) + 1
<1>0. /\ signals \in Seq(Signals) /\ signals' \in Seq(Signals) /\ jobs \in Seq({"pending", "completed", "failed"})
      /\ Len(jobs) = Len(signals)
  BY DEF QuietInv, AlertInv, AlertTypeOK
<1>1. signals' = Append(signals, s) /\ jobs' = Append(jobs, "pending") /\ episodes' = episodes
  BY DEF ReceiptCommits
<1>2. health' = [l \in LiveRules |-> IF (d = "accepted_live" \/ (d = "health_only" /\ r.lateness <= Freshness))
                                        /\ l \in DOMAIN r.readings
                                     THEN Level(l, r.readings[l]) ELSE health[l]]
  BY DEF ReceiptCommits
<1>3. s.disposition = d /\ s.kind = "receipt"
  OBVIOUS
<1> HIDE DEF d, s
<1>4. /\ DOMAIN signals' = DOMAIN signals \cup {top} /\ top \notin DOMAIN signals /\ signals'[top] = s
      /\ \A j \in DOMAIN signals : signals'[j] = signals[j]
  BY <1>0, <1>1
<1>5. jobs'[top] = "pending" /\ \A j \in DOMAIN signals : jobs'[j] = jobs[j]
  BY <1>0, <1>1
<1>6. LiveReceipts' = LiveReceipts \cup {n \in {top} : d \in LiveDispositions}
  BY <1>3, <1>4 DEF LiveReceipts
<1>7. \A n \in LiveReceipts : n \in DOMAIN signals /\ n < top
  BY <1>0 DEF LiveReceipts
<1>8. LiveAreReceipts'
  BY <1>3, <1>4, <1>6, <1>7 DEF QuietInv, LiveAreReceipts
<1>9. DetectedAtReceipts'
  BY <1>1, <1>4, <1>6, <1>7 DEF QuietInv, DetectedAtReceipts
<1>10. QuietAfterDecisive'
  <2>1. CASE d \in LiveDispositions
    <3>1. \A n \in LiveReceipts' : Decisive(n)' => top <= n
      BY <1>6, <2>1 DEF Decisive
    <3>2. \A n \in LiveReceipts' : Decisive(n)' => n = top
      BY <1>0, <1>6, <1>7, <3>1 DEF LiveReceipts
    <3> QED BY <1>5, <3>2 DEF QuietAfterDecisive
  <2>2. CASE d \notin LiveDispositions
    <3>1. LiveReceipts' = LiveReceipts
      BY <1>6, <2>2
    <3>2. \A rule \in LiveRules : health'[rule] = health[rule]
      BY <1>2, <2>2 DEF LiveDispositions
    <3>3. \A n \in LiveReceipts : signals'[n] = signals[n] /\ jobs'[n] = jobs[n]
      BY <1>4, <1>5, <1>7
    <3>4. \A n \in LiveReceipts : Decisive(n)' => Decisive(n)
      BY <3>1, <3>3 DEF Decisive
    <3> QED BY <1>1, <3>1, <3>2, <3>3, <3>4 DEF QuietInv, QuietAfterDecisive, Open
  <2> QED BY <2>1, <2>2
<1> QED BY <1>8, <1>9, <1>10 DEF QuietInv

\* What the sweep adds is not live.
LEMMA QuietSweep == ASSUME QuietInv, AlertInv', HealthSweep PROVE QuietInv'
<1>0. /\ signals \in Seq(Signals) /\ signals' \in Seq(Signals) /\ jobs \in Seq({"pending", "completed", "failed"})
      /\ Len(jobs) = Len(signals) /\ IsFiniteSet(SweepFinds) /\ SweepFinds \subseteq Signals
  <2>1. signals \in Seq(Signals) /\ signals' \in Seq(Signals) /\ jobs \in Seq({"pending", "completed", "failed"}) /\ Len(jobs) = Len(signals)
    BY DEF QuietInv, AlertInv, AlertTypeOK
  <2> QED BY <2>1, SweepFindsSignals DEF QuietInv, AlertInv, AlertTypeOK
<1>1. PICK found \in [1..Cardinality(SweepFinds) -> SweepFinds] :
        signals' = signals \o found /\ jobs' = jobs \o [i \in DOMAIN found |-> "pending"]
  BY DEF HealthSweep
<1>2. UNCHANGED <<episodes, health>>
  BY DEF HealthSweep
<1>3. \A s \in SweepFinds : s.disposition \notin LiveDispositions
  BY DEF SweepFinds, Signal, LiveDispositions
<1>4. Cardinality(SweepFinds) \in Nat
  BY <1>0, FS_CardinalityType
<1>5. found \in Seq(SweepFinds) /\ Len(found) = Cardinality(SweepFinds)
  BY <1>1, <1>4
<1>6. /\ Len(signals) <= Len(signals') /\ \A j \in DOMAIN signals : signals'[j] = signals[j]
      /\ \A j \in DOMAIN signals' : j \notin DOMAIN signals => signals'[j] \in SweepFinds
  <2> DEFINE more == Len(found)
  <2>0. found \in Seq(Signals)
    BY <1>0, <1>5
  <2>5. signals' = signals \o found
    BY <1>1
  <2>1. more \in Nat /\ signals' = signals \o found /\ Len(signals') = Len(signals) + more
    BY <1>0, <2>0, <2>5
  <2>2. \A j \in 1..Len(signals) + more : signals'[j] = IF j <= Len(signals) THEN signals[j] ELSE found[j - Len(signals)]
    BY <1>0, <1>5, <2>1
  <2>3. \A j \in 1..more : found[j] \in SweepFinds
    BY <1>5
  <2> HIDE DEF more
  <2>4. ASSUME NEW j \in DOMAIN signals', j \notin DOMAIN signals PROVE signals'[j] \in SweepFinds
    <3>1. j \in Nat /\ j > Len(signals) /\ j <= Len(signals) + more /\ j - Len(signals) \in 1..more
      BY <1>0, <2>1, <2>4
    <3> QED BY <1>0, <2>1, <2>2, <2>3, <3>1
  <2> QED BY <1>0, <2>1, <2>2, <2>4
<1>7. \A j \in DOMAIN signals : jobs'[j] = jobs[j]
  <2>1. [i \in DOMAIN found |-> "pending"] \in Seq({"pending"})
    BY <1>1, <1>4
  <2> QED BY <1>0, <1>1, <2>1
<1> QED BY <1>2, <1>3, <1>6, <1>7, QuietKept

\* What a signal means for a rule on reported health.
LEMMA LiveKeyMeaning ==
  ASSUME NEW s \in Signals, NEW rule \in LiveRules, NEW points
  PROVE  LET m == Meaning(s, <<rule, "live">>, points)
         IN \/ m = Nothing /\ ~ (s.kind = "receipt" /\ s.disposition \in LiveDispositions)
            \/ m = Clear(s.at) /\ s.disposition \in LiveDispositions /\ health[rule] \notin Bad
            \/ \E severity \in Severities : m = Sample(s.at, severity) /\ s.disposition \in LiveDispositions /\ health[rule] \in Bad
<1>1. s.kind # "receipt" => Meaning(s, <<rule, "live">>, points) = Nothing
  BY DEF Meaning
<1>2. s.kind = "receipt" => Meaning(s, <<rule, "live">>, points) = LiveMeaning(s, rule)
  BY AlertAssumption DEF Meaning
<1> QED BY <1>1, <1>2 DEF LiveMeaning, Severities

\* A recovery moves no last detection, activates nothing, and shows nothing
\* active that was not detected later.
LEMMA RecoveredQuiet ==
  ASSUME NEW list \in Seq(Episode), NEW at \in Nat
  PROVE  LET new == Recovered(list, at)
         IN /\ DOMAIN new = DOMAIN list /\ Open(new) = Open(list)
            /\ \A i \in DOMAIN list : new[i].last = list[i].last /\ (new[i].active => list[i].active)
            /\ \A i \in Open(list) : list[i].last <= at => ~ new[i].active
<1> DEFINE new == Recovered(list, at)
           cleared(e) == [e EXCEPT !.active = FALSE, !.cleared = at]
<1>1. /\ new \in Seq(Episode) /\ Len(new) = Len(list) /\ Open(new) = Open(list)
      /\ \A i \in DOMAIN list : new[i] = IF Clears(list[i], at) THEN cleared(list[i]) ELSE list[i]
  BY RecoveredList
<1>2. ASSUME NEW e \in Episode PROVE cleared(e).last = e.last /\ cleared(e).active = FALSE
  <2> DEFINE f == [e EXCEPT !.active = FALSE]
  <2>1. f.last = e.last /\ f.active = FALSE /\ f \in Episode
    BY DEF Episode
  <2> HIDE DEF f
  <2>2. [f EXCEPT !.cleared = at].last = f.last /\ [f EXCEPT !.cleared = at].active = f.active
    BY <2>1 DEF Episode
  <2> QED BY <2>1, <2>2 DEF f
<1> HIDE DEF new, cleared
<1>3. DOMAIN new = DOMAIN list /\ \A i \in DOMAIN list : list[i] \in Episode
  BY <1>1
<1>4. ASSUME NEW i \in DOMAIN list PROVE new[i].last = list[i].last /\ (new[i].active => list[i].active)
  <2>1. CASE Clears(list[i], at)
    BY <1>1, <1>2, <1>3, <2>1
  <2>2. CASE ~ Clears(list[i], at)
    BY <1>1, <2>2
  <2> QED BY <2>1, <2>2
<1>5. ASSUME NEW i \in Open(list), list[i].last <= at PROVE ~ new[i].active
  <2>1. i \in DOMAIN list /\ list[i].status \notin Terminal /\ list[i].last \in Nat
    BY <1>3 DEF Open, Episode
  <2>2. CASE list[i].active
    <3>1. Clears(list[i], at)
      BY <1>5, <2>1, <2>2 DEF Clears
    <3> QED BY <1>1, <1>2, <1>3, <2>1, <3>1
  <2>3. CASE ~ list[i].active
    BY <1>4, <2>1, <2>3
  <2> QED BY <2>2, <2>3
<1> QED BY <1>1, <1>3, <1>4, <1>5 DEF new

\* A detection moves a last detection to its own time or not at all.
LEMMA DetectedLast ==
  ASSUME NEW list \in Seq(Episode), Open(list) \subseteq {Len(list)}, NEW at \in Nat, NEW severity \in Severities
  PROVE  LET new == Detected(list, at, severity)
         IN \A i \in DOMAIN new : new[i].last = at \/ (i \in DOMAIN list /\ new[i].last = list[i].last)
<1> DEFINE new == Detected(list, at, severity)
           n   == CurrentOf(list)
<1>1. /\ new \in Seq(Episode) /\ Len(new) = n
      /\ \A i \in DOMAIN list : i # n => new[i] = list[i]
      /\ Open(list) = {} => new[n] = NewEpisode(at, severity)
      /\ Open(list) # {} => n \in DOMAIN list /\ new[n] = DetectedAgain(list[n], at, severity)
  BY DetectedList
<1>2. n \in Nat /\ (Open(list) = {} => n = Len(list) + 1) /\ (Open(list) # {} => n = Len(list))
  BY DEF CurrentOf
<1> HIDE DEF new, n
<1>3. CASE Open(list) = {}
  <2>1. new[n].last = at
    BY <1>1, <1>3 DEF NewEpisode
  <2> QED BY <1>1, <1>2, <1>3, <2>1 DEF new
<1>4. CASE Open(list) # {}
  <2>1. n \in DOMAIN list /\ list[n] \in Episode /\ new[n] = DetectedAgain(list[n], at, severity)
    BY <1>1, <1>4
  <2>2. new[n].last = Later(list[n].last, at)
    BY <2>1, RepeatedFields
  <2>3. new[n].last = list[n].last \/ new[n].last = at
    BY <2>2 DEF Later
  <2> QED BY <1>1, <1>2, <1>4, <2>1, <2>3 DEF new
<1> QED BY <1>3, <1>4

\* An evaluation moves the last detection at most to the time of its signal,
\* and shows nothing active that was not, unless it detects something.
LEMMA LiveKeyStep ==
  ASSUME QuietInv, NEW j \in DOMAIN jobs, NEW rule \in LiveRules, NEW points
  PROVE  LET key == <<rule, "live">>
             new == EpisodesAfter(Meaning(signals[j], key, points), key)
         IN /\ \A i \in DOMAIN new : \E n \in LiveReceipts : new[i].last <= signals[n].at
            /\ health[rule] \notin Bad =>
                  \A i \in Open(new) : /\ i \in Open(episodes[key]) /\ (new[i].active => episodes[key][i].active)
                                       /\ j \in LiveReceipts /\ Decisive(j) => ~ new[i].active
<1> DEFINE key  == <<rule, "live">>
           list == episodes[key]
           s    == signals[j]
           m    == Meaning(s, key, points)
           new  == EpisodesAfter(m, key)
<1>1. s \in Signals /\ j \in DOMAIN signals /\ \A n \in DOMAIN signals : signals[n] \in Signals
  BY DEF QuietInv, AlertInv, AlertTypeOK
<1>2. \A k \in Keys : episodes[k] \in Seq(Episode) /\ Open(episodes[k]) \subseteq {Len(episodes[k])}
  BY DEF QuietInv, AlertInv, AlertTypeOK, EpisodesAreSound, OneOpenEpisode
<1>3. \A i \in DOMAIN list : \E n \in LiveReceipts : list[i].last <= signals[n].at
  BY DEF QuietInv, DetectedAtReceipts
<1>4. \/ m = Nothing /\ ~ (s.kind = "receipt" /\ s.disposition \in LiveDispositions)
      \/ m = Clear(s.at) /\ s.disposition \in LiveDispositions /\ health[rule] \notin Bad
      \/ \E severity \in Severities : m = Sample(s.at, severity) /\ s.disposition \in LiveDispositions /\ health[rule] \in Bad
  BY <1>1, LiveKeyMeaning
<1>5. /\ s.disposition \in LiveDispositions <=> j \in LiveReceipts
      /\ j \in LiveReceipts => s.kind = "receipt"
      /\ LiveReceipts \subseteq DOMAIN signals
  BY <1>1 DEF LiveReceipts, QuietInv, LiveAreReceipts
<1>6. s.at \in Nat /\ \A n \in LiveReceipts : signals[n].at \in Nat
  <2>1. \A x \in Signals : x.at \in Nat
    BY DEF Signals
  <2> QED BY <1>1, <1>5, <2>1
<1>7. /\ ~ Happens(m, key) /\ m.does # "clear" => new = list
      /\ ~ Happens(m, key) /\ m.does = "clear" => new = Recovered(list, m.at)
      /\ Happens(m, key) => new = Detected(list, m.at, m.severity)
  BY DEF EpisodesAfter
<1>8. key \in Keys
  BY DEF Keys
<1> HIDE DEF s, m, new, key
<1>9. list \in Seq(Episode) /\ Open(list) \subseteq {Len(list)}
  BY <1>2, <1>8
<1>10. \A i \in DOMAIN list : list[i].last \in Nat
  <2>1. \A e \in Episode : e.last \in Nat
    BY DEF Episode
  <2> QED BY <1>9, <2>1
<1> HIDE DEF list
<1> DEFINE Goal == /\ \A i \in DOMAIN new : \E n \in LiveReceipts : new[i].last <= signals[n].at
                   /\ health[rule] \notin Bad =>
                         \A i \in Open(new) : /\ i \in Open(list) /\ (new[i].active => list[i].active)
                                              /\ j \in LiveReceipts /\ Decisive(j) => ~ new[i].active
<1> SUFFICES Goal
  BY DEF list, key, s, m, new
<1>11. CASE m = Nothing /\ ~ (s.kind = "receipt" /\ s.disposition \in LiveDispositions)
  <2>1. new = list /\ j \notin LiveReceipts
    BY <1>5, <1>7, <1>11 DEF Nothing, Happens
  <2> QED BY <1>3, <2>1 DEF list
<1>12. CASE m = Clear(s.at) /\ s.disposition \in LiveDispositions /\ health[rule] \notin Bad
  <2>1. new = Recovered(list, s.at)
    BY <1>7, <1>12 DEF Clear, Happens
  <2>2. /\ DOMAIN new = DOMAIN list /\ Open(new) = Open(list)
        /\ \A i \in DOMAIN list : new[i].last = list[i].last /\ (new[i].active => list[i].active)
        /\ \A i \in Open(list) : list[i].last <= s.at => ~ new[i].active
    BY <1>6, <1>9, <2>1, RecoveredQuiet
  <2>3. Open(list) \subseteq DOMAIN list
    BY DEF Open
  <2>4. Decisive(j) => \A i \in DOMAIN list : list[i].last <= s.at
    <3>1. Decisive(j) => \A n \in LiveReceipts : signals[n].at <= s.at
      BY DEF Decisive, s
    <3>2. \A i \in DOMAIN list : \E n \in LiveReceipts : list[i].last <= signals[n].at
      BY <1>3 DEF list
    <3> QED BY <1>6, <1>10, <3>1, <3>2
  <2>5. \A i \in DOMAIN new : \E n \in LiveReceipts : new[i].last <= signals[n].at
    BY <1>3, <2>2 DEF list
  <2> QED BY <2>2, <2>3, <2>4, <2>5
<1>13. CASE \E severity \in Severities : m = Sample(s.at, severity) /\ s.disposition \in LiveDispositions /\ health[rule] \in Bad
  <2>1. PICK severity \in Severities : m = Sample(s.at, severity)
    BY <1>13
  <2>2. m.does = "sample" /\ m.at = s.at /\ m.severity = severity
    BY <2>1 DEF Sample
  <2>3. CASE ~ Happens(m, key)
    <3>1. new = list
      BY <1>7, <2>2, <2>3
    <3> QED BY <1>3, <1>13, <3>1 DEF list
  <2>4. CASE Happens(m, key)
    <3>1. new = Detected(list, s.at, severity)
      BY <1>7, <2>2, <2>4
    <3>2. \A i \in DOMAIN new : new[i].last = s.at \/ (i \in DOMAIN list /\ new[i].last = list[i].last)
      BY <1>6, <1>9, <3>1, DetectedLast
    <3>3. j \in LiveReceipts /\ s.at <= signals[j].at
      BY <1>5, <1>6, <1>13 DEF s
    <3>4. \A i \in DOMAIN new : \E n \in LiveReceipts : new[i].last <= signals[n].at
      BY <1>3, <3>2, <3>3 DEF list
    <3> QED BY <1>13, <3>4
  <2> QED BY <2>3, <2>4
<1> QED BY <1>4, <1>11, <1>12, <1>13

LEMMA QuietJob == ASSUME QuietInv, AlertInv', NEW j \in DOMAIN jobs, JobCompletes(j) PROVE QuietInv'
<1>1. PICK points \in [stop : {"unclear", "stopped", "moved"}, fast : BOOLEAN] :
        LET m == [k \in Keys |-> Meaning(signals[j], k, points)]
        IN episodes' = [k \in Keys |-> EpisodesAfter(m[k], k)]
  BY DEF JobCompletes
<1>2. jobs' = [jobs EXCEPT ![j] = "completed"] /\ UNCHANGED <<signals, health>>
  BY DEF JobCompletes
<1>3. \A rule \in LiveRules : <<rule, "live">> \in Keys
  BY DEF Keys
<1>4. \A rule \in LiveRules :
         episodes'[<<rule, "live">>] = EpisodesAfter(Meaning(signals[j], <<rule, "live">>, points), <<rule, "live">>)
  BY <1>1, <1>3
<1>5. ASSUME NEW rule \in LiveRules
      PROVE  LET new == episodes'[<<rule, "live">>]
             IN /\ \A i \in DOMAIN new : \E n \in LiveReceipts : new[i].last <= signals[n].at
                /\ health[rule] \notin Bad =>
                      \A i \in Open(new) :
                         /\ i \in Open(episodes[<<rule, "live">>])
                         /\ new[i].active => episodes[<<rule, "live">>][i].active
                         /\ j \in LiveReceipts /\ Decisive(j) => ~ new[i].active
  <2> DEFINE key == <<rule, "live">>
             s   == signals[j]
             m   == Meaning(s, key, points)
             new == EpisodesAfter(m, key)
  <2>1. episodes'[key] = new
    BY <1>4
  <2>2. /\ \A i \in DOMAIN new : \E n \in LiveReceipts : new[i].last <= signals[n].at
        /\ health[rule] \notin Bad =>
              \A i \in Open(new) : /\ i \in Open(episodes[key]) /\ (new[i].active => episodes[key][i].active)
                                   /\ j \in LiveReceipts /\ Decisive(j) => ~ new[i].active
    BY LiveKeyStep
  <2> HIDE DEF new
  <2> QED BY <2>1, <2>2
<1>6. LiveReceipts' = LiveReceipts /\ \A n : Decisive(n)' <=> Decisive(n)
  BY <1>2 DEF LiveReceipts, Decisive
<1>7. LiveAreReceipts' /\ DetectedAtReceipts'
  BY <1>2, <1>5, <1>6 DEF QuietInv, LiveAreReceipts, DetectedAtReceipts
<1>8. ASSUME NEW n \in LiveReceipts, jobs'[n] = "completed", Decisive(n), NEW rule \in LiveRules, health[rule] \notin Bad,
             NEW i \in Open(episodes'[<<rule, "live">>])
      PROVE  ~ episodes'[<<rule, "live">>][i].active
  <2>1. CASE n = j
    BY <1>5, <1>8, <2>1
  <2>2. CASE n # j
    <3>1. jobs[n] = "completed"
      BY <1>2, <1>8, <2>2 DEF QuietInv, AlertInv, AlertTypeOK, LiveReceipts
    <3>2. i \in Open(episodes[<<rule, "live">>]) /\ ~ episodes[<<rule, "live">>][i].active
      BY <1>5, <1>8, <3>1 DEF QuietInv, QuietAfterDecisive
    <3> QED BY <1>5, <1>8, <3>2
  <2> QED BY <2>1, <2>2
<1>9. QuietAfterDecisive'
  BY <1>2, <1>6, <1>8 DEF QuietAfterDecisive, Open
<1> QED BY <1>7, <1>9 DEF QuietInv

LEMMA QuietTransition ==
  ASSUME QuietInv, AlertInv', NEW key \in Keys, NEW i \in DOMAIN episodes[key], NEW to, TransitionAlert(key, i, to)
  PROVE  QuietInv'
<1>0. /\ May(episodes[key][i].status, to) /\ episodes' = [episodes EXCEPT ![key][i].status = to]
      /\ UNCHANGED <<signals, jobs, health>>
  BY DEF TransitionAlert
<1>1. episodes \in [Keys -> Seq(Episode)] /\ episodes[key] \in Seq(Episode) /\ episodes[key][i] \in Episode
  BY DEF QuietInv, AlertInv, AlertTypeOK
<1>2. episodes[key][i].status \notin Terminal
  BY <1>0 DEF May, Terminal
<1> DEFINE f == [episodes[key][i] EXCEPT !.status = to]
<1>3. f.active = episodes[key][i].active /\ f.last = episodes[key][i].last
  BY <1>1 DEF Episode
<1>4. /\ DOMAIN episodes'[key] = DOMAIN episodes[key] /\ episodes'[key][i] = f
      /\ \A j \in DOMAIN episodes[key] : j # i => episodes'[key][j] = episodes[key][j]
      /\ \A k \in Keys : k # key => episodes'[k] = episodes[k]
  BY <1>0, <1>1
<1> HIDE DEF f
<1>5. \A k \in Keys : /\ DOMAIN episodes'[k] = DOMAIN episodes[k] /\ Open(episodes'[k]) \subseteq Open(episodes[k])
                      /\ \A j \in DOMAIN episodes[k] : /\ episodes'[k][j].last = episodes[k][j].last
                                                      /\ episodes'[k][j].active = episodes[k][j].active
  <2>1. Open(episodes'[key]) \subseteq Open(episodes[key])
    BY <1>2, <1>4 DEF Open
  <2>2. \A j \in DOMAIN episodes[key] : /\ episodes'[key][j].last = episodes[key][j].last
                                       /\ episodes'[key][j].active = episodes[key][j].active
    BY <1>3, <1>4
  <2> QED BY <1>4, <2>1, <2>2
<1>6. \A rule \in LiveRules : <<rule, "live">> \in Keys
  BY DEF Keys
<1>7. LiveReceipts' = LiveReceipts /\ \A n : Decisive(n)' <=> Decisive(n)
  BY <1>0 DEF LiveReceipts, Decisive
<1>8. LiveAreReceipts' /\ DetectedAtReceipts'
  BY <1>0, <1>5, <1>6, <1>7 DEF QuietInv, LiveAreReceipts, DetectedAtReceipts
<1>9. ASSUME NEW n \in LiveReceipts, jobs[n] = "completed", Decisive(n), NEW rule \in LiveRules, health[rule] \notin Bad,
             NEW j \in Open(episodes'[<<rule, "live">>])
      PROVE  ~ episodes'[<<rule, "live">>][j].active
  <2>1. j \in Open(episodes[<<rule, "live">>]) /\ j \in DOMAIN episodes[<<rule, "live">>]
    BY <1>5, <1>6, <1>9 DEF Open
  <2>2. ~ episodes[<<rule, "live">>][j].active
    BY <1>9, <2>1 DEF QuietInv, QuietAfterDecisive
  <2> QED BY <1>5, <1>6, <2>1, <2>2
<1>10. QuietAfterDecisive'
  BY <1>0, <1>7, <1>9 DEF QuietAfterDecisive, Open
<1> QED BY <1>8, <1>10 DEF QuietInv

LEMMA QuietStep == QuietInv /\ [AlertNext]_alertVars => QuietInv'
<1> SUFFICES ASSUME QuietInv, [AlertNext]_alertVars PROVE QuietInv'
  OBVIOUS
<1>0. AlertInv'
  BY AlertStep DEF QuietInv
<1>1. signals \in Seq(Signals) /\ jobs \in Seq({"pending", "completed", "failed"}) /\ Len(jobs) = Len(signals)
  BY DEF QuietInv, AlertInv, AlertTypeOK
<1>2. CASE UNCHANGED <<episodes, health, signals, jobs>>
  BY <1>0, <1>1, <1>2, QuietKept
<1>3. CASE MinutePasses \/ WorkStarts \/ WorkEnds \/ UNCHANGED alertVars
  BY <1>2, <1>3 DEF MinutePasses, WorkStarts, WorkEnds, alertVars
<1>4. CASE HealthSweep
  BY <1>0, <1>4, QuietSweep
<1>5. CASE \E r \in Receipts, at \in 0..LastMinute : ReceiptCommits(r, at)
  BY <1>0, <1>5, QuietReceipt
<1>6. ASSUME NEW j \in DOMAIN jobs, JobCompletes(j) PROVE QuietInv'
  BY <1>0, <1>6, QuietJob
<1>7. ASSUME NEW j \in DOMAIN jobs, JobFails(j) PROVE QuietInv'
  <2>1. jobs' = [jobs EXCEPT ![j] = "failed"] /\ UNCHANGED <<episodes, health, signals>>
    BY <1>7 DEF JobFails
  <2>2. \A n \in DOMAIN signals : jobs'[n] = "completed" => jobs[n] = "completed"
    BY <1>1, <2>1
  <2> QED BY <1>0, <1>1, <2>1, <2>2, QuietKept
<1>8. ASSUME NEW key \in Keys, NEW i \in DOMAIN episodes[key], NEW to \in Decisions, TransitionAlert(key, i, to)
      PROVE  QuietInv'
  BY <1>0, <1>8, QuietTransition
<1> QED BY <1>3, <1>4, <1>5, <1>6, <1>7, <1>8 DEF AlertNext

\* However receipts and jobs overtake each other, once all have run and the
\* newest evidence is also the latest, an open alert about health is active
\* only if the device still reports it (m22_evaluate_signal reads the health
\* of now, m22_clear_rule_condition takes only what is as late as the alert).
THEOREM QuietIsAlwaysTrue == AlertSpec => []QuietMeansTrue
<1>1. QuietInv => QuietMeansTrue
  <2> SUFFICES ASSUME QuietInv, NEW n \in LiveReceipts, \A i \in DOMAIN jobs : jobs[i] = "completed",
                      \A i \in LiveReceipts : i <= n /\ signals[i].at <= signals[n].at,
                      NEW rule \in LiveRules, NEW i \in Open(episodes[<<rule, "live">>]),
                      episodes[<<rule, "live">>][i].active
               PROVE  health[rule] \in Bad
    BY DEF QuietMeansTrue
  <2>1. n \in DOMAIN jobs
    BY DEF QuietInv, AlertInv, AlertTypeOK, LiveReceipts
  <2> QED BY <2>1 DEF QuietInv, QuietAfterDecisive, Decisive
<1> QED BY <1>1, InitiallyQuiet, QuietStep, PTL DEF AlertSpec

(***************************************************************************)
(* The adapter, for whatever a device sends.                               *)
(***************************************************************************)

\* Whatever JSON the sample's event is, not only those of the run: once let
\* through it is stored exactly if PostgreSQL has values for its instant and its
\* texts, a retry of it is the same event, and the others it is compared with
\* are told apart.
THEOREM AdapterEventsAlwaysStorable ==
    ASSUME sample.kind = "event" => Adapter!Json(sample.event)
    PROVE  AdapterEventsAreStorable
<1> SUFFICES ASSUME sample.kind = "event"
             PROVE  /\ Adapter!Storable(sample.event, Device, 6)
                    /\ Adapter!RetryIsTheSame(sample.event, Device, 6, 9)
                    /\ \A change \in SensorChanges \cup Streams :
                           Adapter!IdentitiesTellApart(sample.event, Vendor(change @@ Unnamed), Device)
  BY Zenon DEF AdapterEventsAreStorable
<1>1. Adapter!Storable(sample.event, Device, 6)
  <2>1. 6 \in Nat
    OBVIOUS
  <2> QED
    BY <2>1, Adapter!LetThroughIsStorable, Zenon
<1>2. Adapter!RetryIsTheSame(sample.event, Device, 6, 9)
  <2>1. 6 \in Nat /\ 9 \in Nat
    OBVIOUS
  <2> QED
    BY <2>1, Adapter!RetryAlwaysTheSame, Zenon
<1>3. \A change \in SensorChanges \cup Streams :
          Adapter!IdentitiesTellApart(sample.event, Vendor(change @@ Unnamed), Device)
  BY Adapter!IdentitiesAlwaysTellApart, Zenon
<1> QED
  BY <1>1, <1>2, <1>3
=============================================================================
