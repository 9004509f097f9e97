----------------------- MODULE PhoneLocationSyncProofs -----------------------
(***************************************************************************)
(* Theorems about PhoneLocationSync, for every number of points, sessions, *)
(* retries and failures and every batch size.                              *)
(***************************************************************************)
EXTENDS PhoneLocationSync, FiniteSetTheorems, TLAPS

--------------------------------------------------------------------------------
\* The inductive invariant.

\* What the database or a request knows of has been captured, so that capturing
\* a fresh point never relabels a stored one.
OnlyCaptured ==
    /\ \A p \in stored \cup sync.batch : owner[p] # 0
    /\ capture.pc # "idle" => owner[capture.point] # 0
    /\ \A m \in late : owner[m[2]] # 0
    /\ view.day # "none" => view.session # 0

\* Work that has ended does not run again, and only then is a point late.
EndIsFinal ==
    /\ ended => day \in {"completed", "issue_reported"}
    /\ \A p \in Point : taken[p] = "after_end" => ended

\* The phone acknowledges what the database has.
AcknowledgedIsStored == sync.pc = "remove" => sync.accepted \subseteq stored

SyncInv ==
    /\ TypeOK /\ OnlyCaptured /\ EndIsFinal
    /\ AcknowledgedIsStored /\ CountMatchesStored /\ NothingAfterEnd

--------------------------------------------------------------------------------
\* Counting.

\* The points of one session among the stored ones are finitely many.
LEMMA StoredFinite ==
    ASSUME NEW S \in SUBSET Point
    PROVE  /\ IsFiniteSet(S) /\ Cardinality(S) \in Nat
           /\ Cardinality(S) <= Cardinality(Point) /\ Cardinality(Point) \in Nat
<1>1. IsFiniteSet(Point)
    BY FS_Interval, PointAssumption DEF Point
<1> QED
    BY <1>1, FS_Subset, FS_CardinalityType

\* Storing points, some of them again, keeps the counters equal to the rows.
LEMMA StoreCounts ==
    ASSUME TypeOK, CountMatchesStored, NEW ps \in SUBSET Point, Store(ps), owner' = owner
    PROVE  /\ stored' = stored \cup ps /\ stored' \subseteq Point
           /\ count' \in [1 .. MaxSession -> 0 .. Cardinality(Point)]
           /\ CountMatchesStored'
<1> DEFINE Of(S, s) == {p \in S : owner[p] = s}
<1>1. stored' = stored \cup ps /\ stored' \subseteq Point /\ stored \subseteq Point
    BY DEF Store, TypeOK
<1>2. ASSUME NEW s \in 1 .. MaxSession
      PROVE  count'[s] = Cardinality(Of(stored', s))
  <2>1. /\ IsFiniteSet(Of(stored, s)) /\ Cardinality(Of(stored, s)) \in Nat
        /\ IsFiniteSet(Of(ps \ stored, s)) /\ Cardinality(Of(ps \ stored, s)) \in Nat
    BY <1>1, StoredFinite
  <2>2. Of(stored, s) \cap Of(ps \ stored, s) = {}
    OBVIOUS
  <2>3. Of(stored', s) = Of(stored, s) \cup Of(ps \ stored, s)
    BY <1>1
  <2>4. Cardinality(Of(stored', s)) =
           Cardinality(Of(stored, s)) + Cardinality(Of(ps \ stored, s))
    <3>1. Cardinality(Of(stored, s) \cap Of(ps \ stored, s)) = 0
      BY <2>2, FS_EmptySet
    <3> HIDE DEF Of
    <3>2. Cardinality(Of(stored, s) \cup Of(ps \ stored, s)) =
             Cardinality(Of(stored, s)) + Cardinality(Of(ps \ stored, s))
               - Cardinality(Of(stored, s) \cap Of(ps \ stored, s))
      BY <2>1, FS_Union
    <3> QED
      BY <2>1, <2>3, <3>1, <3>2
  <2>5. count[s] = Cardinality(Of(stored, s))
    BY DEF CountMatchesStored
  <2>6. count'[s] = count[s] + Cardinality(Of(ps \ stored, s))
    BY DEF Store
  <2> QED
    BY <2>4, <2>5, <2>6
<1>3. CountMatchesStored'
    BY <1>2 DEF CountMatchesStored
<1>4. ASSUME NEW s \in 1 .. MaxSession PROVE count'[s] \in 0 .. Cardinality(Point)
  <2>1. Of(stored', s) \in SUBSET Point /\ count'[s] = Cardinality(Of(stored', s))
    BY <1>1, <1>2
  <2> HIDE DEF Of
  <2> QED
    BY <2>1, StoredFinite
<1>5. count' = [s \in 1 .. MaxSession |-> count'[s]]
    BY DEF Store
<1>6. count' \in [1 .. MaxSession -> 0 .. Cardinality(Point)]
    BY <1>4, <1>5, Zenon
<1> QED
    BY <1>1, <1>3, <1>6

--------------------------------------------------------------------------------
LEMMA InitSync == Init => SyncInv
<1> SUFFICES ASSUME Init PROVE SyncInv
    OBVIOUS
<1>1. TypeOK
  <2>1. count \in [1 .. MaxSession -> 0 .. Cardinality(Point)]
    BY StoredFinite DEF Init
  <2>2. [p \in Point |-> Absent] \in Buffers
    BY RetryAssumption DEF Buffers, Absent
  <2>3. capture = NoCapture /\ sync = NoSync /\ buffer \in Buffers
    BY <2>2 DEF Init
  <2>4. view \in Views /\ 1 \in 1 .. MaxSession /\ 0 \in 0 .. MaxFailures
    BY BoundAssumption DEF Init, Views, DayStatus, SessionStatus
  <2>5. /\ owner \in [Point -> 0 .. MaxSession]
        /\ taken \in [Point -> DayStatus \cup {"after_end", "unused"}]
    BY BoundAssumption DEF Init
  <2> HIDE DEF Buffers
  <2>6. capture \in [pc : {"idle", "sent", "save"}, point : Point \cup {NoPoint},
                     snap : Buffers, current : BOOLEAN]
    BY <2>2, <2>3 DEF NoCapture
  <2>7. sync \in [pc : {"idle", "sent", "remove", "recheck", "mark"}, batch : SUBSET Point,
                  accepted : SUBSET Point, snap : Buffers, current : BOOLEAN]
    BY <2>2, <2>3 DEF NoSync
  <2>8. /\ day \in DayStatus /\ ended \in BOOLEAN /\ released \in BOOLEAN
        /\ session \in 1 .. MaxSession /\ status \in SessionStatus
        /\ stored \subseteq Point /\ capture.pc = "idle"
        /\ late \subseteq {"record", "sync"} \X Point /\ failures \in 0 .. MaxFailures
        /\ action \in WorkAction \cup {"none"}
    BY <2>4 DEF Init, DayStatus, SessionStatus, NoCapture
  <2> QED
    BY <2>1, <2>3, <2>4, <2>5, <2>6, <2>7, <2>8 DEF TypeOK
<1>2. CountMatchesStored
  <2>1. \A s \in 1 .. MaxSession : {p \in stored : owner[p] = s} = {}
    BY DEF Init
  <2> QED
    BY <2>1, FS_EmptySet DEF Init, CountMatchesStored
<1> QED
    BY <1>1, <1>2 DEF Init, SyncInv, OnlyCaptured, EndIsFinal, AcknowledgedIsStored,
                      NothingAfterEnd, NoCapture, NoSync

--------------------------------------------------------------------------------
\* Steps that leave the stored points, their owners and their times alone.

Untouched == UNCHANGED <<stored, count, owner, taken>>

LEMMA UntouchedKeeps ==
    ASSUME SyncInv, Untouched
    PROVE  CountMatchesStored' /\ NothingAfterEnd'
BY DEF SyncInv, Untouched, CountMatchesStored, NothingAfterEnd

\* Cancelling the work in flight touches nothing but the flags.
LEMMA GenerationTyped ==
    ASSUME SyncInv, NextGeneration
    PROVE  /\ capture' \in [pc : {"idle", "sent", "save"}, point : Point \cup {NoPoint},
                             snap : Buffers, current : BOOLEAN]
           /\ sync' \in [pc : {"idle", "sent", "remove", "recheck", "mark"},
                          batch : SUBSET Point, accepted : SUBSET Point,
                          snap : Buffers, current : BOOLEAN]
           /\ capture'.pc = capture.pc /\ capture'.point = capture.point
           /\ sync'.pc = sync.pc /\ sync'.batch = sync.batch
           /\ sync'.accepted = sync.accepted
BY DEF SyncInv, TypeOK, NextGeneration, Cancelled

\* Showing the work row: the jobs keep their places.
LEMMA ShowTyped ==
    ASSUME SyncInv, NEW v \in Views, Show(v)
    PROVE  /\ view' = v
           /\ capture' \in [pc : {"idle", "sent", "save"}, point : Point \cup {NoPoint},
                             snap : Buffers, current : BOOLEAN]
           /\ sync' \in [pc : {"idle", "sent", "remove", "recheck", "mark"},
                          batch : SUBSET Point, accepted : SUBSET Point,
                          snap : Buffers, current : BOOLEAN]
           /\ capture'.pc = capture.pc /\ capture'.point = capture.point
           /\ sync'.pc = sync.pc /\ sync'.batch = sync.batch
           /\ sync'.accepted = sync.accepted
BY GenerationTyped DEF Show, SyncInv, TypeOK

LEMMA LoadedView ==
    ASSUME SyncInv
    PROVE  Loaded \in Views /\ (Loaded.day # "none" => Loaded.session # 0)
BY BoundAssumption DEF SyncInv, TypeOK, Loaded, Views, NoWork, DayStatus, SessionStatus

LEMMA EmptyBuffer == [p \in Point |-> Absent] \in Buffers
BY RetryAssumption DEF Buffers, Absent

--------------------------------------------------------------------------------
\* Capture.

LEMMA CaptureKeeps ==
    ASSUME SyncInv, NEW p \in Point, NEW out, Capture(p, out)
    PROVE  SyncInv'
<1> USE DEF Capture, SyncInv
<1>1. view.session # 0 /\ view.session \in 1 .. MaxSession /\ owner[p] = 0
    BY DEF CanCapture, Active, OnlyCaptured, TypeOK, Views
<1>2. p \notin stored /\ p \notin sync.batch
    BY <1>1 DEF OnlyCaptured
<1>3. TypeOK'
  <2>1. capture' \in [pc : {"idle", "sent", "save"}, point : Point \cup {NoPoint},
                      snap : Buffers, current : BOOLEAN]
    BY EmptyBuffer DEF NoCapture
  <2>2. /\ owner' \in [Point -> 0 .. MaxSession]
        /\ taken' \in [Point -> DayStatus \cup {"after_end", "unused"}]
    BY <1>1 DEF TypeOK
  <2> QED
    BY <2>1, <2>2 DEF TypeOK, server, NoCapture
<1>4. OnlyCaptured'
    BY <1>1 DEF OnlyCaptured, TypeOK, server, NoCapture
<1>5. EndIsFinal' /\ AcknowledgedIsStored'
    BY DEF EndIsFinal, AcknowledgedIsStored, TypeOK, DayStatus, server
<1>6. CountMatchesStored'
  <2>1. \A s \in 1 .. MaxSession :
           {q \in stored' : owner'[q] = s} = {q \in stored : owner[q] = s}
    BY <1>2 DEF TypeOK, server
  <2> QED
    BY <2>1 DEF CountMatchesStored, server
<1>7. NothingAfterEnd'
    BY <1>2 DEF NothingAfterEnd, TypeOK, server
<1> QED
    BY <1>3, <1>4, <1>5, <1>6, <1>7

LEMMA StopCaptureKeeps == ASSUME SyncInv, StopCapture PROVE SyncInv'
<1> USE DEF StopCapture, SyncInv, server, captures
<1>1. TypeOK'
    BY GenerationTyped, LoadedView DEF TypeOK
<1>2. OnlyCaptured'
    BY GenerationTyped, LoadedView DEF OnlyCaptured
<1>3. EndIsFinal' /\ AcknowledgedIsStored'
    BY GenerationTyped DEF EndIsFinal, AcknowledgedIsStored
<1> QED
    BY <1>1, <1>2, <1>3, UntouchedKeeps DEF Untouched

LEMMA SavePointKeeps == ASSUME SyncInv, SavePoint PROVE SyncInv'
<1> USE DEF SavePoint, SyncInv, server, captures
<1>1. buffer' \in Buffers
    BY RetryAssumption DEF TypeOK, Buffers, Absent
<1>2. TypeOK'
    BY <1>1, EmptyBuffer DEF TypeOK, NoCapture
<1>3. OnlyCaptured' /\ EndIsFinal' /\ AcknowledgedIsStored'
    BY DEF OnlyCaptured, EndIsFinal, AcknowledgedIsStored, NoCapture
<1> QED
    BY <1>2, <1>3, UntouchedKeeps DEF Untouched

\* What the database accepts was not captured after the end.
LEMMA RecordBeforeEnd ==
    ASSUME SyncInv, NEW p \in Point, RecordAccepts(p)
    PROVE  taken[p] # "after_end"
BY DEF SyncInv, EndIsFinal, RecordAccepts

LEMMA SyncBeforeEnd ==
    ASSUME SyncInv, NEW p \in Point, SyncAccepts(p)
    PROVE  taken[p] # "after_end"
BY DEF SyncInv, EndIsFinal, SyncAccepts

\* Storing captured points of the right time keeps what concerns the database.
LEMMA StoreKeeps ==
    ASSUME SyncInv, NEW ps \in SUBSET Point, Store(ps), UNCHANGED <<owner, taken>>,
           \A p \in ps : owner[p] # 0 /\ taken[p] # "after_end"
    PROVE  /\ stored' \subseteq Point /\ stored \subseteq stored' /\ ps \subseteq stored'
           /\ count' \in [1 .. MaxSession -> 0 .. Cardinality(Point)]
           /\ CountMatchesStored' /\ NothingAfterEnd'
           /\ \A p \in stored' : owner[p] # 0
<1>1. /\ stored' = stored \cup ps /\ stored' \subseteq Point /\ CountMatchesStored'
      /\ count' \in [1 .. MaxSession -> 0 .. Cardinality(Point)]
    BY StoreCounts DEF SyncInv
<1> QED
    BY <1>1 DEF SyncInv, NothingAfterEnd, OnlyCaptured

LEMMA SendPointKeeps == ASSUME SyncInv, NEW out, SendPoint(out) PROVE SyncInv'
<1> DEFINE p == capture.point
<1> USE DEF SendPoint, SyncInv, server, captures
<1>1. p \in Point /\ owner[p] # 0
    BY DEF TypeOK, OnlyCaptured
<1>2. /\ stored' \subseteq Point /\ stored \subseteq stored'
      /\ count' \in [1 .. MaxSession -> 0 .. Cardinality(Point)]
      /\ CountMatchesStored' /\ NothingAfterEnd'
      /\ \A q \in stored' : owner[q] # 0
      /\ UNCHANGED <<day, ended, released, session, status>>
  <2>1. CASE out # "late" /\ RecordAccepts(p)
    <3>1. Store({p}) /\ UNCHANGED <<day, ended, released, session, status>>
      BY <2>1
    <3>2. \A q \in {p} : owner[q] # 0 /\ taken[q] # "after_end"
      BY <1>1, <2>1, RecordBeforeEnd
    <3> QED
      BY <1>1, <3>1, <3>2, StoreKeeps
  <2>2. CASE ~(out # "late" /\ RecordAccepts(p))
    <3>1. UNCHANGED <<day, ended, released, session, status, stored, count>>
      BY <2>2
    <3> QED
      BY <3>1, UntouchedKeeps DEF Untouched, TypeOK, OnlyCaptured
  <2> QED
    BY <2>1, <2>2
<1>3. /\ capture' \in [pc : {"idle", "sent", "save"}, point : Point \cup {NoPoint},
                        snap : Buffers, current : BOOLEAN]
      /\ capture'.pc # "idle" => capture'.point = p
  <2>1. CASE capture' = NoCapture
    BY <2>1, EmptyBuffer DEF NoCapture
  <2>2. CASE capture' = [capture EXCEPT !.pc = "save", !.snap = buffer]
    BY <2>2 DEF TypeOK
  <2> QED
    BY <2>1, <2>2
<1>4. /\ view' \in Views /\ view'.day = view.day /\ view'.session = view.session
      /\ failures' \in 0 .. MaxFailures
      /\ late' \subseteq late \cup {<<"record", p>>}
  <2>1. view' = view \/ view' = [view EXCEPT !.status = "stopped"]
    OBVIOUS
  <2>2. failures' \in 0 .. MaxFailures
    BY BoundAssumption DEF Network, TypeOK
  <2>3. late' \subseteq late \cup {<<"record", p>>}
    OBVIOUS
  <2> QED
    BY <2>1, <2>2, <2>3 DEF TypeOK, Views, SessionStatus
<1>5. TypeOK'
    BY <1>1, <1>2, <1>3, <1>4 DEF TypeOK
<1>6. OnlyCaptured'
    BY <1>1, <1>2, <1>3, <1>4 DEF OnlyCaptured
<1>7. EndIsFinal' /\ AcknowledgedIsStored'
    BY <1>2 DEF EndIsFinal, AcknowledgedIsStored
<1> QED
    BY <1>2, <1>5, <1>6, <1>7

--------------------------------------------------------------------------------
\* Sync.

LEMMA StartSyncKeeps == ASSUME SyncInv, NEW force, StartSync(force) PROVE SyncInv'
<1> USE DEF StartSync, SyncInv, server, captures
<1>1. PICK b \in Selections(force) :
         sync' = [NoSync EXCEPT !.pc = "sent", !.batch = b, !.current = TRUE]
    OBVIOUS
<1>2. b \subseteq Point /\ \A p \in b : owner[p] # 0
    BY <1>1 DEF Selections, Eligible, Buffered
<1>3. TypeOK'
    BY <1>1, <1>2, EmptyBuffer DEF TypeOK, NoSync
<1>4. OnlyCaptured'
    BY <1>1, <1>2 DEF OnlyCaptured, NoSync
<1>5. EndIsFinal' /\ AcknowledgedIsStored'
    BY <1>1 DEF EndIsFinal, AcknowledgedIsStored, NoSync
<1> QED
    BY <1>3, <1>4, <1>5, UntouchedKeeps DEF Untouched

LEMMA SendBatchKeeps == ASSUME SyncInv, NEW out, SendBatch(out) PROVE SyncInv'
<1> DEFINE acc == IF SyncAuthorised /\ out # "late"
                  THEN {p \in sync.batch : SyncAccepts(p)} ELSE {}
<1> USE DEF SendBatch, SyncInv, server, captures
<1>1. /\ acc \subseteq sync.batch /\ acc \in SUBSET Point
      /\ \A p \in acc : owner[p] # 0 /\ taken[p] # "after_end"
    BY SyncBeforeEnd DEF TypeOK, OnlyCaptured
<1>2. /\ stored' \subseteq Point /\ stored \subseteq stored' /\ acc \subseteq stored'
      /\ count' \in [1 .. MaxSession -> 0 .. Cardinality(Point)]
      /\ CountMatchesStored' /\ NothingAfterEnd'
      /\ \A q \in stored' : owner[q] # 0
  <2>1. Store(acc)
    OBVIOUS
  <2> HIDE DEF acc
  <2> QED
    BY <1>1, <2>1, StoreKeeps
<1>3. /\ sync' \in [pc : {"idle", "sent", "remove", "recheck", "mark"},
                     batch : SUBSET Point, accepted : SUBSET Point,
                     snap : Buffers, current : BOOLEAN]
      /\ sync'.batch \subseteq sync.batch
      /\ sync'.pc = "remove" => sync'.accepted = acc
  <2>1. CASE sync' = [sync EXCEPT !.pc = "remove", !.accepted = acc, !.snap = buffer]
    BY <1>1, <2>1 DEF TypeOK
  <2>2. CASE sync' = [sync EXCEPT !.pc = "mark", !.snap = buffer]
    BY <2>2 DEF TypeOK
  <2>3. CASE sync' = NoSync
    <3> HIDE DEF SendBatch, SyncInv
    <3> QED
      BY <2>3, EmptyBuffer DEF NoSync
  <2> QED
    BY <2>1, <2>2, <2>3
<1>4. /\ view' \in Views /\ view'.day = view.day /\ view'.session = view.session
      /\ failures' \in 0 .. MaxFailures
      /\ late' \subseteq late \cup ({"sync"} \X sync.batch)
  <2>1. view' = view \/ view' = [view EXCEPT !.status = "stopped"]
    OBVIOUS
  <2>2. failures' \in 0 .. MaxFailures
    BY BoundAssumption DEF Network, TypeOK
  <2>3. late' \subseteq late \cup ({"sync"} \X sync.batch)
    OBVIOUS
  <2> QED
    BY <2>1, <2>2, <2>3 DEF TypeOK, Views, SessionStatus
<1>5. TypeOK'
    BY <1>2, <1>3, <1>4 DEF TypeOK
<1>6. OnlyCaptured'
    BY <1>2, <1>3, <1>4 DEF OnlyCaptured
<1>7. EndIsFinal' /\ AcknowledgedIsStored'
    BY <1>2, <1>3 DEF EndIsFinal, AcknowledgedIsStored
<1> QED
    BY <1>2, <1>5, <1>6, <1>7

LEMMA RemoveAcceptedKeeps == ASSUME SyncInv, RemoveAccepted PROVE SyncInv'
<1> USE DEF RemoveAccepted, SyncInv, server, captures
<1>1. buffer' \in Buffers
    BY EmptyBuffer DEF TypeOK, AfterRemoval, Buffers
<1>2. TypeOK'
    BY <1>1, EmptyBuffer DEF TypeOK, NoSync
<1>3. OnlyCaptured' /\ EndIsFinal' /\ AcknowledgedIsStored'
    BY DEF OnlyCaptured, EndIsFinal, AcknowledgedIsStored, NoSync, TypeOK
<1> QED
    BY <1>2, <1>3, UntouchedKeeps DEF Untouched

LEMMA RereadBufferKeeps == ASSUME SyncInv, RereadBuffer PROVE SyncInv'
<1> USE DEF RereadBuffer, SyncInv, server, captures
<1>1. TypeOK'
    BY DEF TypeOK
<1>2. OnlyCaptured' /\ EndIsFinal' /\ AcknowledgedIsStored'
    BY DEF OnlyCaptured, EndIsFinal, AcknowledgedIsStored, TypeOK
<1> QED
    BY <1>1, <1>2, UntouchedKeeps DEF Untouched

LEMMA MarkFailedKeeps == ASSUME SyncInv, MarkFailed PROVE SyncInv'
<1> USE DEF MarkFailed, SyncInv, server, captures
<1>1. buffer' \in Buffers
    BY RetryAssumption DEF TypeOK, Buffers, Absent
<1>2. TypeOK'
    BY <1>1, EmptyBuffer DEF TypeOK, NoSync
<1>3. OnlyCaptured' /\ EndIsFinal' /\ AcknowledgedIsStored'
    BY DEF OnlyCaptured, EndIsFinal, AcknowledgedIsStored, NoSync
<1> QED
    BY <1>2, <1>3, UntouchedKeeps DEF Untouched

--------------------------------------------------------------------------------
\* The driver, the app and the admin.

\* The counters of the jobs are all that a generation change can disturb.
LEMMA BeginWorkKeeps == ASSUME SyncInv, NEW a \in WorkAction, BeginWork(a) PROVE SyncInv'
<1> USE DEF BeginWork, SyncInv, server, captures
<1>1. TypeOK'
    BY GenerationTyped DEF TypeOK
<1>2. OnlyCaptured' /\ EndIsFinal' /\ AcknowledgedIsStored'
    BY GenerationTyped DEF OnlyCaptured, EndIsFinal, AcknowledgedIsStored
<1> QED
    BY <1>1, <1>2, UntouchedKeeps DEF Untouched

\* A work action of the driver moves the day as the database allows, and never
\* away from an ended day back to work.
LEMMA ApplyWorkTyped ==
    ASSUME SyncInv, NEW a \in WorkAction, ApplyWork(a)
    PROVE  /\ day' \in DayStatus /\ status' \in SessionStatus /\ ended' \in BOOLEAN
           /\ ended => ended'
           /\ ended' => day' \in {"completed", "issue_reported"}
<1>1. CASE a = "take_break"
    BY <1>1 DEF SyncInv, TypeOK, EndIsFinal, ApplyWork, WorkAllowed, Target, StatusAfter,
                DayStatus, SessionStatus
<1>2. CASE a = "resume"
    BY <1>2 DEF SyncInv, TypeOK, EndIsFinal, ApplyWork, WorkAllowed, Target, StatusAfter,
                DayStatus, SessionStatus
<1>3. CASE a = "end"
    BY <1>3 DEF SyncInv, TypeOK, EndIsFinal, ApplyWork, WorkAllowed, Target, StatusAfter,
                DayStatus, SessionStatus
<1>4. CASE a = "issue"
    BY <1>4 DEF SyncInv, TypeOK, EndIsFinal, ApplyWork, WorkAllowed, Target, StatusAfter,
                DayStatus, SessionStatus
<1> QED
    BY <1>1, <1>2, <1>3, <1>4 DEF WorkAction

LEMMA FinishWorkKeeps ==
    ASSUME SyncInv, NEW out, NEW reloaded, FinishWork(out, reloaded) PROVE SyncInv'
<1> USE DEF SyncInv, captures
<1>1. /\ day' \in DayStatus /\ status' \in SessionStatus /\ ended' \in BOOLEAN
      /\ ended => ended'
      /\ ended' => day' \in {"completed", "issue_reported"}
  <2>1. CASE out = "late"
    BY <2>1 DEF FinishWork, TypeOK, EndIsFinal
  <2>2. CASE out # "late"
    <3>1. action \in WorkAction /\ ApplyWork(action)
      BY <2>2 DEF FinishWork, TypeOK
    <3> HIDE DEF SyncInv
    <3> QED
      BY <3>1, ApplyWorkTyped
  <2> QED
    BY <2>1, <2>2
<1> DEFINE v == IF released THEN [day |-> day', session |-> session, status |-> status']
                ELSE NoWork
<1>2. v \in Views /\ (v.day # "none" => v.session # 0)
    BY <1>1, BoundAssumption DEF TypeOK, Views, NoWork, SessionStatus
<1>3. /\ view' \in Views /\ (view'.day # "none" => view'.session # 0)
      /\ capture' \in [pc : {"idle", "sent", "save"}, point : Point \cup {NoPoint},
                        snap : Buffers, current : BOOLEAN]
      /\ sync' \in [pc : {"idle", "sent", "remove", "recheck", "mark"},
                     batch : SUBSET Point, accepted : SUBSET Point,
                     snap : Buffers, current : BOOLEAN]
      /\ capture'.pc = capture.pc /\ capture'.point = capture.point
      /\ sync'.pc = sync.pc /\ sync'.batch = sync.batch /\ sync'.accepted = sync.accepted
  <2>1. CASE out = "answered" \/ reloaded
    <3>1. Show(v)
      BY <2>1 DEF FinishWork
    <3> HIDE DEF SyncInv, v
    <3> QED
      BY <1>2, <3>1, ShowTyped
  <2>2. CASE ~(out = "answered" \/ reloaded)
    BY <2>2 DEF FinishWork, TypeOK, OnlyCaptured
  <2> QED
    BY <2>1, <2>2
<1>4. failures' \in 0 .. MaxFailures /\ action' \in WorkAction \cup {"none"}
    BY BoundAssumption DEF FinishWork, Network, TypeOK
<1>5. UNCHANGED <<released, session, stored, count, buffer, owner, taken, late>>
    BY DEF FinishWork
<1>6. TypeOK'
    BY <1>1, <1>3, <1>4, <1>5 DEF TypeOK
<1>7. OnlyCaptured'
    BY <1>3, <1>5 DEF OnlyCaptured
<1>8. EndIsFinal' /\ AcknowledgedIsStored'
    BY <1>1, <1>3, <1>5 DEF EndIsFinal, AcknowledgedIsStored
<1> QED
    BY <1>5, <1>6, <1>7, <1>8, UntouchedKeeps DEF Untouched

LEMMA StartProofKeeps == ASSUME SyncInv, NEW out, StartProof(out) PROVE SyncInv'
<1> USE DEF StartProof, SyncInv, captures
<1>1. session' \in 1 .. MaxSession /\ status' \in SessionStatus
  <2>1. session \in 1 .. MaxSession /\ status \in SessionStatus
    BY DEF TypeOK
  <2>2. CASE out = "late"
    BY <2>1, <2>2
  <2>3. CASE out # "late" /\ status = "stopped"
    <3>1. session' = session + 1 /\ session < MaxSession /\ status' = "running"
      BY <2>3
    <3> QED
      BY <2>1, <3>1, BoundAssumption DEF SessionStatus
  <2>4. CASE out # "late" /\ status # "stopped"
    <3>1. session' = session /\ status' = "running"
      BY <2>4
    <3> QED
      BY <2>1, <3>1 DEF SessionStatus
  <2> QED
    BY <2>2, <2>3, <2>4
<1>2. /\ view' \in Views
      /\ view'.day # "none" => view'.session # 0
  <2>1. view \in Views /\ session' \in 0 .. MaxSession /\ session' # 0
    BY <1>1, BoundAssumption DEF TypeOK
  <2>2. CASE view' = view
    BY <2>1, <2>2 DEF OnlyCaptured
  <2>3. CASE view' = [view EXCEPT !.session = session', !.status = "running"]
    <3> HIDE DEF StartProof, SyncInv
    <3> QED
      BY <2>1, <2>3 DEF Views, SessionStatus
  <2> QED
    BY <2>2, <2>3
<1>3. failures' \in 0 .. MaxFailures
    BY BoundAssumption DEF Network, TypeOK
<1>4. TypeOK'
    BY <1>1, <1>2, <1>3, GenerationTyped DEF TypeOK
<1>5. OnlyCaptured' /\ EndIsFinal' /\ AcknowledgedIsStored'
    BY <1>2, GenerationTyped DEF OnlyCaptured, EndIsFinal, AcknowledgedIsStored
<1> QED
    BY <1>4, <1>5, UntouchedKeeps DEF Untouched

LEMMA StopProofKeeps == ASSUME SyncInv, NEW out, StopProof(out) PROVE SyncInv'
<1> USE DEF StopProof, SyncInv, captures
<1>1. /\ view' \in Views /\ view'.day = view.day /\ view'.session = view.session
      /\ status' \in SessionStatus
  <2>1. view' = [view EXCEPT !.status = "stopped"] /\ view \in Views
    BY DEF TypeOK
  <2>2. status' \in SessionStatus
    BY DEF TypeOK, SessionStatus
  <2> QED
    BY <2>1, <2>2 DEF Views, SessionStatus
<1>2. failures' \in 0 .. MaxFailures
    BY BoundAssumption DEF Network, TypeOK
<1>3. TypeOK'
    BY <1>1, <1>2, GenerationTyped DEF TypeOK
<1>4. OnlyCaptured' /\ EndIsFinal' /\ AcknowledgedIsStored'
    BY <1>1, GenerationTyped DEF OnlyCaptured, EndIsFinal, AcknowledgedIsStored
<1> QED
    BY <1>3, <1>4, UntouchedKeeps DEF Untouched

LEMMA OpenWorkKeeps == ASSUME SyncInv, OpenWork PROVE SyncInv'
<1> USE DEF OpenWork, SyncInv, server, captures
<1>1. TypeOK'
    BY ShowTyped, LoadedView DEF TypeOK
<1>2. OnlyCaptured' /\ EndIsFinal' /\ AcknowledgedIsStored'
    BY ShowTyped, LoadedView DEF OnlyCaptured, EndIsFinal, AcknowledgedIsStored
<1> QED
    BY <1>1, <1>2, UntouchedKeeps DEF Untouched

LEMMA RestartKeeps == ASSUME SyncInv, Restart PROVE SyncInv'
<1> USE DEF Restart, SyncInv, server, captures
<1>1. view' \in Views /\ view'.day = "none"
    BY BoundAssumption DEF NoWork, Views, SessionStatus
<1>2. TypeOK'
    BY <1>1, EmptyBuffer, BoundAssumption DEF TypeOK, NoCapture, NoSync
<1>3. OnlyCaptured' /\ EndIsFinal' /\ AcknowledgedIsStored'
    BY <1>1 DEF OnlyCaptured, EndIsFinal, AcknowledgedIsStored, NoCapture, NoSync
<1> QED
    BY <1>2, <1>3, UntouchedKeeps DEF Untouched

LEMMA ArriveKeeps ==
    ASSUME SyncInv, NEW rpc \in {"record", "sync"}, NEW p \in Point, Arrive(rpc, p)
    PROVE  SyncInv'
<1> USE DEF Arrive, SyncInv, phone, captures
<1>1. owner[p] # 0 /\ taken[p] # "after_end"
    BY RecordBeforeEnd, SyncBeforeEnd DEF OnlyCaptured
<1>2. /\ stored' \subseteq Point /\ stored \subseteq stored'
      /\ count' \in [1 .. MaxSession -> 0 .. Cardinality(Point)]
      /\ CountMatchesStored' /\ NothingAfterEnd'
      /\ \A q \in stored' : owner[q] # 0
    BY <1>1, StoreKeeps
<1>3. TypeOK'
    BY <1>2 DEF TypeOK
<1>4. OnlyCaptured'
    BY <1>2 DEF OnlyCaptured
<1>5. EndIsFinal' /\ AcknowledgedIsStored'
    BY <1>2 DEF EndIsFinal, AcknowledgedIsStored
<1> QED
    BY <1>2, <1>3, <1>4, <1>5

LEMMA RevokeKeeps == ASSUME SyncInv, Revoke PROVE SyncInv'
<1> USE DEF Revoke, SyncInv, phone, captures
<1>1. TypeOK'
    BY DEF TypeOK, SessionStatus
<1>2. OnlyCaptured' /\ EndIsFinal' /\ AcknowledgedIsStored'
    BY DEF OnlyCaptured, EndIsFinal, AcknowledgedIsStored
<1> QED
    BY <1>1, <1>2, UntouchedKeeps DEF Untouched

LEMMA StutterKeeps == ASSUME SyncInv, UNCHANGED vars PROVE SyncInv'
BY DEF SyncInv, vars, server, phone, captures, TypeOK, OnlyCaptured, EndIsFinal,
       AcknowledgedIsStored, CountMatchesStored, NothingAfterEnd

--------------------------------------------------------------------------------
LEMMA SyncInvInductive == SyncInv /\ [Next]_vars => SyncInv'
<1> SUFFICES ASSUME SyncInv, [Next]_vars PROVE SyncInv'
    OBVIOUS
<1>1. CASE Captures
    BY <1>1, CaptureKeeps, StopCaptureKeeps, SavePointKeeps, SendPointKeeps DEF Captures
<1>2. CASE SyncSteps
    BY <1>2, SendBatchKeeps, RemoveAcceptedKeeps, RereadBufferKeeps, MarkFailedKeeps
    DEF SyncSteps
<1>3. CASE DriverSteps
    BY <1>3, BeginWorkKeeps, FinishWorkKeeps, StartProofKeeps, StopProofKeeps,
       OpenWorkKeeps, RestartKeeps
    DEF DriverSteps
<1>4. CASE \E force \in BOOLEAN : StartSync(force)
    BY <1>4, StartSyncKeeps
<1>5. CASE \E rpc \in {"record", "sync"}, p \in Point : Arrive(rpc, p)
    BY <1>5, ArriveKeeps
<1> QED
    BY <1>1, <1>2, <1>3, <1>4, <1>5, RevokeKeeps, StutterKeeps DEF Next

LEMMA SyncInvAlways == Spec => []SyncInv
BY InitSync, SyncInvInductive, PTL DEF Spec

\* Every reachable state of phone and database is well typed; in particular no
\* counter of a session exceeds the number of points there are.
THEOREM SyncTypeCorrect == Spec => []TypeOK
<1>1. SyncInv => TypeOK
    BY DEF SyncInv
<1> QED
    BY <1>1, SyncInvAlways, PTL

\* However often a point is sent by either RPC, point_count of every session is
\* the number of its location_points rows.
THEOREM CountAlwaysMatches == Spec => []CountMatchesStored
<1>1. SyncInv => CountMatchesStored
    BY DEF SyncInv
<1> QED
    BY <1>1, SyncInvAlways, PTL

\* A point captured after the end of work is never stored, by neither RPC, even
\* when the phone learns of the end only later.
THEOREM NothingStoredAfterEnd == Spec => []NothingAfterEnd
<1>1. SyncInv => NothingAfterEnd
    BY DEF SyncInv
<1> QED
    BY <1>1, SyncInvAlways, PTL

--------------------------------------------------------------------------------
\* The buffer.

\* Only the three writes of the buffer change it, each from its own snapshot.
LEMMA StepKeepsPoints ==
    ASSUME SyncInv, [Next]_vars, NEW p \in Buffered(buffer) \ Buffered(buffer)'
    PROVE  p \in stored \/ Overtaken
<1>1. p \in Point /\ buffer[p] # Absent /\ buffer'[p] = Absent
    BY DEF Buffered
<1>2. CASE SavePoint
    BY <1>1, <1>2 DEF SavePoint, Overtaken, SyncInv, TypeOK, Buffers, Absent
<1>3. CASE RemoveAccepted
    BY <1>1, <1>3 DEF RemoveAccepted, AfterRemoval, Overtaken, SyncInv, AcknowledgedIsStored
<1>4. CASE MarkFailed
    BY <1>1, <1>4 DEF MarkFailed, Overtaken, Absent
<1>5. CASE UNCHANGED buffer
    BY <1>1, <1>5
<1>6. ASSUME NEW q \in Point, NEW out, Capture(q, out) PROVE UNCHANGED buffer
    BY <1>6 DEF Capture
<1>7. ASSUME NEW out, SendPoint(out) \/ SendBatch(out) \/ StartProof(out) \/ StopProof(out)
      PROVE  UNCHANGED buffer
    BY <1>7 DEF SendPoint, SendBatch, StartProof, StopProof
<1>8. ASSUME NEW out, NEW reloaded, FinishWork(out, reloaded) PROVE UNCHANGED buffer
    BY <1>8 DEF FinishWork
<1>9. ASSUME NEW a, BeginWork(a) \/ StartSync(a) PROVE UNCHANGED buffer
    BY <1>9 DEF BeginWork, StartSync
<1>10. ASSUME NEW rpc, NEW q, Arrive(rpc, q) PROVE UNCHANGED buffer
    BY <1>10 DEF Arrive, phone
<1>11. ASSUME \/ StopCapture \/ RereadBuffer \/ OpenWork \/ Restart \/ Revoke
              \/ UNCHANGED vars
       PROVE  UNCHANGED buffer
    BY <1>11 DEF StopCapture, RereadBuffer, OpenWork, Restart, Revoke, vars, phone
<1> QED
    BY <1>2, <1>3, <1>4, <1>5, <1>6, <1>7, <1>8, <1>9, <1>10, <1>11
    DEF Next, Captures, SyncSteps, DriverSteps

\* A buffered point leaves the phone only when the database has it or when two
\* writes of the buffer overtook each other.
THEOREM PointsAreKept == Spec => KeptUntilStored
<1>1. SyncInv /\ [Next]_vars =>
         [\A p \in Buffered(buffer) \ Buffered(buffer)' : p \in stored \/ Overtaken]_vars
    BY StepKeepsPoints
<1> QED
    BY <1>1, SyncInvAlways, PTL DEF Spec, KeptUntilStored
================================================================================
