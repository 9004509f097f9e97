-------------------------- MODULE AnalysisQueueProofs --------------------------
(***************************************************************************)
(* Exclusiveness and true reports of the three background queues, for any  *)
(* jobs, any number of open pages and any limits; and three properties of  *)
(* the composition, which follow from the theorems of its parts: the       *)
(* statistics are sound, what is submitted is kept, and only hardware of   *)
(* which everything was shown is ready.                                    *)
(***************************************************************************)
EXTENDS MCOperations, FiniteSetTheorems, TLAPS

(***************************************************************************)
(* The inductive invariant.                                                *)
(***************************************************************************)
IsRow(r) ==
    /\ DOMAIN r = {"state", "attempts", "requested", "completed", "provisional", "wait"}
    /\ r.requested \in Nat /\ r.completed \in Nat

Phases == {"free", "called", "running", "answered", "rejected"}
PageRecords == [phase : Phases, mine : BOOLEAN, todo : SUBSET Jobs, done : SUBSET Jobs,
                failed : SUBSET Jobs, swept : SUBSET Jobs]

\* A page that runs holds what it has evaluated and swept; in the queues that
\* lock on selection, also what it still has to evaluate.
Holds(p) == {j \in Jobs : lock[j] = p}
RunningHolds ==
    \A p \in PageSlots : page[p].phase = "running" =>
        page[p].done \cup page[p].failed \cup page[p].swept \subseteq Holds(p)

\* What is held is held by a page that runs and lists it.
HeldIsListed ==
    \A p \in PageSlots : \A j \in Holds(p) :
        page[p].phase = "running" /\ j \in page[p].todo \cup page[p].done \cup page[p].failed \cup page[p].swept

\* A page that was called has done nothing yet.
CalledIsEmpty ==
    \A p \in PageSlots : page[p].phase \in {"free", "called"} =>
        page[p].todo = {} /\ page[p].done = {} /\ page[p].failed = {} /\ page[p].swept = {}

\* A signal is inserted once: its writer found no row.
WritersInsert == kind = "m22" => \A j \in Jobs : lock[j] = Writer => row[j].state = "absent"

CompletedIsCurrent ==
    \A j \in Jobs : /\ row[j].completed <= row[j].requested
                    /\ row[j].state = "completed" => evaluated[j] = evidence[j]

\* What the locks and pages say, and what the rows say; most steps touch
\* only the first.
Shape == /\ kind \in {"m22", "m23", "m25"} /\ lock \in [Jobs -> PageSlots \cup {Free, Writer}]
         /\ page \in [PageSlots -> PageRecords]
         /\ RunningHolds /\ HeldIsListed /\ CalledIsEmpty
Rows == /\ row = [j \in Jobs |-> row[j]] /\ \A j \in Jobs : IsRow(row[j])
        /\ evidence \in [Jobs -> Nat] /\ evaluated \in [Jobs -> Nat]
        /\ WritersInsert /\ CompletedIsCurrent
QueueInv == Shape /\ Rows

LEMMA SlotsAreNoMarks == \A p \in PageSlots : p # Free /\ p # Writer
  BY QueueAssumption DEF Free, Writer

LEMMA QueueInitially == Init => QueueInv
  BY QueueAssumption, SlotsAreNoMarks DEF Init, QueueInv, Shape, Rows, RunningHolds, HeldIsListed, CalledIsEmpty, WritersInsert,
     CompletedIsCurrent, Holds, IsRow, NoPage, PageRecords, Phases

\* A step that leaves the rows alone and lets no writer in keeps the second half.
LEMMA RowsStay ==
  ASSUME Rows, UNCHANGED <<kind, row, evidence, evaluated>>,
         \A j \in Jobs : lock'[j] = Writer => lock[j] = Writer
  PROVE  Rows'
  BY DEF Rows, WritersInsert, CompletedIsCurrent, IsRow

\* What an enqueue makes of a row is a row that waits to be evaluated.
LEMMA EnqueuedIsRow ==
  ASSUME NEW r, IsRow(r), r.completed <= r.requested, kind = "m22" => r.state = "absent", kind \in {"m22", "m23", "m25"}
  PROVE  /\ IsRow(Enqueued(r)) /\ Enqueued(r).completed <= Enqueued(r).requested
         /\ Enqueued(r).state # "completed"
<1>1. IsRow(FreshRow) /\ FreshRow.completed <= FreshRow.requested /\ FreshRow.state # "completed"
  BY DEF IsRow, FreshRow
<1>2. CASE r.state = "absent"
  <2>1. Enqueued(r) = FreshRow BY <1>2 DEF Enqueued, RuleEnqueued, ComparisonEnqueued, StatisticsEnqueued
  <2> QED BY <1>1, <2>1
<1>3. CASE r.state # "absent" /\ kind = "m23"
  <2>1. Enqueued(r) = [r EXCEPT !.requested = @ + 1, !.state = "pending", !.wait = 1,
                                !.attempts = IF r.state = "failed" THEN 0 ELSE @]
    BY <1>3 DEF Enqueued, ComparisonEnqueued
  <2> QED BY <2>1 DEF IsRow
<1>4. CASE r.state # "absent" /\ kind = "m25"
  <2>1. Enqueued(r) = [r EXCEPT !.requested = @ + 1, !.state = "pending", !.wait = 0, !.attempts = 0]
    BY <1>4 DEF Enqueued, StatisticsEnqueued
  <2> QED BY <2>1 DEF IsRow
<1> QED BY <1>2, <1>3, <1>4

LEMMA WriterSound ==
  ASSUME QueueInv, NEW j \in Jobs, WriterLocks(j) \/ WriterCommits(j)
  PROVE  QueueInv'
<1>1. CASE WriterLocks(j)
  <2>1. Shape'
    BY <1>1, SlotsAreNoMarks DEF WriterLocks, QueueInv, Shape, RunningHolds, HeldIsListed, CalledIsEmpty, Holds
  <2>2. Rows'
    BY <1>1 DEF WriterLocks, QueueInv, Shape, Rows, WritersInsert, CompletedIsCurrent, IsRow
  <2> QED BY <2>1, <2>2 DEF QueueInv
<1>2. CASE WriterCommits(j)
  <2>1. Shape'
    BY <1>2, SlotsAreNoMarks DEF WriterCommits, QueueInv, Shape, RunningHolds, HeldIsListed, CalledIsEmpty, Holds
  <2>2. Rows'
    <3>1. IsRow(row[j]) /\ row[j].completed <= row[j].requested /\ (kind = "m22" => row[j].state = "absent")
          /\ kind \in {"m22", "m23", "m25"}
      BY <1>2 DEF WriterCommits, QueueInv, Shape, Rows, WritersInsert, CompletedIsCurrent
    <3>3. IsRow(Enqueued(row[j])) /\ Enqueued(row[j]).completed <= Enqueued(row[j]).requested
          /\ Enqueued(row[j]).state # "completed"
      BY <3>1, EnqueuedIsRow
    <3>2. row' = [row EXCEPT ![j] = Enqueued(row[j])] /\ lock' = [lock EXCEPT ![j] = Free]
          /\ evidence' = [evidence EXCEPT ![j] = @ + 1] /\ UNCHANGED <<kind, evaluated>>
      BY <1>2 DEF WriterCommits
    <3> QED BY <3>2, <3>3 DEF QueueInv, Shape, Rows, WritersInsert, CompletedIsCurrent, Free, Writer
  <2> QED BY <2>1, <2>2 DEF QueueInv
<1> QED BY <1>1, <1>2

(***************************************************************************)
(* The steps of a page.                                                    *)
(***************************************************************************)

\* What a page writes about itself keeps it a page.
LEMMA PageTaken ==
  ASSUME page \in [PageSlots -> PageRecords], NEW p \in PageSlots, NEW todo \in SUBSET Jobs, NEW swept \in SUBSET Jobs
  PROVE  [page EXCEPT ![p].phase = "running", ![p].todo = todo, ![p].swept = swept] \in [PageSlots -> PageRecords]
<1>1. page[p] \in PageRecords OBVIOUS
<1> QED BY <1>1 DEF PageRecords, Phases

LEMMA PageWorked ==
  ASSUME page \in [PageSlots -> PageRecords], NEW p \in PageSlots, NEW j \in Jobs,
         NEW done \in SUBSET {j}, NEW failed \in SUBSET {j}
  PROVE  [page EXCEPT ![p].todo = @ \ {j}, ![p].done = @ \cup done, ![p].failed = @ \cup failed]
            \in [PageSlots -> PageRecords]
<1>1. page[p] \in PageRecords OBVIOUS
<1>2. /\ page[p].todo \ {j} \in SUBSET Jobs /\ page[p].done \cup done \in SUBSET Jobs
      /\ page[p].failed \cup failed \in SUBSET Jobs
  BY <1>1 DEF PageRecords
<1>3. [page[p] EXCEPT !.todo = @ \ {j}, !.done = @ \cup done, !.failed = @ \cup failed] \in PageRecords
  BY <1>1, <1>2 DEF PageRecords
<1>4. [page EXCEPT ![p].todo = @ \ {j}, ![p].done = @ \cup done, ![p].failed = @ \cup failed]
      = [page EXCEPT ![p] = [page[p] EXCEPT !.todo = @ \ {j}, !.done = @ \cup done, !.failed = @ \cup failed]]
  OBVIOUS
<1> QED BY <1>3, <1>4

\* A page takes only rows that nobody holds, or selects without a lock.
LEMMA PageStartsSound ==
  ASSUME QueueInv, NEW p \in PageSlots, PageStarts(p)
  PROVE  QueueInv'
<1> DEFINE Took(swept, todo) ==
        /\ page' = [page EXCEPT ![p].phase = "running", ![p].todo = todo, ![p].swept = swept]
        /\ lock' = [j \in Jobs |-> IF j \in swept \/ (j \in todo /\ kind # "m25") THEN p ELSE lock[j]]
        /\ \A j \in todo : j \in swept \/ kind = "m25" \/ lock[j] = Free
<1>1. PICK swept \in SUBSET SweepCandidates, todo \in SUBSET Jobs : Took(swept, todo)
  <2>1. PICK swept \in SUBSET SweepCandidates :
          \E todo \in {s \in SUBSET Open(swept) : Cardinality(s) = Smaller(Batch, Cardinality(Open(swept)))} :
            /\ page' = [page EXCEPT ![p].phase = "running", ![p].todo = todo, ![p].swept = swept]
            /\ lock' = [j \in Jobs |-> IF j \in swept \/ (j \in todo /\ kind # "m25") THEN p ELSE lock[j]]
    BY DEF PageStarts
  <2>2. PICK todo \in SUBSET Open(swept) :
          /\ page' = [page EXCEPT ![p].phase = "running", ![p].todo = todo, ![p].swept = swept]
          /\ lock' = [j \in Jobs |-> IF j \in swept \/ (j \in todo /\ kind # "m25") THEN p ELSE lock[j]]
    BY <2>1
  <2>3. todo \in SUBSET Jobs /\ \A j \in todo : j \in swept \/ kind = "m25" \/ lock[j] = Free
    BY DEF Open
  <2>4. Took(swept, todo) BY <2>2, <2>3
  <2> HIDE DEF Took
  <2> QED BY <2>3, <2>4
<1>2. page[p].phase = "called" /\ UNCHANGED <<kind, row, evidence, evaluated>>
  BY DEF PageStarts
<1>3. swept \subseteq Jobs /\ \A j \in swept : lock[j] = Free
  BY <1>1 DEF SweepCandidates
<1>4. \A j \in Jobs : lock'[j] = lock[j] \/ (lock[j] = Free /\ lock'[j] = p /\ j \in swept \cup todo)
  BY <1>1, <1>3
<1>5. page[p].done = {} /\ page[p].failed = {} /\ Holds(p) = {}
  BY <1>2 DEF QueueInv, Shape, CalledIsEmpty, HeldIsListed
<1>6. \A q \in PageSlots : page'[q] = IF q = p THEN [page[p] EXCEPT !.phase = "running", !.todo = todo, !.swept = swept]
                                   ELSE page[q]
  BY <1>1 DEF QueueInv, Shape
<1>7. /\ page'[p].phase = "running" /\ page'[p].todo = todo /\ page'[p].swept = swept
      /\ page'[p].done = {} /\ page'[p].failed = {}
  BY <1>5, <1>6 DEF QueueInv, Shape, PageRecords
<1>8. Shape'
  <2>1. page' \in [PageSlots -> PageRecords] /\ lock' \in [Jobs -> PageSlots \cup {Free, Writer}]
    <3>1. page' \in [PageSlots -> PageRecords]
      BY <1>1, <1>3, PageTaken DEF QueueInv, Shape
    <3> QED BY <1>1, <3>1 DEF QueueInv, Shape
  <2>2. RunningHolds'
    BY <1>1, <1>3, <1>4, <1>6, <1>7, SlotsAreNoMarks DEF QueueInv, Shape, RunningHolds, Holds
  <2>3. HeldIsListed'
    <3> SUFFICES ASSUME NEW q \in PageSlots, NEW j \in Jobs, lock'[j] = q
                 PROVE  page'[q].phase = "running" /\ j \in page'[q].todo \cup page'[q].done \cup page'[q].failed \cup page'[q].swept
      BY DEF HeldIsListed, Holds
    <3>1. CASE q = p
      BY <1>4, <1>5, <1>7, <3>1 DEF Holds
    <3>2. CASE q # p
      BY <1>4, <1>6, <3>2 DEF QueueInv, Shape, HeldIsListed, Holds
    <3> QED BY <3>1, <3>2
  <2>4. CalledIsEmpty'
    BY <1>6, <1>7 DEF QueueInv, Shape, CalledIsEmpty
  <2> QED BY <1>2, <2>1, <2>2, <2>3, <2>4 DEF QueueInv, Shape
<1>9. Rows'
  BY <1>2, <1>4, RowsStay, SlotsAreNoMarks DEF QueueInv
<1> QED BY <1>8, <1>9 DEF QueueInv

LEMMA PageEvaluatesSound ==
  ASSUME QueueInv, NEW p \in PageSlots, NEW j \in Jobs, PageEvaluates(p, j)
  PROVE  QueueInv'
<1>1. /\ page[p].phase = "running" /\ j \in page[p].todo /\ lock[j] \in {p, Free}
      /\ UNCHANGED <<kind, row, evidence, evaluated>>
  BY DEF PageEvaluates
<1>2. PICK done \in SUBSET {j}, failed \in SUBSET {j} :
        /\ page' = [page EXCEPT ![p].todo = @ \ {j}, ![p].done = @ \cup done, ![p].failed = @ \cup failed]
        /\ \/ lock' = lock /\ lock[j] = Free /\ done = {} /\ failed = {}
           \/ lock' = [lock EXCEPT ![j] = p] /\ done \cup failed = {j}
  <2>1. CASE lock[j] = Free /\ ~ Due(j) /\ lock' = lock /\ page' = [page EXCEPT ![p].todo = @ \ {j}]
    <3>1. page' = [page EXCEPT ![p].todo = @ \ {j}, ![p].done = @ \cup {}, ![p].failed = @ \cup {}]
      BY <2>1 DEF QueueInv, Shape, PageRecords
    <3> QED BY <2>1, <3>1
  <2>2. CASE lock' = [lock EXCEPT ![j] = p] /\ page' = [page EXCEPT ![p].todo = @ \ {j}, ![p].done = @ \cup {j}]
    <3>1. page' = [page EXCEPT ![p].todo = @ \ {j}, ![p].done = @ \cup {j}, ![p].failed = @ \cup {}]
      BY <2>2 DEF QueueInv, Shape, PageRecords
    <3>2. {j} \cup {} = {j} /\ {} \in SUBSET {j} /\ {j} \in SUBSET {j} OBVIOUS
    <3> QED BY <2>2, <3>1, <3>2
  <2>3. CASE lock' = [lock EXCEPT ![j] = p] /\ page' = [page EXCEPT ![p].todo = @ \ {j}, ![p].failed = @ \cup {j}]
    <3>1. page' = [page EXCEPT ![p].todo = @ \ {j}, ![p].done = @ \cup {}, ![p].failed = @ \cup {j}]
      BY <2>3 DEF QueueInv, Shape, PageRecords
    <3>2. {} \cup {j} = {j} /\ {} \in SUBSET {j} /\ {j} \in SUBSET {j} OBVIOUS
    <3> QED BY <2>3, <3>1, <3>2
  <2> QED BY <2>1, <2>2, <2>3 DEF PageEvaluates
<1>3. /\ \A q \in PageSlots \ {p} : page'[q] = page[q]
      /\ page'[p].phase = "running" /\ page'[p].todo = page[p].todo \ {j} /\ page'[p].swept = page[p].swept
      /\ page'[p].done = page[p].done \cup done /\ page'[p].failed = page[p].failed \cup failed
  BY <1>1, <1>2 DEF QueueInv, Shape, PageRecords
<1>4. \A i \in Jobs : lock'[i] = lock[i] \/ (i = j /\ lock'[i] = p)
  BY <1>2 DEF QueueInv, Shape
<1>5. Shape'
  <2>1. page' \in [PageSlots -> PageRecords] /\ lock' \in [Jobs -> PageSlots \cup {Free, Writer}]
    <3>1. page' \in [PageSlots -> PageRecords]
      BY <1>2, PageWorked DEF QueueInv, Shape
    <3> QED BY <1>2, <3>1 DEF QueueInv, Shape
  <2>2. RunningHolds'
    BY <1>1, <1>2, <1>3, <1>4, SlotsAreNoMarks DEF QueueInv, Shape, RunningHolds, Holds
  <2>3. HeldIsListed'
    <3> SUFFICES ASSUME NEW q \in PageSlots, NEW i \in Jobs, lock'[i] = q
                 PROVE  page'[q].phase = "running" /\ i \in page'[q].todo \cup page'[q].done \cup page'[q].failed \cup page'[q].swept
      BY DEF HeldIsListed, Holds
    <3>1. CASE q = p
      <4>1. CASE i = j /\ lock' = lock /\ lock[j] = Free BY <1>1, <1>2, <3>1, <4>1, SlotsAreNoMarks
      <4>2. CASE i = j /\ done \cup failed = {j} BY <1>3, <3>1, <4>2
      <4>3. CASE i # j BY <1>3, <1>4, <3>1, <4>3 DEF QueueInv, Shape, HeldIsListed, Holds
      <4> QED BY <1>2, <4>1, <4>2, <4>3
    <3>2. CASE q # p
      BY <1>3, <1>4, <3>2 DEF QueueInv, Shape, HeldIsListed, Holds
    <3> QED BY <3>1, <3>2
  <2>4. CalledIsEmpty'
    BY <1>3 DEF QueueInv, Shape, CalledIsEmpty
  <2> QED BY <1>1, <2>1, <2>2, <2>3, <2>4 DEF QueueInv, Shape
<1>6. Rows'
  BY <1>1, <1>4, RowsStay, SlotsAreNoMarks DEF QueueInv
<1> QED BY <1>5, <1>6 DEF QueueInv

\* A page lets its rows go and does not run any more.
LEMMA PageEnds ==
  ASSUME QueueInv, NEW p \in PageSlots, lock' = Released(p), UNCHANGED kind,
         page' \in [PageSlots -> PageRecords], \A q \in PageSlots \ {p} : page'[q] = page[q],
         page'[p].phase # "running", page'[p].phase \in {"free", "called"} => page'[p] = [NoPage EXCEPT !.phase = page'[p].phase, !.mine = page'[p].mine]
  PROVE  Shape' /\ \A j \in Jobs : lock'[j] = Writer => lock[j] = Writer
<1>1. \A j \in Jobs : lock'[j] = IF lock[j] = p THEN Free ELSE lock[j]
  BY DEF Released
<1>2. lock' \in [Jobs -> PageSlots \cup {Free, Writer}]
  BY DEF Released, QueueInv, Shape
<1>3. RunningHolds' /\ HeldIsListed'
  BY <1>1, SlotsAreNoMarks DEF QueueInv, Shape, RunningHolds, HeldIsListed, Holds
<1>4. CalledIsEmpty'
  BY DEF QueueInv, Shape, CalledIsEmpty, NoPage
<1>5. Free # Writer BY DEF Free, Writer
<1> QED BY <1>1, <1>2, <1>3, <1>4, <1>5 DEF QueueInv, Shape

\* A commit completes rows, gives them back or leaves them as they are.
LEMMA CommittedRow ==
  ASSUME NEW r, IsRow(r), r.completed <= r.requested, NEW b \in BOOLEAN
  PROVE  /\ IsRow(Swept(r)) /\ Swept(r).completed <= Swept(r).requested /\ Swept(r).state # "completed"
         /\ IsRow([CompletedRow(r) EXCEPT !.provisional = b])
         /\ [CompletedRow(r) EXCEPT !.provisional = b].completed <= [CompletedRow(r) EXCEPT !.provisional = b].requested
         /\ IsRow(RetriedRow(r)) /\ RetriedRow(r).completed <= RetriedRow(r).requested
         /\ RetriedRow(r).state # "completed"
<1>4. IsRow(Swept(r)) /\ Swept(r).completed <= Swept(r).requested /\ Swept(r).state # "completed"
  BY DEF IsRow, Swept
<1>5. /\ IsRow([CompletedRow(r) EXCEPT !.provisional = b])
      /\ [CompletedRow(r) EXCEPT !.provisional = b].completed <= [CompletedRow(r) EXCEPT !.provisional = b].requested
  BY DEF IsRow, CompletedRow
<1>6. IsRow(RetriedRow(r)) /\ RetriedRow(r).completed <= RetriedRow(r).requested /\ RetriedRow(r).state # "completed"
  BY DEF IsRow, RetriedRow
<1> QED BY <1>4, <1>5, <1>6

LEMMA PageCommitsSound ==
  ASSUME QueueInv, NEW p \in PageSlots, PageCommits(p)
  PROVE  QueueInv'
<1> DEFINE claimed(j) == IF j \in page[p].swept THEN Swept(row[j]) ELSE row[j]
<1>1. PICK provisional \in SUBSET Jobs :
        row' = [j \in Jobs |->
                  IF j \in page[p].done THEN [CompletedRow(claimed(j)) EXCEPT !.provisional = j \in provisional]
                  ELSE IF j \in page[p].failed THEN RetriedRow(claimed(j)) ELSE claimed(j)]
  <2>1. {j \in page[p].done : kind = "m23"} \subseteq Jobs
    BY DEF QueueInv, Shape, PageRecords
  <2> QED BY <2>1, Zenon DEF PageCommits
<1>2. /\ evidence' = [j \in Jobs |-> IF j \in page[p].swept THEN evidence[j] + 1 ELSE evidence[j]]
      /\ evaluated' = [j \in Jobs |-> IF j \in page[p].done THEN evidence'[j] ELSE evaluated[j]]
      /\ lock' = Released(p) /\ kind' = kind /\ page[p].phase = "running"
  BY DEF PageCommits
<1>3. \A j \in page[p].done \cup page[p].failed \cup page[p].swept : lock[j] = p
  BY <1>2 DEF QueueInv, Shape, RunningHolds, Holds
<1>4. \A j \in Jobs : /\ IsRow(row'[j]) /\ row'[j].completed <= row'[j].requested
                      /\ row'[j].state = "completed" => j \in page[p].done \/ (row'[j] = row[j] /\ j \notin page[p].swept)
  <2> SUFFICES ASSUME NEW j \in Jobs
               PROVE  /\ IsRow(row'[j]) /\ row'[j].completed <= row'[j].requested
                      /\ row'[j].state = "completed" => j \in page[p].done \/ (row'[j] = row[j] /\ j \notin page[p].swept)
    OBVIOUS
  <2>1. IsRow(row[j]) /\ row[j].completed <= row[j].requested
    BY DEF QueueInv, Rows, CompletedIsCurrent
  <2>2. IsRow(claimed(j)) /\ claimed(j).completed <= claimed(j).requested
        /\ (j \in page[p].swept => claimed(j).state # "completed")
    BY <2>1, CommittedRow
  <2>3. claimed(j) = row[j] \/ j \in page[p].swept OBVIOUS
  <2>4. row'[j] = IF j \in page[p].done THEN [CompletedRow(claimed(j)) EXCEPT !.provisional = j \in provisional]
                  ELSE IF j \in page[p].failed THEN RetriedRow(claimed(j)) ELSE claimed(j)
    BY <1>1
  <2>5. (j \in provisional) \in BOOLEAN OBVIOUS
  <2> HIDE DEF claimed
  <2>6. CASE j \in page[p].done BY <2>2, <2>4, <2>5, <2>6, CommittedRow
  <2>7. CASE j \notin page[p].done /\ j \in page[p].failed BY <2>2, <2>4, <2>5, <2>7, CommittedRow
  <2>8. CASE j \notin page[p].done /\ j \notin page[p].failed BY <2>2, <2>3, <2>4, <2>8
  <2> QED BY <2>6, <2>7, <2>8
<1>5. \A j \in Jobs : lock[j] # p => row'[j] = row[j]
  BY <1>1, <1>3
<1>6. row' = [j \in Jobs |-> row'[j]]
  BY <1>1
<1> HIDE DEF claimed
<1>7. Shape' /\ \A j \in Jobs : lock'[j] = Writer => lock[j] = Writer
  <2>1. page' \in {[page EXCEPT ![p] = NoPage], [page EXCEPT ![p].phase = "answered"], [page EXCEPT ![p].phase = "rejected"]}
    <3>1. page[p] \in PageRecords BY DEF QueueInv, Shape
    <3>2. [page EXCEPT ![p] = [page[p] EXCEPT !.phase = "answered"]] = [page EXCEPT ![p].phase = "answered"] OBVIOUS
    <3> QED BY <3>2 DEF PageCommits
  <2>2. page' \in [PageSlots -> PageRecords]
    <3>1. page[p] \in PageRecords /\ NoPage \in PageRecords BY DEF QueueInv, Shape, NoPage, PageRecords, Phases
    <3>2. [page[p] EXCEPT !.phase = "answered"] \in PageRecords /\ [page[p] EXCEPT !.phase = "rejected"] \in PageRecords
      BY <3>1 DEF PageRecords, Phases
    <3> QED BY <2>1, <3>1, <3>2 DEF QueueInv, Shape
  <2>3. \A q \in PageSlots \ {p} : page'[q] = page[q]
    BY <2>1 DEF QueueInv, Shape
  <2>4. page'[p] = NoPage \/ page'[p].phase \in {"answered", "rejected"}
    BY <2>1 DEF QueueInv, Shape, PageRecords
  <2>5. page'[p].phase # "running" /\ (page'[p].phase \in {"free", "called"} => page'[p] = NoPage)
    BY <2>4 DEF NoPage
  <2>6. NoPage = [NoPage EXCEPT !.phase = NoPage.phase, !.mine = NoPage.mine] BY DEF NoPage
  <2> QED BY <1>2, <2>2, <2>3, <2>5, <2>6, PageEnds
<1>8. Rows'
  <2>1. evidence' \in [Jobs -> Nat] /\ evaluated' \in [Jobs -> Nat]
    BY <1>2 DEF QueueInv, Rows
  <2>2. WritersInsert'
    BY <1>2, <1>5, <1>7, SlotsAreNoMarks DEF QueueInv, Rows, WritersInsert
  <2>3. CompletedIsCurrent'
    BY <1>2, <1>4 DEF QueueInv, Rows, CompletedIsCurrent
  <2> QED BY <1>4, <1>6, <2>1, <2>2, <2>3 DEF Rows
<1> QED BY <1>7, <1>8 DEF QueueInv

\* A page that is undone leaves no trace.
LEMMA PageUndoneSound ==
  ASSUME QueueInv, NEW p \in PageSlots, RolledBack(p), UNCHANGED <<kind, row, evidence, evaluated>>
  PROVE  QueueInv'
<1>1. lock' = Released(p) /\ UNCHANGED kind
      /\ page' \in {[page EXCEPT ![p] = NoPage], [page EXCEPT ![p] = [NoPage EXCEPT !.phase = "rejected", !.mine = TRUE]]}
  BY DEF RolledBack
<1>2. NoPage \in PageRecords /\ [NoPage EXCEPT !.phase = "rejected", !.mine = TRUE] \in PageRecords
  BY DEF NoPage, PageRecords, Phases
<1>3. /\ page' \in [PageSlots -> PageRecords] /\ \A q \in PageSlots \ {p} : page'[q] = page[q]
      /\ page'[p].phase # "running" /\ (page'[p].phase \in {"free", "called"} => page'[p] = NoPage)
  <2>1. NoPage.phase = "free" /\ [NoPage EXCEPT !.phase = "rejected", !.mine = TRUE].phase = "rejected"
    BY DEF NoPage
  <2>2. page \in [PageSlots -> PageRecords] BY DEF QueueInv, Shape
  <2> QED BY <1>1, <1>2, <2>1, <2>2
<1>4. NoPage = [NoPage EXCEPT !.phase = NoPage.phase, !.mine = NoPage.mine] BY DEF NoPage
<1>5. Shape' /\ \A j \in Jobs : lock'[j] = Writer => lock[j] = Writer
  BY <1>1, <1>3, <1>4, PageEnds
<1> QED BY <1>5, RowsStay DEF QueueInv

(***************************************************************************)
(* The steps of the scheduled function: it opens and closes pages.         *)
(***************************************************************************)

\* A step that leaves locks alone and only opens empty pages, forgets pages
\* that do not run or disowns one that does.
LEMMA PagesStay ==
  ASSUME QueueInv, UNCHANGED <<kind, lock, evidence, evaluated>>, page' \in [PageSlots -> PageRecords],
         row' = [j \in Jobs |-> row'[j]],
         \A j \in Jobs : /\ IsRow(row'[j]) /\ row'[j].state = row[j].state
                        /\ row'[j].completed = row[j].completed /\ row'[j].requested = row[j].requested,
         \A p \in PageSlots :
             \/ page'[p] = page[p]
             \/ page[p].phase # "running" /\ page'[p] = [NoPage EXCEPT !.phase = page'[p].phase, !.mine = page'[p].mine]
                /\ page'[p].phase # "running"
             \/ page'[p] = [page[p] EXCEPT !.mine = FALSE]
  PROVE  QueueInv'
<1>1. \A p \in PageSlots :
        \/ /\ page'[p].phase = page[p].phase /\ page'[p].todo = page[p].todo /\ page'[p].done = page[p].done
           /\ page'[p].failed = page[p].failed /\ page'[p].swept = page[p].swept
        \/ /\ page[p].phase # "running" /\ page'[p].phase # "running" /\ page'[p].todo = {} /\ page'[p].done = {}
           /\ page'[p].failed = {} /\ page'[p].swept = {}
  <2> TAKE p \in PageSlots
  <2>1. page[p] \in PageRecords BY DEF QueueInv, Shape
  <2>2. CASE page'[p] = page[p] BY <2>2
  <2>3. CASE page[p].phase # "running" /\ page'[p] = [NoPage EXCEPT !.phase = page'[p].phase, !.mine = page'[p].mine]
             /\ page'[p].phase # "running"
    BY <2>3 DEF NoPage
  <2>4. CASE page'[p] = [page[p] EXCEPT !.mine = FALSE] BY <2>1, <2>4 DEF PageRecords
  <2> QED BY <2>2, <2>3, <2>4
<1>h. \A p \in PageSlots : Holds(p)' = Holds(p) BY DEF Holds
<1>2. RunningHolds'
  <2> SUFFICES ASSUME NEW p \in PageSlots, page'[p].phase = "running"
               PROVE  page'[p].done \cup page'[p].failed \cup page'[p].swept \subseteq Holds(p)
    BY <1>h DEF RunningHolds
  <2>1. /\ page[p].phase = "running" /\ page'[p].done = page[p].done
        /\ page'[p].failed = page[p].failed /\ page'[p].swept = page[p].swept
    BY <1>1
  <2>2. page[p].done \cup page[p].failed \cup page[p].swept \subseteq Holds(p)
    BY <2>1 DEF QueueInv, Shape, RunningHolds
  <2> QED BY <2>1, <2>2
<1>3. CalledIsEmpty' BY <1>1 DEF QueueInv, Shape, CalledIsEmpty
<1>4. HeldIsListed'
  <2> SUFFICES ASSUME NEW p \in PageSlots, NEW j \in Holds(p)
               PROVE  page'[p].phase = "running" /\ j \in page'[p].todo \cup page'[p].done \cup page'[p].failed \cup page'[p].swept
    BY <1>h DEF HeldIsListed
  <2>1. page[p].phase = "running" /\ j \in page[p].todo \cup page[p].done \cup page[p].failed \cup page[p].swept
    BY DEF QueueInv, Shape, HeldIsListed
  <2> QED BY <1>1, <2>1
<1>5. Shape' BY <1>2, <1>3, <1>4 DEF QueueInv, Shape
<1>6. WritersInsert' /\ CompletedIsCurrent' BY DEF QueueInv, Rows, WritersInsert, CompletedIsCurrent
<1>7. Rows' BY <1>6 DEF QueueInv, Rows
<1> QED BY <1>5, <1>7 DEF QueueInv

LEMMA WorkerSound ==
  ASSUME QueueInv, WorkerSteps
  PROVE  QueueInv'
<1>0. /\ page \in [PageSlots -> PageRecords] /\ NoPage \in PageRecords
      /\ row = [j \in Jobs |-> row[j]] /\ \A j \in Jobs : IsRow(row[j])
  BY DEF QueueInv, Shape, Rows, NoPage, PageRecords, Phases
<1>1. ASSUME UNCHANGED <<kind, row, evidence, evaluated, lock, page>> PROVE QueueInv'
  BY <1>0, <1>1, PagesStay
<1>2. CASE InvocationStarts
  <2>1. row' = [j \in Jobs |-> [row[j] EXCEPT !.wait = IF @ = 0 THEN 0 ELSE @ - 1]]
        /\ UNCHANGED <<kind, evidence, evaluated, lock, page>>
    BY <1>2 DEF InvocationStarts
  <2>2. \A j \in Jobs : /\ IsRow(row'[j]) /\ row'[j].state = row[j].state
                        /\ row'[j].completed = row[j].completed /\ row'[j].requested = row[j].requested
    BY <1>0, <2>1 DEF IsRow
  <2> QED BY <1>0, <2>1, <2>2, PagesStay
<1>3. CASE SweepAnswered BY <1>1, <1>3 DEF SweepAnswered
<1>4. CASE WaveStarts
  <2>1. PICK slots \in SUBSET FreeSlots :
          page' = [p \in PageSlots |->
             IF p \in slots THEN [NoPage EXCEPT !.phase = "called", !.mine = TRUE] ELSE page[p]]
    BY <1>4 DEF WaveStarts
  <2>u. UNCHANGED <<kind, row, evidence, evaluated, lock>> BY <1>4 DEF WaveStarts
  <2>2. [NoPage EXCEPT !.phase = "called", !.mine = TRUE] \in PageRecords
    BY DEF NoPage, PageRecords, Phases
  <2>3. \A p \in slots : page[p].phase # "running"
    BY DEF FreeSlots
  <2>4. [NoPage EXCEPT !.phase = "called", !.mine = TRUE].phase = "called"
        /\ [NoPage EXCEPT !.phase = "called", !.mine = TRUE].mine = TRUE
    BY DEF NoPage
  <2>5. \A p \in PageSlots :
          \/ page'[p] = page[p]
          \/ page[p].phase # "running" /\ page'[p] = [NoPage EXCEPT !.phase = page'[p].phase, !.mine = page'[p].mine]
             /\ page'[p].phase # "running"
    BY <2>1, <2>3, <2>4
  <2>6. page' \in [PageSlots -> PageRecords] BY <1>0, <2>1, <2>2
  <2> QED BY <1>0, <2>u, <2>5, <2>6, PagesStay
<1>5. CASE LoopEnds BY <1>1, <1>5 DEF LoopEnds
<1>6. NoPage = [NoPage EXCEPT !.phase = NoPage.phase, !.mine = NoPage.mine] /\ NoPage.phase = "free" BY DEF NoPage
<1>7. CASE WaveSettles
  <2>1. page' = [p \in PageSlots |-> IF p \in Mine THEN NoPage ELSE page[p]]
        /\ (\A p \in Mine : page[p].phase \in {"answered", "rejected"})
        /\ UNCHANGED <<kind, row, evidence, evaluated, lock>>
    BY <1>7 DEF WaveSettles
  <2>2. page' \in [PageSlots -> PageRecords] BY <1>0, <2>1
  <2>3. \A p \in PageSlots :
          \/ page'[p] = page[p]
          \/ page[p].phase # "running" /\ page'[p] = [NoPage EXCEPT !.phase = page'[p].phase, !.mine = page'[p].mine]
             /\ page'[p].phase # "running"
    BY <1>6, <2>1
  <2> QED BY <1>0, <2>1, <2>2, <2>3, PagesStay
<1>8. CASE InvocationTimesOut
  <2>1. page' = [p \in PageSlots |->
           IF p \notin Mine THEN page[p]
           ELSE IF page[p].phase = "running" THEN [page[p] EXCEPT !.mine = FALSE] ELSE NoPage]
        /\ UNCHANGED <<kind, row, evidence, evaluated, lock>>
    BY <1>8 DEF InvocationTimesOut
  <2>2. \A p \in PageSlots : [page[p] EXCEPT !.mine = FALSE] \in PageRecords BY <1>0 DEF PageRecords
  <2>3. page' \in [PageSlots -> PageRecords] BY <1>0, <2>1, <2>2
  <2>4. \A p \in PageSlots :
          \/ page'[p] = page[p]
          \/ page[p].phase # "running" /\ page'[p] = [NoPage EXCEPT !.phase = page'[p].phase, !.mine = page'[p].mine]
             /\ page'[p].phase # "running"
          \/ page'[p] = [page[p] EXCEPT !.mine = FALSE]
    BY <1>6, <2>1
  <2> QED BY <1>0, <2>1, <2>3, <2>4, PagesStay
<1>9. CASE Compacts BY <1>1, <1>9 DEF Compacts
<1> QED BY <1>2, <1>3, <1>4, <1>5, <1>7, <1>8, <1>9 DEF WorkerSteps

LEMMA QueueStepSound == QueueInv /\ [Next]_vars => QueueInv'
<1> SUFFICES ASSUME QueueInv, [Next]_vars PROVE QueueInv' OBVIOUS
<1>1. CASE WriterSteps BY <1>1, WriterSound DEF WriterSteps
<1>2. ASSUME NEW p \in PageSlots, PageProgress(p) PROVE QueueInv'
  BY <1>2, PageStartsSound, PageEvaluatesSound, PageCommitsSound DEF PageProgress
<1>3. ASSUME NEW p \in PageSlots, PageAborts(p) PROVE QueueInv'
  BY <1>3, PageUndoneSound DEF PageAborts
<1>4. ASSUME NEW p \in PageSlots, PageDeadlocks(p) PROVE QueueInv'
  BY <1>4, PageUndoneSound DEF PageDeadlocks
<1>5. CASE WorkerSteps BY <1>5, WorkerSound
<1>6. CASE UNCHANGED vars
  BY <1>6 DEF vars, QueueInv, Shape, Rows, RunningHolds, HeldIsListed, CalledIsEmpty, WritersInsert, CompletedIsCurrent,
     Holds, IsRow
<1> QED BY <1>1, <1>2, <1>3, <1>4, <1>5, <1>6 DEF Next, PageSteps

(***************************************************************************)
(* The result.                                                             *)
(***************************************************************************)

\* A row of a queue is held by one page at a time, that page runs and lists
\* it, and a completed row has had the newest evidence evaluated: whatever
\* rows the three queue functions claim, sweep, retry, roll back or deadlock
\* over, for any jobs, pages and limits.
THEOREM RowsAreAlwaysExclusive == Spec => []RowsAreExclusive
<1>1. Init => QueueInv BY QueueInitially
<1>2. QueueInv /\ [Next]_vars => QueueInv' BY QueueStepSound
<1>3. QueueInv => RowsAreExclusive
  <2> SUFFICES ASSUME QueueInv PROVE RowsAreExclusive OBVIOUS
  <2>1. \A j \in Jobs : lock[j] \in PageSlots =>
           /\ page[lock[j]].phase = "running"
           /\ j \in page[lock[j]].todo \cup page[lock[j]].done \cup page[lock[j]].failed \cup page[lock[j]].swept
    BY DEF QueueInv, Shape, HeldIsListed, Holds
  <2>2. \A j \in Jobs : \A p, q \in PageSlots :
           /\ page[p].phase = "running" /\ page[q].phase = "running"
           /\ j \in page[p].done \cup page[p].failed
           /\ j \in page[q].done \cup page[q].failed
           => p = q
    BY DEF QueueInv, Shape, RunningHolds, Holds
  <2> QED BY <2>1, <2>2 DEF RowsAreExclusive, QueueInv, Rows, CompletedIsCurrent
<1> QED BY <1>1, <1>2, <1>3, PTL DEF Spec

(***************************************************************************)
(* What the answered pages report, counted.                                *)
(***************************************************************************)
Taken(p) == page[p].done \cup page[p].failed

LEMMA ReportsAreFinite ==
  ASSUME NEW answered \in SUBSET PageSlots
  PROVE  /\ IsFiniteSet(answered) /\ IsFiniteSet(answered \X Jobs)
         /\ IsFiniteSet(DoneIn(answered)) /\ IsFiniteSet(FailedIn(answered)) /\ IsFiniteSet(ClaimedIn(answered))
         /\ Cardinality(DoneIn(answered)) \in Nat /\ Cardinality(FailedIn(answered)) \in Nat
         /\ Cardinality(ClaimedIn(answered)) \in Nat
<1>1. IsFiniteSet(answered) BY LimitsAssumption, FS_Subset
<1>2. IsFiniteSet(answered \X Jobs) BY <1>1, LimitsAssumption, FS_Product
<1>3. DoneIn(answered) \in SUBSET (answered \X Jobs) /\ FailedIn(answered) \in SUBSET (answered \X Jobs)
      /\ ClaimedIn(answered) \in SUBSET (answered \X Jobs)
  BY DEF DoneIn, FailedIn, ClaimedIn
<1>4. IsFiniteSet(DoneIn(answered)) /\ IsFiniteSet(FailedIn(answered)) /\ IsFiniteSet(ClaimedIn(answered))
  BY <1>2, <1>3, FS_Subset
<1> QED BY <1>1, <1>2, <1>4, FS_CardinalityType

\* Pages that report are one more.
LEMMA OnePageMore ==
  ASSUME page \in [PageSlots -> PageRecords], NEW answered \in SUBSET PageSlots, NEW p \in PageSlots \ answered
  PROVE  /\ Cardinality(DoneIn(answered \cup {p})) = Cardinality(DoneIn(answered)) + Cardinality(page[p].done)
         /\ Cardinality(FailedIn(answered \cup {p})) = Cardinality(FailedIn(answered)) + Cardinality(page[p].failed)
<1>1. ASSUME NEW more \in SUBSET Jobs, NEW old, IsFiniteSet(old), old \cap ({p} \X more) = {}
      PROVE  /\ IsFiniteSet({p} \X more)
             /\ Cardinality(old \cup ({p} \X more)) = Cardinality(old) + Cardinality(more)
  <2>1. IsFiniteSet(more) /\ Cardinality(more) \in Nat BY LimitsAssumption, FS_Subset, FS_CardinalityType
  <2>2. IsFiniteSet({p}) /\ Cardinality({p}) = 1 BY FS_Singleton
  <2>3. IsFiniteSet({p} \X more) /\ Cardinality({p} \X more) = Cardinality({p}) * Cardinality(more)
    BY <2>1, <2>2, FS_Product
  <2>4. Cardinality(old \cap ({p} \X more)) = 0 BY <1>1, FS_EmptySet
  <2>5. Cardinality(old \cup ({p} \X more)) = Cardinality(old) + Cardinality({p} \X more) - Cardinality(old \cap ({p} \X more))
    BY <1>1, <2>3, FS_Union
  <2>6. Cardinality(old) \in Nat BY <1>1, FS_CardinalityType
  <2> QED BY <2>1, <2>2, <2>3, <2>4, <2>5, <2>6
<1>2. page[p].done \in SUBSET Jobs /\ page[p].failed \in SUBSET Jobs BY DEF PageRecords
<1>3. /\ DoneIn(answered \cup {p}) = DoneIn(answered) \cup ({p} \X page[p].done)
      /\ DoneIn(answered) \cap ({p} \X page[p].done) = {}
  BY <1>2 DEF DoneIn
<1>4. /\ FailedIn(answered \cup {p}) = FailedIn(answered) \cup ({p} \X page[p].failed)
      /\ FailedIn(answered) \cap ({p} \X page[p].failed) = {}
  BY <1>2 DEF FailedIn
<1> QED BY <1>1, <1>2, <1>3, <1>4, ReportsAreFinite

\* Completed and failed rows make up the claimed ones.
LEMMA ClaimsAddUp ==
  ASSUME NEW answered \in SUBSET PageSlots, \A p \in answered : page[p].done \cap page[p].failed = {}
  PROVE  Cardinality(ClaimedIn(answered)) = Cardinality(DoneIn(answered)) + Cardinality(FailedIn(answered))
<1>1. DoneIn(answered) \cap FailedIn(answered) = {} BY DEF DoneIn, FailedIn
<1>2. Cardinality(DoneIn(answered) \cap FailedIn(answered)) = 0 BY <1>1, FS_EmptySet
<1>3. Cardinality(DoneIn(answered) \cup FailedIn(answered))
      = Cardinality(DoneIn(answered)) + Cardinality(FailedIn(answered)) - Cardinality(DoneIn(answered) \cap FailedIn(answered))
  BY ReportsAreFinite, FS_Union
<1>4. Cardinality(DoneIn(answered)) \in Nat /\ Cardinality(FailedIn(answered)) \in Nat BY ReportsAreFinite
<1> QED BY <1>2, <1>3, <1>4 DEF ClaimedIn

\* Pages that are all full claim a full wave.
LEMMA FullPages ==
  ASSUME page \in [PageSlots -> PageRecords], NEW answered \in SUBSET PageSlots, NEW n \in Nat,
         \A p \in answered : Cardinality(Taken(p)) >= n
  PROVE  Cardinality(ClaimedIn(answered)) >= Cardinality(answered) * n
<1>1. ASSUME NEW p \in answered PROVE Injection(1..n, Taken(p)) # {}
  <2>1. Taken(p) \in SUBSET Jobs BY DEF Taken, PageRecords
  <2>2. IsFiniteSet(Taken(p)) BY <2>1, LimitsAssumption, FS_Subset
  <2>3. Cardinality(Taken(p)) \in Nat /\ ExistsBijection(1..Cardinality(Taken(p)), Taken(p))
    BY <2>2, FS_CardinalityType
  <2>4. PICK g \in Bijection(1..Cardinality(Taken(p)), Taken(p)) : TRUE BY <2>3 DEF ExistsBijection
  <2>5. /\ g \in [1..Cardinality(Taken(p)) -> Taken(p)]
        /\ \A a, b \in 1..Cardinality(Taken(p)) : g[a] = g[b] => a = b
    BY <2>4 DEF Bijection, Injection, IsInjective
  <2>6. 1..n \subseteq 1..Cardinality(Taken(p)) BY <2>3
  <2>7. [i \in 1..n |-> g[i]] \in Injection(1..n, Taken(p)) BY <2>5, <2>6 DEF Injection, IsInjective
  <2> QED BY <2>7
<1> DEFINE g == [p \in answered |-> CHOOSE h \in Injection(1..n, Taken(p)) : TRUE]
           f == [x \in answered \X (1..n) |-> <<x[1], g[x[1]][x[2]]>>]
<1>2. \A p \in answered : g[p] \in Injection(1..n, Taken(p)) BY <1>1
<1> HIDE DEF g
<1>3. \A p \in answered : /\ g[p] \in [1..n -> Taken(p)]
                          /\ \A a, b \in 1..n : g[p][a] = g[p][b] => a = b
  BY <1>2 DEF Injection, IsInjective
<1>4. f \in [answered \X (1..n) -> ClaimedIn(answered)]
  <2> SUFFICES ASSUME NEW p \in answered, NEW i \in 1..n PROVE <<p, g[p][i]>> \in ClaimedIn(answered)
    OBVIOUS
  <2>1. g[p][i] \in Taken(p) BY <1>3
  <2>2. Taken(p) \subseteq Jobs BY DEF Taken, PageRecords
  <2> QED BY <2>1, <2>2 DEF Taken, ClaimedIn, DoneIn, FailedIn
<1>5. \A x, y \in answered \X (1..n) : f[x] = f[y] => x = y
  <2> SUFFICES ASSUME NEW p \in answered, NEW q \in answered, NEW i \in 1..n, NEW k \in 1..n,
                      <<p, g[p][i]>> = <<q, g[q][k]>>
               PROVE  p = q /\ i = k
    OBVIOUS
  <2>1. p = q /\ g[p][i] = g[q][k] OBVIOUS
  <2> QED BY <1>3, <2>1
<1>6. f \in Injection(answered \X (1..n), ClaimedIn(answered)) BY <1>4, <1>5 DEF Injection, IsInjective
<1> HIDE DEF f
<1>7. Cardinality(answered \X (1..n)) <= Cardinality(ClaimedIn(answered))
  BY <1>6, ReportsAreFinite, FS_Injection
<1>8. IsFiniteSet(1..n) /\ Cardinality(1..n) = n BY FS_Interval
<1>9. Cardinality(answered \X (1..n)) = Cardinality(answered) * n BY <1>8, ReportsAreFinite, FS_Product
<1> QED BY <1>7, <1>9

(***************************************************************************)
(* The report of an invocation: the inductive invariant.                   *)
(***************************************************************************)
Listed(p) == page[p].todo \cup Taken(p)
Answered == {p \in Mine : page[p].phase = "answered"}
Rejected == {p \in Mine : page[p].phase = "rejected"}

\* What was due at the start and was not found in the hands of others; what
\* it can have come to.
Owed == run.due \ run.blocked
Moved == run.completed > 0 \/ run.retried > 0
Handled(j) == evaluated[j] >= run.target[j] \/ evidence[j] > run.target[j] \/ run.retried > 0

WorkerRecords == [phase : {"idle", "sweep", "next", "wave", "compact"}, iteration : Nat, claimed : Nat,
                  completed : Nat, retried : Nat, cause : {"none", "limit", "drained", "error"},
                  status : {"none", "ok", "partial", "failed"}]
RunRecords == [due : SUBSET Jobs, target : [Jobs -> Nat], blocked : SUBSET Jobs, completed : Nat, retried : Nat]
Recorded == worker \in WorkerRecords /\ run \in RunRecords

\* Only a wave has calls open, as many as it makes; a page lists a row once.
PagesOfWave ==
    /\ \A p \in PageSlots :
           /\ page[p].phase \in {"called", "answered", "rejected"} => page[p].mine
           /\ page[p].phase = "free" => page[p] = NoPage
           /\ page[p].phase = "answered" => page[p].todo = {}
           /\ page[p].done \cap page[p].failed = {} /\ page[p].todo \cap Taken(p) = {}
    /\ worker.phase # "wave" => Mine = {}
    /\ worker.phase = "wave" => Cardinality(Mine) = Width

\* Rules and comparisons hold the rows they still have to evaluate; only
\* comparisons sweep, and what they sweep was completed.
ListedIsHeld ==
    \A p \in PageSlots : page[p].phase = "running" =>
        /\ kind # "m25" => page[p].todo \subseteq Holds(p)
        /\ page[p].swept # {} => kind = "m23"
        /\ \A j \in page[p].swept : row[j].state = "completed"

\* While no call was lost, what was tallied and what is answered is all that
\* was committed.
CountsAreTrue ==
    /\ worker.completed + Cardinality(DoneIn(Answered)) <= run.completed
    /\ worker.phase # "idle" /\ worker.status # "partial" /\ Rejected = {} =>
           /\ worker.completed + Cardinality(DoneIn(Answered)) = run.completed
           /\ worker.retried + Cardinality(FailedIn(Answered)) = run.retried
           /\ worker.claimed = worker.completed + worker.retried

\* What was due is due or was handled; where anything was due nobody else's
\* call was open.
DueIsHandled ==
    /\ \A j \in Jobs : run.target[j] <= evidence[j]
    /\ worker.phase # "idle" =>
           /\ run.due # {} => \A p \in PageSlots : page[p].mine \/ page[p].phase = "free"
           /\ \A j \in run.due : Due(j) \/ Handled(j)
           /\ kind = "m25" /\ run.due # {} =>
                  \A p \in Mine : page[p].phase = "running" => \A j \in page[p].todo : Due(j) \/ Moved

\* A page that found less than it may take saw everything that was due.
InHand(j) == \E q \in Mine : page[q].phase = "running" /\ j \in Listed(q)
ShortPageSawAll ==
    worker.phase = "wave" /\ Rejected = {} =>
        \A p \in Mine : page[p].phase \in {"running", "answered"} =>
            /\ kind # "m25" /\ Cardinality(Listed(p)) < Batch => \A j \in Owed : Handled(j) \/ InHand(j)
            /\ kind = "m25" /\ Listed(p) = {} => Moved \/ \A j \in Owed : Handled(j)

\* A drained queue has handled what was due.
DrainedIsHandled ==
    /\ worker.phase = "compact" /\ worker.cause = "drained" /\ worker.status # "partial" =>
           \A j \in Owed : Handled(j)
    /\ worker.phase = "idle" /\ worker.status = "ok" =>
           /\ run.retried = 0 /\ worker.completed = run.completed
           /\ worker.cause = "drained" => \A j \in Owed : Handled(j)

ReportInv == /\ Recorded /\ PagesOfWave /\ ListedIsHeld /\ CountsAreTrue
             /\ DueIsHandled /\ ShortPageSawAll /\ DrainedIsHandled

LEMMA ReportInitially == Init => ReportInv
<1> SUFFICES ASSUME Init PROVE ReportInv OBVIOUS
<1>1. /\ page = [p \in PageSlots |-> NoPage] /\ worker = Idle /\ evidence = [j \in Jobs |-> 0]
      /\ run = [due |-> {}, target |-> evidence, blocked |-> {}, completed |-> 0, retried |-> 0]
  BY DEF Init
<1>2. Mine = {} BY <1>1 DEF Mine, NoPage
<1>3. Answered = {} BY <1>2 DEF Answered
<1>4. DoneIn(Answered) = {} BY <1>3 DEF DoneIn
<1>5. Cardinality(DoneIn(Answered)) = 0 BY <1>4, FS_EmptySet
<1>6. Recorded BY <1>1 DEF Recorded, WorkerRecords, RunRecords, Idle
<1>7. PagesOfWave /\ ListedIsHeld BY <1>1, <1>2 DEF PagesOfWave, ListedIsHeld, NoPage, Idle, Taken
<1>8. CountsAreTrue BY <1>1, <1>5 DEF CountsAreTrue, Idle
<1>9. DueIsHandled /\ ShortPageSawAll /\ DrainedIsHandled
  BY <1>1 DEF DueIsHandled, ShortPageSawAll, DrainedIsHandled, Idle
<1> QED BY <1>6, <1>7, <1>8, <1>9 DEF ReportInv

\* What an invocation has come to is not taken back while it goes on.
Continues ==
    /\ run'.due = run.due /\ run'.target = run.target /\ run.blocked \subseteq run'.blocked
    /\ run'.completed >= run.completed /\ run'.retried >= run.retried
    /\ \A j \in Jobs : /\ evidence'[j] >= evidence[j]
                       /\ evaluated'[j] = evaluated[j] \/ evaluated'[j] = evidence'[j]

LEMMA HandledStays ==
  ASSUME QueueInv, QueueInv', ReportInv, Continues, run' \in RunRecords
  PROVE  /\ \A j \in Jobs : Handled(j) => Handled(j)'
         /\ \A j \in Jobs : run'.target[j] <= evidence'[j]
         /\ Moved => Moved'
         /\ Owed' \subseteq Owed
<1>1. run \in RunRecords /\ \A j \in Jobs : run.target[j] <= evidence[j]
  BY DEF ReportInv, Recorded, DueIsHandled
<1>2. /\ run.completed \in Nat /\ run.retried \in Nat /\ run'.completed \in Nat /\ run'.retried \in Nat
      /\ \A j \in Jobs : run.target[j] \in Nat
  BY <1>1 DEF RunRecords
<1>3. \A j \in Jobs : evidence[j] \in Nat /\ evaluated[j] \in Nat /\ evidence'[j] \in Nat /\ evaluated'[j] \in Nat
  BY DEF QueueInv, Rows
<1> QED BY <1>1, <1>2, <1>3 DEF Continues, Handled, Moved, Owed

\* Pages that answered report the same while they are left alone.
LEMMA ReportsStay ==
  ASSUME NEW p \in PageSlots, \A q \in PageSlots \ {p} : page'[q] = page[q],
         p \notin Answered, p \notin Answered'
  PROVE  /\ Answered' = Answered
         /\ DoneIn(Answered)' = DoneIn(Answered) /\ FailedIn(Answered)' = FailedIn(Answered)
<1>1. Answered' = Answered BY DEF Answered, Mine
<1>2. \A q \in Answered : page'[q] = page[q] BY DEF Answered, Mine
<1>3. DoneIn(Answered)' = {x \in Answered \X Jobs : x[2] \in page'[x[1]].done} BY <1>1 DEF DoneIn
<1>4. FailedIn(Answered)' = {x \in Answered \X Jobs : x[2] \in page'[x[1]].failed} BY <1>1 DEF FailedIn
<1> QED BY <1>1, <1>2, <1>3, <1>4 DEF DoneIn, FailedIn

\* The steps of writers touch no page, no call and no summary.
LEMMA WriterKeepsReport ==
  ASSUME QueueInv, QueueInv', ReportInv, NEW j \in Jobs, WriterLocks(j) \/ WriterCommits(j)
  PROVE  ReportInv'
<1>0. UNCHANGED <<kind, page, worker, run, evaluated>> BY DEF WriterLocks, WriterCommits
<1>q. /\ lock \in [Jobs -> PageSlots \cup {Free, Writer}] /\ RunningHolds
      /\ evidence \in [Jobs -> Nat] /\ row = [i \in Jobs |-> row[i]] /\ kind \in {"m22", "m23", "m25"}
  BY DEF QueueInv, Shape, Rows
<1>1. /\ \A i \in Jobs \ {j} : row'[i] = row[i] /\ evidence'[i] = evidence[i] /\ lock'[i] = lock[i]
      /\ lock[j] \notin PageSlots /\ evidence'[j] \in {evidence[j], evidence[j] + 1}
      /\ evidence'[j] = evidence[j] => row'[j] = row[j]
  BY <1>q, SlotsAreNoMarks DEF WriterLocks, WriterCommits
<1>2. \/ row'[j] = row[j] /\ evidence'[j] = evidence[j]
      \/ evidence'[j] = evidence[j] + 1 /\ row'[j] = Enqueued(row[j])
  BY <1>q DEF WriterLocks, WriterCommits
<1>3. Continues
  <2>1. \A i \in Jobs : evidence'[i] >= evidence[i] BY <1>1, <1>q
  <2>2. run.completed \in Nat /\ run.retried \in Nat BY DEF ReportInv, Recorded, RunRecords
  <2> QED BY <1>0, <2>1, <2>2 DEF Continues
<1>4. Recorded' BY <1>0 DEF ReportInv, Recorded
<1>5. /\ \A i \in Jobs : Handled(i) => Handled(i)'
      /\ \A i \in Jobs : run'.target[i] <= evidence'[i]
      /\ Moved' = Moved /\ Owed' = Owed
  BY <1>0, <1>3, <1>4, HandledStays DEF Recorded, Moved, Owed
<1>6. Mine' = Mine /\ Answered' = Answered /\ Rejected' = Rejected /\ Width' = Width /\ Batch' = Batch
      /\ \A p : Taken(p)' = Taken(p) /\ Listed(p)' = Listed(p)
  BY <1>0 DEF Mine, Answered, Rejected, Width, Batch, Taken, Listed
<1>7. PagesOfWave' BY <1>0, <1>6 DEF ReportInv, PagesOfWave
<1>8. ListedIsHeld'
  <2> SUFFICES ASSUME NEW p \in PageSlots, page[p].phase = "running"
               PROVE  /\ kind # "m25" => page[p].todo \subseteq Holds(p)'
                      /\ page[p].swept # {} => kind = "m23"
                      /\ \A i \in page[p].swept : row'[i].state = "completed"
    BY <1>0 DEF ListedIsHeld
  <2>1. Holds(p) \subseteq Holds(p)' BY <1>1 DEF Holds
  <2>2. \A i \in page[p].swept : i \in Jobs /\ i # j BY <1>1, <1>q DEF RunningHolds, Holds
  <2> QED BY <1>1, <2>1, <2>2 DEF ReportInv, ListedIsHeld
<1>9. CountsAreTrue'
  <2>1. DoneIn(Answered)' = DoneIn(Answered) /\ FailedIn(Answered)' = FailedIn(Answered)
    BY <1>0, <1>6 DEF DoneIn, FailedIn
  <2> QED BY <1>0, <1>6, <2>1 DEF ReportInv, CountsAreTrue
<1>10. \A i \in Jobs \ {j} : Due(i)' = Due(i) BY <1>1 DEF Due
<1>11. Due(j)' = Due(j) \/ (evidence'[j] = evidence[j] + 1 /\ (kind = "m25" => Due(j)'))
  <2>1. CASE row'[j] = row[j] BY <2>1 DEF Due
  <2>2. CASE evidence'[j] = evidence[j] + 1 /\ row'[j] = Enqueued(row[j]) /\ kind = "m25"
    <3>1. Enqueued(row[j]) = StatisticsEnqueued(row[j]) BY <2>2 DEF Enqueued
    <3>2. IsRow(row[j]) BY DEF QueueInv, Rows
    <3>3. row'[j].state = "pending" /\ row'[j].wait = 0 /\ row'[j].attempts = 0
      BY <2>2, <3>1, <3>2 DEF StatisticsEnqueued, FreshRow, IsRow
    <3> QED BY <2>2, <3>3, LimitsAssumption DEF Due
  <2> QED BY <1>2, <2>1, <2>2
<1>12. DueIsHandled'
  <2>1. run \in RunRecords /\ run.target[j] \in Nat /\ run.target[j] <= evidence[j] /\ evidence[j] \in Nat
    BY <1>q DEF ReportInv, Recorded, RunRecords, DueIsHandled
  <2>2. evidence'[j] = evidence[j] + 1 => Handled(j)' BY <1>0, <2>1 DEF Handled
  <2>3. worker.phase # "idle" => \A i \in run.due : Due(i)' \/ Handled(i)'
    BY <1>5, <1>10, <1>11, <2>1, <2>2 DEF ReportInv, DueIsHandled, RunRecords
  <2>4. \A p \in PageSlots : page[p].todo \subseteq Jobs BY DEF QueueInv, Shape, PageRecords
  <2>5. worker.phase # "idle" /\ kind = "m25" /\ run.due # {} =>
            \A p \in Mine : page[p].phase = "running" => \A i \in page[p].todo : Due(i)' \/ Moved
    BY <1>10, <1>11, <2>4 DEF ReportInv, DueIsHandled, Mine
  <2> QED BY <1>0, <1>5, <1>6, <2>3, <2>5 DEF ReportInv, DueIsHandled
<1>13. \A i : InHand(i)' = InHand(i) BY <1>0, <1>6 DEF InHand
<1>14. Owed \subseteq Jobs BY DEF ReportInv, Recorded, RunRecords, Owed
<1>15. ShortPageSawAll' BY <1>0, <1>5, <1>6, <1>13, <1>14 DEF ReportInv, ShortPageSawAll
<1>16. DrainedIsHandled' BY <1>0, <1>5, <1>14 DEF ReportInv, DrainedIsHandled
<1> QED BY <1>4, <1>7, <1>8, <1>9, <1>12, <1>15, <1>16 DEF ReportInv

\* A page that starts takes what it finds, up to its batch.
LEMMA PageStartsKeepsReport ==
  ASSUME QueueInv, QueueInv', ReportInv, NEW p \in PageSlots, PageStarts(p)
  PROVE  ReportInv'
<1>q. /\ lock \in [Jobs -> PageSlots \cup {Free, Writer}] /\ page \in [PageSlots -> PageRecords]
      /\ HeldIsListed /\ CalledIsEmpty /\ kind \in {"m22", "m23", "m25"}
  BY DEF QueueInv, Shape
<1>0. page[p].phase = "called" /\ UNCHANGED <<kind, row, evidence, evaluated, worker>> BY DEF PageStarts
<1>s. PICK swept \in SUBSET SweepCandidates :
        \E todo \in SUBSET Open(swept) :
          /\ Cardinality(todo) = Smaller(Batch, Cardinality(Open(swept)))
          /\ page' = [page EXCEPT ![p].phase = "running", ![p].todo = todo, ![p].swept = swept]
          /\ lock' = [j \in Jobs |-> IF j \in swept \/ (j \in todo /\ kind # "m25") THEN p ELSE lock[j]]
          /\ run' = [run EXCEPT !.blocked = @ \cup
                        {j \in Jobs : lock[j] # Free /\ ~ (lock[j] \in PageSlots /\ page[lock[j]].mine)}]
  BY DEF PageStarts
<1>1. PICK todo \in SUBSET Open(swept) :
        /\ Cardinality(todo) = Smaller(Batch, Cardinality(Open(swept)))
        /\ page' = [page EXCEPT ![p].phase = "running", ![p].todo = todo, ![p].swept = swept]
        /\ lock' = [j \in Jobs |-> IF j \in swept \/ (j \in todo /\ kind # "m25") THEN p ELSE lock[j]]
        /\ run' = [run EXCEPT !.blocked = @ \cup
                      {j \in Jobs : lock[j] # Free /\ ~ (lock[j] \in PageSlots /\ page[lock[j]].mine)}]
  BY <1>s
<1>2. p \in Mine /\ worker.phase = "wave" BY <1>0 DEF ReportInv, PagesOfWave, Mine
<1>3. /\ \A j \in swept : lock[j] = Free /\ row[j].state = "completed" /\ j \in Jobs
      /\ swept # {} => kind = "m23"
  BY DEF SweepCandidates
<1>4. /\ \A q \in PageSlots \ {p} : page'[q] = page[q]
      /\ page'[p].phase = "running" /\ page'[p].todo = todo /\ page'[p].swept = swept
      /\ page'[p].done = {} /\ page'[p].failed = {} /\ page'[p].mine = TRUE
  <2>1. page'[p] = [page[p] EXCEPT !.phase = "running", !.todo = todo, !.swept = swept] BY <1>1, <1>q
  <2>2. page[p] \in PageRecords /\ page[p].done = {} /\ page[p].failed = {} /\ page[p].mine = TRUE
    BY <1>0, <1>2, <1>q DEF CalledIsEmpty, Mine, PageRecords
  <2>3. \A q \in PageSlots \ {p} : page'[q] = page[q] BY <1>1, <1>q
  <2>4. DOMAIN page[p] = {"phase", "mine", "todo", "done", "failed", "swept"} BY <2>2 DEF PageRecords
  <2>5. /\ page'[p].phase = "running" /\ page'[p].todo = todo /\ page'[p].swept = swept
        /\ page'[p].done = page[p].done /\ page'[p].failed = page[p].failed /\ page'[p].mine = page[p].mine
    BY <2>1, <2>4
  <2> QED BY <2>2, <2>3, <2>5
<1>5. /\ run'.due = run.due /\ run'.target = run.target /\ run'.completed = run.completed /\ run'.retried = run.retried
      /\ run' \in RunRecords /\ Owed' \subseteq Owed
      /\ \A j \in Owed' : lock[j] = Free \/ (lock[j] \in PageSlots /\ lock[j] \in Mine)
  <2>1. run \in RunRecords BY DEF ReportInv, Recorded
  <2>2. run' = [run EXCEPT !.blocked = @ \cup
                   {j \in Jobs : lock[j] # Free /\ ~ (lock[j] \in PageSlots /\ page[lock[j]].mine)}]
    BY <1>1
  <2> QED BY <2>1, <2>2 DEF RunRecords, Owed, Mine
<1>6. Mine' = Mine /\ Rejected' = Rejected /\ Batch' = Batch /\ Width' = Width
  BY <1>0, <1>2, <1>4 DEF Mine, Rejected, Batch, Width
<1>7. /\ Taken(p)' = {} /\ Listed(p)' = todo
      /\ \A q \in PageSlots \ {p} : Taken(q)' = Taken(q) /\ Listed(q)' = Listed(q)
  BY <1>4 DEF Taken, Listed
<1>8. /\ \A j : Due(j)' = Due(j) /\ Handled(j)' = Handled(j)
      /\ Moved' = Moved
  BY <1>0, <1>5 DEF Due, Handled, Moved
<1>9. /\ Open(swept) \subseteq Jobs /\ IsFiniteSet(Open(swept)) /\ Cardinality(Open(swept)) \in Nat
      /\ Batch \in Nat \ {0}
      /\ (Cardinality(todo) < Batch => todo = Open(swept)) /\ (todo = {} => Open(swept) = {})
  <2>1. Open(swept) \subseteq Jobs BY DEF Open
  <2>2. IsFiniteSet(Open(swept)) /\ Cardinality(Open(swept)) \in Nat
    BY <2>1, LimitsAssumption, FS_Subset, FS_CardinalityType
  <2>3. Batch \in Nat \ {0} BY LimitsAssumption DEF Batch
  <2>4. Cardinality(todo) = IF Batch < Cardinality(Open(swept)) THEN Batch ELSE Cardinality(Open(swept))
    BY <1>1 DEF Smaller
  <2>5. Cardinality(Open(swept)) = Cardinality(todo) => todo = Open(swept) BY <2>2, FS_Subset
  <2>6. (todo = {} => Cardinality(todo) = 0) /\ (Cardinality(Open(swept)) = 0 => Open(swept) = {})
    BY <2>2, FS_EmptySet
  <2> QED BY <2>1, <2>2, <2>3, <2>4, <2>5, <2>6
<1>10. Recorded' /\ PagesOfWave'
  <2>1. Recorded' BY <1>0, <1>5 DEF ReportInv, Recorded
  <2>2. PagesOfWave'
    BY <1>0, <1>2, <1>4, <1>6, <1>7 DEF ReportInv, PagesOfWave
  <2> QED BY <2>1, <2>2
<1>11. ListedIsHeld'
  <2> SUFFICES ASSUME NEW q \in PageSlots, page'[q].phase = "running"
               PROVE  /\ kind # "m25" => page'[q].todo \subseteq Holds(q)'
                      /\ page'[q].swept # {} => kind = "m23"
                      /\ \A j \in page'[q].swept : row[j].state = "completed"
    BY <1>0 DEF ListedIsHeld
  <2>1. CASE q = p BY <1>1, <1>3, <1>4, <1>9, <2>1 DEF Holds
  <2>2. CASE q # p
    <3>1. \A j \in Jobs : lock'[j] = lock[j] \/ lock[j] = Free \/ kind = "m25"
      BY <1>1, <1>3 DEF Open
    <3>2. \A j \in Jobs : kind # "m25" /\ lock[j] = q => lock'[j] = q
      BY <3>1, SlotsAreNoMarks
    <3> QED BY <1>4, <2>2, <3>2 DEF ReportInv, ListedIsHeld, Holds
  <2> QED BY <2>1, <2>2
<1>12. CountsAreTrue'
  <2>1. p \notin Answered /\ p \notin Answered' BY <1>0, <1>4 DEF Answered
  <2>2. DoneIn(Answered)' = DoneIn(Answered) /\ FailedIn(Answered)' = FailedIn(Answered)
    BY <1>4, <2>1, ReportsStay
  <2> QED BY <1>0, <1>5, <1>6, <2>2 DEF ReportInv, CountsAreTrue
<1>13. DueIsHandled'
  <2>1. kind = "m25" => \A j \in todo : Due(j) BY <1>3 DEF Open
  <2>2. \A q \in PageSlots : page'[q].mine \/ page'[q].phase = "free" \/ run.due = {}
    BY <1>2, <1>4 DEF ReportInv, DueIsHandled
  <2>3. kind = "m25" /\ run.due # {} =>
            \A q \in Mine : page'[q].phase = "running" => \A j \in page'[q].todo : Due(j) \/ Moved
    BY <1>2, <1>4, <2>1 DEF ReportInv, DueIsHandled, Mine
  <2> QED BY <1>0, <1>2, <1>5, <1>6, <1>8, <2>2, <2>3 DEF ReportInv, DueIsHandled
<1>14. \A j : InHand(j) => InHand(j)'
  BY <1>0, <1>4, <1>6, <1>7 DEF InHand, Mine
<1>15. ShortPageSawAll'
  <2> SUFFICES ASSUME Rejected = {}, NEW q \in Mine, page'[q].phase \in {"running", "answered"}
               PROVE  /\ kind # "m25" /\ Cardinality(Listed(q)') < Batch => \A j \in Owed' : Handled(j) \/ InHand(j)'
                      /\ kind = "m25" /\ Listed(q)' = {} => Moved \/ \A j \in Owed' : Handled(j)
    BY <1>0, <1>6, <1>8 DEF ShortPageSawAll
  <2>1. CASE q # p
    BY <1>2, <1>4, <1>5, <1>7, <1>14, <2>1 DEF ReportInv, ShortPageSawAll, Mine
  <2>2. CASE q = p
    <3>1. ASSUME NEW j \in Owed' PROVE Due(j) \/ Handled(j)
      BY <1>2, <1>5, <3>1 DEF ReportInv, DueIsHandled, Owed
    <3>2. Owed' \subseteq Jobs BY <1>5 DEF RunRecords, Owed
    <3>3. ASSUME kind # "m25", Cardinality(todo) < Batch, NEW j \in Owed', Due(j) PROVE InHand(j)'
      <4>1. CASE lock[j] = Free
        <5>1. j \in todo BY <1>9, <3>2, <3>3, <4>1 DEF Open
        <5> QED BY <1>2, <1>4, <1>6, <1>7, <5>1 DEF InHand
      <4>2. CASE lock[j] \in PageSlots /\ lock[j] \in Mine
        <5>1. PICK h \in Mine : h \in PageSlots /\ lock[j] = h BY <4>2
        <5>2. page[h].phase = "running" /\ j \in page[h].todo \cup page[h].done \cup page[h].failed \cup page[h].swept
          BY <1>q, <3>2, <5>1 DEF HeldIsListed, Holds
        <5>3. j \notin page[h].swept BY <3>3, <5>1, <5>2 DEF ReportInv, ListedIsHeld, Due
        <5>4. InHand(j) BY <5>2, <5>3 DEF InHand, Listed, Taken
        <5> QED BY <1>14, <5>4
      <4> QED BY <1>5, <3>3, <4>1, <4>2
    <3>4. kind = "m25" /\ todo = {} => \A j \in Owed' : ~ Due(j) BY <1>9, <3>2 DEF Open
    <3> QED BY <1>7, <2>2, <3>1, <3>3, <3>4
  <2> QED BY <2>1, <2>2
<1>16. DrainedIsHandled' BY <1>0, <1>2 DEF DrainedIsHandled
<1> QED BY <1>10, <1>11, <1>12, <1>13, <1>15, <1>16 DEF ReportInv

\* What an evaluation changes: the row leaves the list of what is to do, and
\* is skipped, done or failed.
LEMMA EvaluationMoves ==
  ASSUME QueueInv, NEW p \in PageSlots, NEW j \in Jobs, PageEvaluates(p, j)
  PROVE  /\ page[p].phase = "running" /\ j \in page[p].todo /\ lock[j] \in {p, Free}
         /\ UNCHANGED <<kind, row, evidence, evaluated, worker, run>>
         /\ \A q \in PageSlots \ {p} : page'[q] = page[q]
         /\ page'[p].phase = "running" /\ page'[p].todo = page[p].todo \ {j}
         /\ page'[p].swept = page[p].swept /\ page'[p].mine = page[p].mine
         /\ \A i \in Jobs \ {j} : lock'[i] = lock[i]
         /\ \/ /\ lock'[j] = lock[j] /\ lock[j] = Free /\ ~ Due(j)
               /\ page'[p].done = page[p].done /\ page'[p].failed = page[p].failed
            \/ /\ lock'[j] = p
               /\ \/ page'[p].done = page[p].done \cup {j} /\ page'[p].failed = page[p].failed
                  \/ page'[p].done = page[p].done /\ page'[p].failed = page[p].failed \cup {j}
<1>1. /\ page[p].phase = "running" /\ j \in page[p].todo /\ lock[j] \in {p, Free}
      /\ UNCHANGED <<kind, row, evidence, evaluated, worker, run>>
  BY DEF PageEvaluates
<1>2. /\ page \in [PageSlots -> PageRecords] /\ lock \in [Jobs -> PageSlots \cup {Free, Writer}]
  BY DEF QueueInv, Shape
<1>3. DOMAIN page[p] = {"phase", "mine", "todo", "done", "failed", "swept"} BY <1>2 DEF PageRecords
<1>4. CASE lock[j] = Free /\ ~ Due(j) /\ lock' = lock /\ page' = [page EXCEPT ![p].todo = @ \ {j}]
  <2>1. page'[p] = [page[p] EXCEPT !.todo = @ \ {j}] /\ \A q \in PageSlots \ {p} : page'[q] = page[q]
    BY <1>2, <1>4
  <2> QED BY <1>1, <1>3, <1>4, <2>1
<1>5. CASE lock' = [lock EXCEPT ![j] = p] /\ page' = [page EXCEPT ![p].todo = @ \ {j}, ![p].done = @ \cup {j}]
  <2>1. page'[p] = [page[p] EXCEPT !.todo = @ \ {j}, !.done = @ \cup {j}] /\ \A q \in PageSlots \ {p} : page'[q] = page[q]
    BY <1>2, <1>5
  <2>2. lock'[j] = p /\ \A i \in Jobs \ {j} : lock'[i] = lock[i] BY <1>2, <1>5
  <2> QED BY <1>1, <1>3, <2>1, <2>2
<1>6. CASE lock' = [lock EXCEPT ![j] = p] /\ page' = [page EXCEPT ![p].todo = @ \ {j}, ![p].failed = @ \cup {j}]
  <2>1. page'[p] = [page[p] EXCEPT !.todo = @ \ {j}, !.failed = @ \cup {j}] /\ \A q \in PageSlots \ {p} : page'[q] = page[q]
    BY <1>2, <1>6
  <2>2. lock'[j] = p /\ \A i \in Jobs \ {j} : lock'[i] = lock[i] BY <1>2, <1>6
  <2> QED BY <1>1, <1>3, <2>1, <2>2
<1> QED BY <1>4, <1>5, <1>6 DEF PageEvaluates

\* An evaluation takes nothing off the list but a statistics row that is no
\* longer due: it was handled, or nothing was due when the invocation began.
LEMMA PageEvaluatesKeepsReport ==
  ASSUME QueueInv, QueueInv', ReportInv, NEW p \in PageSlots, NEW j \in Jobs, PageEvaluates(p, j)
  PROVE  ReportInv'
<1>1. /\ page[p].phase = "running" /\ j \in page[p].todo /\ lock[j] \in {p, Free}
      /\ UNCHANGED <<kind, row, evidence, evaluated, worker, run>>
      /\ \A q \in PageSlots \ {p} : page'[q] = page[q]
      /\ page'[p].phase = "running" /\ page'[p].todo = page[p].todo \ {j}
      /\ page'[p].swept = page[p].swept /\ page'[p].mine = page[p].mine
      /\ \A i \in Jobs \ {j} : lock'[i] = lock[i]
  BY EvaluationMoves
<1>2. \/ /\ lock'[j] = lock[j] /\ lock[j] = Free /\ ~ Due(j)
         /\ page'[p].done = page[p].done /\ page'[p].failed = page[p].failed
      \/ /\ lock'[j] = p
         /\ \/ page'[p].done = page[p].done \cup {j} /\ page'[p].failed = page[p].failed
            \/ page'[p].done = page[p].done /\ page'[p].failed = page[p].failed \cup {j}
  BY EvaluationMoves
<1>3. /\ Mine' = Mine /\ Answered' = Answered /\ Rejected' = Rejected /\ Batch' = Batch /\ Width' = Width
      /\ p \notin Answered /\ p \notin Answered'
  BY <1>1 DEF Mine, Answered, Rejected, Batch, Width
<1>4. /\ \A i : Due(i)' = Due(i) /\ Handled(i)' = Handled(i)
      /\ Moved' = Moved /\ Owed' = Owed
  BY <1>1 DEF Due, Handled, Moved, Owed
<1>5. kind # "m25" => lock[j] = p
  BY <1>1 DEF ReportInv, ListedIsHeld, Holds
<1>6. /\ \A q \in PageSlots \ {p} : Listed(q)' = Listed(q) /\ Taken(q)' = Taken(q)
      /\ Listed(p)' = Listed(p) \/ (kind = "m25" /\ ~ Due(j))
  <2>1. p # Free BY SlotsAreNoMarks
  <2>2. page'[p].todo \cup page'[p].done \cup page'[p].failed = page[p].todo \cup page[p].done \cup page[p].failed
        \/ (kind = "m25" /\ ~ Due(j))
    BY <1>1, <1>2, <1>5, <2>1
  <2> QED BY <1>1, <2>2 DEF Listed, Taken
<1>7. Recorded' BY <1>1 DEF ReportInv, Recorded
<1>8. PagesOfWave'
  <2>1. page[p].done \cap page[p].failed = {} /\ page[p].todo \cap (page[p].done \cup page[p].failed) = {}
    BY DEF ReportInv, PagesOfWave, Taken
  <2>2. page'[p].done \cap page'[p].failed = {} /\ page'[p].todo \cap (page'[p].done \cup page'[p].failed) = {}
    BY <1>1, <1>2, <2>1
  <2>3. \A q \in PageSlots \ {p} :
           /\ page'[q].phase \in {"called", "answered", "rejected"} => page'[q].mine
           /\ page'[q].phase = "free" => page'[q] = NoPage
           /\ page'[q].phase = "answered" => page'[q].todo = {}
           /\ page'[q].done \cap page'[q].failed = {} /\ page'[q].todo \cap (page'[q].done \cup page'[q].failed) = {}
    BY <1>1 DEF ReportInv, PagesOfWave, Taken
  <2>4. (worker'.phase # "wave" => Mine' = {}) /\ (worker'.phase = "wave" => Cardinality(Mine') = Width')
    BY <1>1, <1>3 DEF ReportInv, PagesOfWave
  <2> QED BY <1>1, <2>2, <2>3, <2>4 DEF PagesOfWave, Taken
<1>9. ListedIsHeld'
  <2> SUFFICES ASSUME NEW q \in PageSlots, page'[q].phase = "running"
               PROVE  /\ kind # "m25" => page'[q].todo \subseteq Holds(q)'
                      /\ page'[q].swept # {} => kind = "m23"
                      /\ \A i \in page'[q].swept : row[i].state = "completed"
    BY <1>1 DEF ListedIsHeld
  <2>1. page[q].phase = "running" /\ page'[q].swept = page[q].swept /\ page'[q].todo \subseteq page[q].todo
    BY <1>1
  <2>2. kind # "m25" => Holds(q) \subseteq Holds(q)'
    <3>1. kind # "m25" => lock'[j] = p BY <1>2, <1>5, SlotsAreNoMarks
    <3> QED BY <1>1, <1>5, <3>1 DEF Holds
  <2> QED BY <2>1, <2>2 DEF ReportInv, ListedIsHeld
<1>10. CountsAreTrue'
  <2>1. DoneIn(Answered)' = DoneIn(Answered) /\ FailedIn(Answered)' = FailedIn(Answered)
    BY <1>1, <1>3, ReportsStay
  <2> QED BY <1>1, <1>3, <2>1 DEF ReportInv, CountsAreTrue
<1>11. DueIsHandled'
  <2>1. \A q \in PageSlots : (page[q].mine \/ page[q].phase = "free") => (page'[q].mine \/ page'[q].phase = "free")
    BY <1>1
  <2>2. \A q \in PageSlots : (page'[q].phase = "running" => page[q].phase = "running") /\ page'[q].todo \subseteq page[q].todo
    BY <1>1
  <2>3. Mine \subseteq PageSlots BY DEF Mine
  <2> QED BY <1>1, <1>3, <1>4, <2>1, <2>2, <2>3 DEF ReportInv, DueIsHandled
<1>12. kind # "m25" => \A i : InHand(i) => InHand(i)'
  <2>1. \A q \in Mine : page'[q].phase = page[q].phase BY <1>1 DEF Mine
  <2>2. kind # "m25" => \A q \in Mine : Listed(q)' = Listed(q) BY <1>6 DEF Mine
  <2> QED BY <1>3, <2>1, <2>2 DEF InHand
<1>13. ShortPageSawAll'
  <2> SUFFICES ASSUME worker.phase = "wave", Rejected = {}, NEW q \in Mine, page'[q].phase \in {"running", "answered"}
               PROVE  /\ kind # "m25" /\ Cardinality(Listed(q)') < Batch => \A i \in Owed : Handled(i) \/ InHand(i)'
                      /\ kind = "m25" /\ Listed(q)' = {} => Moved \/ \A i \in Owed : Handled(i)
    BY <1>1, <1>3, <1>4 DEF ShortPageSawAll
  <2>1. page[q].phase \in {"running", "answered"} BY <1>1 DEF Mine
  <2>2. CASE Listed(q)' = Listed(q)
    BY <1>12, <2>1, <2>2 DEF ReportInv, ShortPageSawAll
  <2>3. CASE q = p /\ kind = "m25" /\ ~ Due(j)
    <3>1. run.due = {} \/ Moved BY <1>1, <2>3 DEF ReportInv, DueIsHandled
    <3> QED BY <2>3, <3>1 DEF Owed
  <2> QED BY <1>6, <2>2, <2>3 DEF Mine
<1>14. DrainedIsHandled' BY <1>1, <1>4 DEF ReportInv, DrainedIsHandled
<1> QED BY <1>7, <1>8, <1>9, <1>10, <1>11, <1>13, <1>14 DEF ReportInv

\* A page that is undone was a call of this wave, which is then rejected, or
\* one of an invocation that gave up.
LEMMA RolledBackKeepsReport ==
  ASSUME QueueInv, QueueInv', ReportInv, NEW p \in PageSlots, page[p].phase = "running", RolledBack(p),
         UNCHANGED <<kind, row, evidence, evaluated, worker, run>>
  PROVE  ReportInv'
<1>q. page \in [PageSlots -> PageRecords] BY DEF QueueInv, Shape
<1>1. /\ \A q \in PageSlots \ {p} : page'[q] = page[q]
      /\ \A q \in PageSlots \ {p} : Holds(q)' = Holds(q)
      /\ page'[p].phase # "running" /\ page'[p].phase # "answered" /\ page'[p].phase # "called"
      /\ page'[p].mine = page[p].mine /\ page'[p].done = {} /\ page'[p].failed = {} /\ page'[p].todo = {}
      /\ page[p].mine => page'[p].phase = "rejected"
      /\ ~ page[p].mine => page'[p] = NoPage
  <2>1. /\ page' = [page EXCEPT ![p] = IF page[p].mine THEN [NoPage EXCEPT !.phase = "rejected", !.mine = TRUE] ELSE NoPage]
        /\ \A i \in Jobs : lock'[i] = IF lock[i] = p THEN Free ELSE lock[i]
    BY DEF RolledBack, Released
  <2>2. page[p].mine \in BOOLEAN BY <1>q DEF PageRecords
  <2>3. \A q \in PageSlots \ {p} : Holds(q)' = Holds(q) BY <2>1, SlotsAreNoMarks DEF Holds
  <2>4. page'[p] = IF page[p].mine THEN [NoPage EXCEPT !.phase = "rejected", !.mine = TRUE] ELSE NoPage
    BY <1>q, <2>1
  <2> QED BY <1>q, <2>1, <2>2, <2>3, <2>4 DEF NoPage
<1>2. /\ Mine' = Mine /\ Answered' = Answered /\ Batch' = Batch /\ Width' = Width
      /\ p \notin Answered /\ p \notin Answered'
      /\ (Rejected' = Rejected \/ Rejected' # {}) /\ (page[p].mine => Rejected' # {})
  BY <1>1 DEF Mine, Answered, Rejected, Batch, Width
<1>3. /\ \A i : Due(i)' = Due(i) /\ Handled(i)' = Handled(i)
      /\ Moved' = Moved /\ Owed' = Owed
  BY DEF Due, Handled, Moved, Owed
<1>4. Recorded' BY DEF ReportInv, Recorded
<1>5. PagesOfWave'
  <2>1. NoPage.phase = "free" BY DEF NoPage
  <2> QED BY <1>1, <1>2, <2>1 DEF ReportInv, PagesOfWave, Taken
<1>6. ListedIsHeld' BY <1>1 DEF ReportInv, ListedIsHeld
<1>7. CountsAreTrue'
  <2>1. DoneIn(Answered)' = DoneIn(Answered) /\ FailedIn(Answered)' = FailedIn(Answered)
    BY <1>1, <1>2, ReportsStay
  <2>2. Rejected' = {} => Rejected = {} BY <1>1, <1>2 DEF Rejected, Mine
  <2> QED BY <1>2, <2>1, <2>2 DEF ReportInv, CountsAreTrue
<1>8. DueIsHandled'
  <2>1. \A q \in PageSlots : (page[q].mine \/ page[q].phase = "free") => (page'[q].mine \/ page'[q].phase = "free")
    BY <1>1 DEF NoPage
  <2>2. \A q \in PageSlots : page'[q].phase = "running" => page'[q] = page[q] BY <1>1
  <2> QED BY <1>2, <1>3, <2>1, <2>2 DEF ReportInv, DueIsHandled, Mine
<1>9. ShortPageSawAll'
  <2>1. CASE page[p].mine
    <3>1. Rejected' # {} BY <1>1, <1>2, <2>1 DEF Rejected, Mine
    <3> QED BY <3>1 DEF ShortPageSawAll
  <2>2. CASE ~ page[p].mine
    <3>1. \A q \in Mine : page'[q] = page[q] BY <1>1, <2>2 DEF Mine
    <3>2. \A q \in Mine : Listed(q)' = Listed(q) BY <3>1 DEF Listed, Taken
    <3>3. \A i : InHand(i)' = InHand(i) BY <1>2, <3>1, <3>2 DEF InHand
    <3>4. Rejected' = Rejected BY <1>2, <3>1 DEF Rejected
    <3> QED BY <1>2, <1>3, <3>1, <3>2, <3>3, <3>4 DEF ReportInv, ShortPageSawAll
  <2> QED BY <2>1, <2>2
<1>10. DrainedIsHandled' BY <1>3 DEF ReportInv, DrainedIsHandled
<1> QED BY <1>4, <1>5, <1>6, <1>7, <1>8, <1>9, <1>10 DEF ReportInv

\* What a commit changes, and whom it tells.
LEMMA CommitMoves ==
  ASSUME QueueInv, NEW p \in PageSlots, PageCommits(p)
  PROVE  /\ page[p].phase = "running" /\ page[p].todo = {} /\ UNCHANGED <<kind, worker>>
         /\ \A q \in PageSlots \ {p} : page'[q] = page[q] /\ Holds(q)' = Holds(q)
         /\ \A j \in Jobs : /\ j \in page[p].swept => evidence'[j] = evidence[j] + 1
                            /\ j \notin page[p].swept => evidence'[j] = evidence[j]
                            /\ j \in page[p].done => evaluated'[j] = evidence'[j]
                            /\ j \notin page[p].done => evaluated'[j] = evaluated[j]
                            /\ lock[j] # p => row'[j] = row[j]
         /\ \/ /\ page[p].mine /\ page'[p].mine /\ page'[p].phase \in {"answered", "rejected"}
               /\ page'[p].todo = {} /\ page'[p].done = page[p].done /\ page'[p].failed = page[p].failed
               /\ run' = [run EXCEPT !.completed = @ + Cardinality(page[p].done),
                                     !.retried = @ + Cardinality(page[p].failed)]
            \/ ~ page[p].mine /\ page'[p] = NoPage /\ run' = run
<1>q. /\ page \in [PageSlots -> PageRecords] /\ RunningHolds
  BY DEF QueueInv, Shape
<1>1. /\ page[p].phase = "running" /\ page[p].todo = {} /\ UNCHANGED <<kind, worker>>
      /\ evidence' = [j \in Jobs |-> IF j \in page[p].swept THEN evidence[j] + 1 ELSE evidence[j]]
      /\ evaluated' = [j \in Jobs |-> IF j \in page[p].done THEN evidence'[j] ELSE evaluated[j]]
      /\ lock' = Released(p)
      /\ run' = IF page[p].mine
                THEN [run EXCEPT !.completed = @ + Cardinality(page[p].done),
                                 !.retried = @ + Cardinality(page[p].failed)]
                ELSE run
      /\ \/ page' = [page EXCEPT ![p] = IF @.mine THEN [@ EXCEPT !.phase = "answered"] ELSE NoPage]
         \/ page[p].mine /\ page' = [page EXCEPT ![p].phase = "rejected"]
  BY DEF PageCommits
<1>2. \A j \in Jobs : lock[j] # p => row'[j] = row[j]
  <2>1. PICK provisional :
          row' = [j \in Jobs |->
             LET claimed == IF j \in page[p].swept THEN Swept(row[j]) ELSE row[j] IN
               IF j \in page[p].done
               THEN [CompletedRow(claimed) EXCEPT !.provisional = j \in provisional]
               ELSE IF j \in page[p].failed THEN RetriedRow(claimed) ELSE claimed]
    BY Zenon DEF PageCommits
  <2>2. \A j \in page[p].done \cup page[p].failed \cup page[p].swept : lock[j] = p
    BY <1>1, <1>q DEF RunningHolds, Holds
  <2> QED BY <2>1, <2>2
<1>3. \A q \in PageSlots \ {p} : Holds(q)' = Holds(q)
  BY <1>1, SlotsAreNoMarks DEF Holds, Released
<1>4. \A q \in PageSlots \ {p} : page'[q] = page[q] BY <1>1, <1>q
<1>5. page[p].mine \in BOOLEAN /\ DOMAIN page[p] = {"phase", "mine", "todo", "done", "failed", "swept"}
  BY <1>q DEF PageRecords
<1>6. \/ page[p].mine /\ page'[p] = [page[p] EXCEPT !.phase = "answered"]
      \/ page[p].mine /\ page'[p] = [page[p] EXCEPT !.phase = "rejected"]
      \/ ~ page[p].mine /\ page'[p] = NoPage
  BY <1>1, <1>q, <1>5
<1>7. page[p].mine =>
        /\ page'[p].mine /\ page'[p].phase \in {"answered", "rejected"}
        /\ page'[p].todo = {} /\ page'[p].done = page[p].done /\ page'[p].failed = page[p].failed
  BY <1>1, <1>5, <1>6
<1>8. ~ page[p].mine => page'[p] = NoPage BY <1>6
<1> QED BY <1>1, <1>2, <1>3, <1>4, <1>5, <1>7, <1>8

\* A committed page handled what it listed; its caller is told, or loses the
\* answer and with it the right to say "ok".
LEMMA PageCommitsKeepsReport ==
  ASSUME QueueInv, QueueInv', ReportInv, NEW p \in PageSlots, PageCommits(p)
  PROVE  ReportInv'
<1>q. /\ page \in [PageSlots -> PageRecords] /\ RunningHolds /\ HeldIsListed
      /\ \A j \in Jobs : evidence[j] \in Nat /\ evaluated[j] \in Nat
      /\ run \in RunRecords /\ worker \in WorkerRecords
  BY DEF QueueInv, Shape, Rows, ReportInv, Recorded
<1> DEFINE done == page[p].done failed == page[p].failed swept == page[p].swept
<1>1. /\ page[p].phase = "running" /\ page[p].todo = {} /\ UNCHANGED <<kind, worker>>
      /\ \A r \in PageSlots \ {p} : page'[r] = page[r] /\ Holds(r)' = Holds(r)
      /\ \A j \in Jobs : /\ j \in swept => evidence'[j] = evidence[j] + 1
                         /\ j \notin swept => evidence'[j] = evidence[j]
                         /\ j \in done => evaluated'[j] = evidence'[j]
                         /\ j \notin done => evaluated'[j] = evaluated[j]
                         /\ lock[j] # p => row'[j] = row[j]
  BY CommitMoves
<1>2. \/ /\ page[p].mine /\ page'[p].mine /\ page'[p].phase \in {"answered", "rejected"}
         /\ page'[p].todo = {} /\ page'[p].done = done /\ page'[p].failed = failed
         /\ run' = [run EXCEPT !.completed = @ + Cardinality(done), !.retried = @ + Cardinality(failed)]
      \/ ~ page[p].mine /\ page'[p] = NoPage /\ run' = run
  BY CommitMoves
<1>3. /\ done \subseteq Jobs /\ failed \subseteq Jobs /\ Cardinality(done) \in Nat /\ Cardinality(failed) \in Nat
      /\ done # {} => Cardinality(done) > 0
      /\ failed # {} => Cardinality(failed) > 0
  <2>1. done \subseteq Jobs /\ failed \subseteq Jobs BY <1>q DEF PageRecords
  <2>2. IsFiniteSet(done) /\ IsFiniteSet(failed) BY <2>1, LimitsAssumption, FS_Subset
  <2> QED BY <2>1, <2>2, FS_EmptySet, FS_CardinalityType
<1>4. /\ run' \in RunRecords /\ run'.due = run.due /\ run'.target = run.target /\ run'.blocked = run.blocked
      /\ page[p].mine => /\ run'.completed = run.completed + Cardinality(done)
                         /\ run'.retried = run.retried + Cardinality(failed)
      /\ ~ page[p].mine => run' = run
      /\ run.completed \in Nat /\ run.retried \in Nat
      /\ \A j \in Jobs : run.target[j] \in Nat
      /\ run.due \subseteq Jobs
  <2> HIDE DEF done, failed
  <2>1. /\ DOMAIN run = {"due", "target", "blocked", "completed", "retried"}
        /\ run.completed \in Nat /\ run.retried \in Nat /\ run.due \subseteq Jobs
        /\ \A j \in Jobs : run.target[j] \in Nat
    BY <1>q DEF RunRecords
  <2>2. run.completed + Cardinality(done) \in Nat /\ run.retried + Cardinality(failed) \in Nat BY <1>3, <2>1
  <2>3. CASE run' = [run EXCEPT !.completed = @ + Cardinality(done), !.retried = @ + Cardinality(failed)] /\ page[p].mine
    <3>1. run' \in RunRecords BY <1>q, <2>2, <2>3 DEF RunRecords
    <3> QED BY <2>1, <2>3, <3>1
  <2>4. CASE ~ page[p].mine /\ run' = run BY <1>q, <2>1, <2>4
  <2> QED BY <1>2, <2>3, <2>4
<1> HIDE DEF done, failed, swept
<1>5. Continues
  <2>1. \A j \in Jobs : evidence'[j] >= evidence[j] /\ (evaluated'[j] = evaluated[j] \/ evaluated'[j] = evidence'[j])
    BY <1>1, <1>q
  <2>2. run'.completed >= run.completed /\ run'.retried >= run.retried BY <1>3, <1>4
  <2> QED BY <1>4, <2>1, <2>2 DEF Continues
<1>6. /\ \A j \in Jobs : Handled(j) => Handled(j)'
      /\ \A j \in Jobs : run'.target[j] <= evidence'[j]
      /\ Moved => Moved'
      /\ Owed' \subseteq Owed /\ Owed \subseteq Jobs
  BY <1>4, <1>5, HandledStays DEF Owed
<1>7. Mine' = Mine /\ Batch' = Batch /\ Width' = Width /\ Owed' = Owed
  BY <1>1, <1>2, <1>4 DEF Mine, Batch, Width, NoPage, Owed
<1>8. \/ page[p].mine /\ p \in Mine /\ Answered' = Answered \cup {p} /\ Rejected' = Rejected
      \/ page[p].mine /\ p \in Mine /\ Answered' = Answered /\ Rejected' # {}
      \/ ~ page[p].mine /\ p \notin Mine /\ Answered' = Answered /\ Rejected' = Rejected
  BY <1>1, <1>2, <1>7 DEF Mine, Answered, Rejected
<1>9. Recorded' BY <1>1, <1>4, <1>q DEF Recorded
<1>10. worker.phase # "wave" => run' = run
  BY <1>4 DEF ReportInv, PagesOfWave, Mine
<1>11. PagesOfWave'
  <2>1. /\ page'[p].phase \in {"called", "answered", "rejected"} => page'[p].mine
        /\ page'[p].phase = "free" => page'[p] = NoPage
        /\ page'[p].phase = "answered" => page'[p].todo = {}
        /\ page'[p].done \cap page'[p].failed = {} /\ page'[p].todo \cap (page'[p].done \cup page'[p].failed) = {}
    <3>1. done \cap failed = {} BY DEF ReportInv, PagesOfWave, done, failed
    <3>2. NoPage.phase = "free" /\ NoPage.todo = {} /\ NoPage.done = {} /\ NoPage.failed = {} BY DEF NoPage
    <3> QED BY <1>2, <3>1, <3>2
  <2>2. \A r \in PageSlots \ {p} :
           /\ page'[r].phase \in {"called", "answered", "rejected"} => page'[r].mine
           /\ page'[r].phase = "free" => page'[r] = NoPage
           /\ page'[r].phase = "answered" => page'[r].todo = {}
           /\ page'[r].done \cap page'[r].failed = {} /\ page'[r].todo \cap (page'[r].done \cup page'[r].failed) = {}
    BY <1>1 DEF ReportInv, PagesOfWave, Taken
  <2>3. (worker'.phase # "wave" => Mine' = {}) /\ (worker'.phase = "wave" => Cardinality(Mine') = Width')
    BY <1>1, <1>7 DEF ReportInv, PagesOfWave
  <2> QED BY <2>1, <2>2, <2>3 DEF PagesOfWave, Taken
<1>12. ListedIsHeld'
  <2> SUFFICES ASSUME NEW r \in PageSlots, page'[r].phase = "running"
               PROVE  /\ kind # "m25" => page'[r].todo \subseteq Holds(r)'
                      /\ page'[r].swept # {} => kind = "m23"
                      /\ \A j \in page'[r].swept : row'[j].state = "completed"
    BY <1>1 DEF ListedIsHeld
  <2>1. r # p BY <1>2 DEF NoPage
  <2>2. page'[r] = page[r] /\ Holds(r)' = Holds(r) BY <1>1, <2>1
  <2>3. \A j \in page[r].swept : j \in Jobs /\ lock[j] # p BY <1>q, <2>1, <2>2 DEF RunningHolds, Holds
  <2> QED BY <1>1, <2>2, <2>3 DEF ReportInv, ListedIsHeld
<1>13. CountsAreTrue'
  <2>a. Answered \subseteq PageSlots /\ p \notin Answered BY <1>1 DEF Answered, Mine
  <2>1. CASE page[p].mine /\ Answered' = Answered \cup {p} /\ Rejected' = Rejected
    <3>1. \A r \in Answered \cup {p} : page'[r].done = page[r].done /\ page'[r].failed = page[r].failed
      BY <1>1, <1>2, <2>1, <2>a DEF done, failed
    <3>2. DoneIn(Answered)' = DoneIn(Answered \cup {p}) /\ FailedIn(Answered)' = FailedIn(Answered \cup {p})
      <4>1. DoneIn(Answered)' = {x \in (Answered \cup {p}) \X Jobs : x[2] \in page'[x[1]].done}
            /\ FailedIn(Answered)' = {x \in (Answered \cup {p}) \X Jobs : x[2] \in page'[x[1]].failed}
        BY <2>1 DEF DoneIn, FailedIn
      <4> QED BY <3>1, <4>1 DEF DoneIn, FailedIn
    <3>3. /\ Cardinality(DoneIn(Answered \cup {p})) = Cardinality(DoneIn(Answered)) + Cardinality(done)
          /\ Cardinality(FailedIn(Answered \cup {p})) = Cardinality(FailedIn(Answered)) + Cardinality(failed)
      BY <1>q, <2>a, OnePageMore DEF done, failed
    <3>4. Cardinality(DoneIn(Answered)) \in Nat /\ Cardinality(FailedIn(Answered)) \in Nat
      BY <2>a, ReportsAreFinite
    <3>5. worker.completed \in Nat /\ worker.retried \in Nat BY <1>q DEF WorkerRecords
    <3> QED BY <1>1, <1>3, <1>4, <2>1, <3>2, <3>3, <3>4, <3>5 DEF ReportInv, CountsAreTrue
  <2>2. CASE Answered' = Answered /\ (Rejected' # {} \/ (Rejected' = Rejected /\ ~ page[p].mine))
    <3>1. DoneIn(Answered)' = DoneIn(Answered) /\ FailedIn(Answered)' = FailedIn(Answered)
      BY <1>1, <2>2, <2>a, ReportsStay
    <3>2. Cardinality(DoneIn(Answered)) \in Nat /\ worker.completed \in Nat
      BY <1>q, <2>a, ReportsAreFinite DEF WorkerRecords
    <3>3. run'.completed >= run.completed /\ run'.completed \in Nat BY <1>3, <1>4
    <3> QED BY <1>1, <1>4, <2>2, <3>1, <3>2, <3>3 DEF ReportInv, CountsAreTrue
  <2> QED BY <1>8, <2>1, <2>2
<1>14. \A j \in Jobs : lock[j] = p => j \in done \cup failed \cup swept
  BY <1>1, <1>q DEF HeldIsListed, Holds, done, failed, swept
<1>15. \A j \in Jobs : (lock[j] # p => Due(j)' = Due(j))
  BY <1>1 DEF Due
<1>16. page[p].mine => \A j \in Jobs \cap (done \cup failed \cup swept) : Handled(j)'
  <2>1. \A j \in Jobs \cap done : evaluated'[j] >= run'.target[j]
    BY <1>1, <1>4, <1>6
  <2>2. \A j \in Jobs \cap swept : evidence'[j] > run'.target[j]
    <3>1. \A j \in Jobs \cap swept : evidence'[j] = evidence[j] + 1 /\ run.target[j] <= evidence[j]
      BY <1>1 DEF ReportInv, DueIsHandled
    <3> QED BY <1>4, <1>q, <3>1
  <2>3. page[p].mine /\ failed # {} => run'.retried > 0 BY <1>3, <1>4
  <2> QED BY <2>1, <2>2, <2>3 DEF Handled
<1>17. worker.phase # "idle" => page[p].mine \/ run.due = {}
  BY <1>1 DEF ReportInv, DueIsHandled
<1>18. DueIsHandled'
  <2>1. worker.phase # "idle" => \A j \in run.due : Due(j)' \/ Handled(j)'
    <3> SUFFICES ASSUME worker.phase # "idle", NEW j \in run.due PROVE Due(j)' \/ Handled(j)' OBVIOUS
    <3>1. j \in Jobs /\ page[p].mine /\ (Due(j) \/ Handled(j)) BY <1>4, <1>17 DEF ReportInv, DueIsHandled
    <3>2. CASE lock[j] = p BY <1>14, <1>16, <3>1, <3>2
    <3>3. CASE lock[j] # p BY <1>6, <1>15, <3>1, <3>3
    <3> QED BY <3>2, <3>3
  <2>2. \A r \in PageSlots : (page[r].mine \/ page[r].phase = "free") => (page'[r].mine \/ page'[r].phase = "free")
    BY <1>1, <1>2
  <2>3. ASSUME worker.phase # "idle", kind = "m25", run.due # {}, NEW r \in Mine, page'[r].phase = "running",
               NEW j \in page'[r].todo
        PROVE  Due(j)' \/ Moved'
    <3>1. r \in PageSlots /\ r # p BY <1>2, <2>3 DEF Mine, NoPage
    <3>2. page[r].phase = "running" /\ j \in page[r].todo BY <1>1, <2>3, <3>1
    <3>3. Due(j) \/ Moved BY <2>3, <3>2 DEF ReportInv, DueIsHandled
    <3>4. j \in Jobs BY <1>q, <3>1, <3>2 DEF PageRecords
    <3>5. CASE lock[j] = p
      <4>1. swept = {} BY <1>1, <2>3 DEF ReportInv, ListedIsHeld, swept
      <4>2. done # {} \/ failed # {} BY <1>14, <3>4, <3>5, <4>1
      <4>3. page[p].mine BY <1>17, <2>3
      <4> QED BY <1>3, <1>4, <4>2, <4>3 DEF Moved
    <3>6. CASE lock[j] # p BY <1>6, <1>15, <3>3, <3>4, <3>6
    <3> QED BY <3>5, <3>6
  <2>4. worker'.phase # "idle" /\ kind' = "m25" /\ run'.due # {} =>
            \A r \in Mine' : page'[r].phase = "running" => \A j \in page'[r].todo : Due(j)' \/ Moved'
    BY <1>1, <1>4, <1>7, <2>3
  <2>5. worker'.phase # "idle" /\ run'.due # {} => \A r \in PageSlots : page'[r].mine \/ page'[r].phase = "free"
    BY <1>1, <1>4, <2>2 DEF ReportInv, DueIsHandled
  <2>6. worker'.phase # "idle" => \A j \in run'.due : Due(j)' \/ Handled(j)' BY <1>1, <1>4, <2>1
  <2> QED BY <1>6, <2>4, <2>5, <2>6 DEF DueIsHandled
<1>19. \A j \in Jobs : InHand(j) => InHand(j)' \/ Handled(j)'
  <2> SUFFICES ASSUME NEW j \in Jobs, NEW r \in Mine, page[r].phase = "running", j \in Listed(r)
               PROVE  InHand(j)' \/ Handled(j)'
    BY DEF InHand
  <2>1. CASE r = p
    <3>1. j \in done \cup failed /\ page[p].mine BY <1>1, <2>1 DEF Listed, Taken, done, failed, Mine
    <3> QED BY <1>16, <3>1
  <2>2. CASE r # p
    <3>1. page'[r] = page[r] BY <1>1, <2>2 DEF Mine
    <3>2. Listed(r)' = Listed(r) BY <3>1 DEF Listed, Taken
    <3> QED BY <1>7, <3>1, <3>2 DEF InHand
  <2> QED BY <2>1, <2>2
<1>20. ShortPageSawAll'
  <2> SUFFICES ASSUME worker.phase = "wave", Rejected' = {}, NEW r \in Mine, page'[r].phase \in {"running", "answered"}
               PROVE  /\ kind # "m25" /\ Cardinality(Listed(r)') < Batch => \A j \in Owed : Handled(j)' \/ InHand(j)'
                      /\ kind = "m25" /\ Listed(r)' = {} => Moved' \/ \A j \in Owed : Handled(j)'
    BY <1>1, <1>7 DEF ShortPageSawAll
  <2>1. Rejected = {} BY <1>8
  <2>2. page[r].phase \in {"running", "answered"} BY <1>1 DEF Mine
  <2>3. Listed(r)' = Listed(r)
    <3>1. CASE r = p BY <1>1, <1>2, <3>1 DEF Listed, Taken, Mine, done, failed
    <3>2. CASE r # p BY <1>1, <3>2 DEF Listed, Taken, Mine
    <3> QED BY <3>1, <3>2
  <2>4. /\ kind # "m25" /\ Cardinality(Listed(r)) < Batch => \A j \in Owed : Handled(j) \/ InHand(j)
        /\ kind = "m25" /\ Listed(r) = {} => Moved \/ \A j \in Owed : Handled(j)
    BY <2>1, <2>2 DEF ReportInv, ShortPageSawAll
  <2> QED BY <1>6, <1>19, <2>3, <2>4
<1>21. DrainedIsHandled'
  <2>1. CASE worker.phase = "wave" BY <1>1, <2>1 DEF DrainedIsHandled
  <2>2. CASE worker.phase # "wave" BY <1>1, <1>6, <1>7, <1>10, <2>2 DEF ReportInv, DrainedIsHandled
  <2> QED BY <2>1, <2>2
<1> QED BY <1>9, <1>11, <1>12, <1>13, <1>18, <1>20, <1>21 DEF ReportInv

\* Between waves no call of the invocation is open.
LEMMA NothingAnswered ==
  ASSUME Mine = {}
  PROVE  /\ Answered = {} /\ Rejected = {}
         /\ Cardinality(DoneIn(Answered)) = 0 /\ Cardinality(FailedIn(Answered)) = 0
<1>1. Answered = {} /\ Rejected = {} BY DEF Answered, Rejected
<1>2. DoneIn(Answered) = {} /\ FailedIn(Answered) = {} BY <1>1 DEF DoneIn, FailedIn
<1> QED BY <1>1, <1>2, FS_EmptySet

\* A step of the invocation between waves keeps its counts or ends it.
LEMMA BetweenWaves ==
  ASSUME ReportInv, UNCHANGED <<kind, row, evidence, evaluated, lock, page, run>>, worker' \in WorkerRecords,
         worker.phase \notin {"idle", "wave"}, worker'.phase # "wave", worker'.completed <= worker.completed,
         worker'.phase # "idle" => /\ worker'.claimed = worker.claimed /\ worker'.completed = worker.completed
                                   /\ worker'.retried = worker.retried /\ worker'.status = worker.status,
         DrainedIsHandled'
  PROVE  ReportInv'
<1>1. /\ Mine' = Mine /\ Answered' = Answered /\ Rejected' = Rejected
      /\ DoneIn(Answered)' = DoneIn(Answered) /\ FailedIn(Answered)' = FailedIn(Answered)
  BY DEF Mine, Answered, Rejected, DoneIn, FailedIn
<1>2. Mine = {} BY DEF ReportInv, PagesOfWave
<1>3. Cardinality(DoneIn(Answered)) = 0 /\ Cardinality(FailedIn(Answered)) = 0 BY <1>2, NothingAnswered
<1>4. /\ \A i : Due(i)' = Due(i) /\ Handled(i)' = Handled(i)
      /\ Moved' = Moved
  BY DEF Due, Handled, Moved
<1>5. Recorded' BY DEF ReportInv, Recorded
<1>6. PagesOfWave' BY <1>1, <1>2 DEF ReportInv, PagesOfWave, Taken
<1>7. ListedIsHeld' BY DEF ReportInv, ListedIsHeld, Holds
<1>8. CountsAreTrue'
  <2>1. worker.completed \in Nat /\ worker'.completed \in Nat /\ run.completed \in Nat
    BY DEF ReportInv, Recorded, WorkerRecords, RunRecords
  <2> QED BY <1>1, <1>3, <2>1 DEF ReportInv, CountsAreTrue
<1>9. DueIsHandled' BY <1>1, <1>2, <1>4 DEF ReportInv, DueIsHandled
<1>10. ShortPageSawAll' BY DEF ShortPageSawAll
<1> QED BY <1>5, <1>6, <1>7, <1>8, <1>9, <1>10 DEF ReportInv

\* An answer to the sweep, the end of the loop and the compaction.
LEMMA QuietStepKeepsReport ==
  ASSUME QueueInv, ReportInv, SweepAnswered \/ LoopEnds \/ Compacts
  PROVE  ReportInv'
<1>q. worker \in WorkerRecords /\ run \in RunRecords BY DEF ReportInv, Recorded
<1>1. ASSUME NEW w, w = worker, NEW s \in {"ok", "partial", "failed"}, NEW c \in {"none", "limit", "drained", "error"}
      PROVE  /\ Reported(w, s, c) \in WorkerRecords
             /\ Reported(w, s, c).phase = "idle" /\ Reported(w, s, c).completed = worker.completed
             /\ Reported(w, s, c).status = s /\ Reported(w, s, c).cause = c
  BY <1>q, <1>1 DEF Reported, WorkerRecords
<1>2. /\ Reported(Idle, "failed", "error") \in WorkerRecords
      /\ Reported(Idle, "failed", "error").phase = "idle" /\ Reported(Idle, "failed", "error").completed = 0
      /\ Reported(Idle, "failed", "error").status = "failed"
  BY DEF Reported, Idle, WorkerRecords
<1>3. worker.completed \in Nat /\ worker.retried \in Nat /\ worker.cause \in {"none", "limit", "drained", "error"}
  BY <1>q DEF WorkerRecords
<1>4. Owed' = Owed /\ (\A j : Handled(j)' = Handled(j)) /\ UNCHANGED <<kind, row, evidence, evaluated, lock, page, run>>
  BY DEF SweepAnswered, LoopEnds, Compacts, Owed, Handled
<1>5. CASE SweepAnswered
  <2>1. worker.phase = "sweep" /\ (worker' = [worker EXCEPT !.phase = "next"] \/ worker' = Reported(Idle, "failed", "error"))
    BY <1>5 DEF SweepAnswered
  <2>2. CASE worker' = [worker EXCEPT !.phase = "next"]
    <3>1. /\ worker' \in WorkerRecords /\ worker'.phase = "next" /\ worker'.claimed = worker.claimed
          /\ worker'.completed = worker.completed /\ worker'.retried = worker.retried /\ worker'.status = worker.status
      BY <1>q, <2>2 DEF WorkerRecords
    <3>2. DrainedIsHandled' BY <3>1 DEF DrainedIsHandled
    <3> QED BY <1>3, <1>4, <2>1, <3>1, <3>2, BetweenWaves
  <2>3. CASE worker' = Reported(Idle, "failed", "error")
    <3>1. DrainedIsHandled' BY <1>2, <2>3 DEF DrainedIsHandled
    <3> QED BY <1>2, <1>3, <1>4, <2>1, <2>3, <3>1, BetweenWaves
  <2> QED BY <2>1, <2>2, <2>3
<1>6. CASE LoopEnds
  <2>1. worker.phase = "next" /\ worker' = [worker EXCEPT !.phase = "compact", !.cause = "limit"]
    BY <1>6 DEF LoopEnds
  <2>2. /\ worker' \in WorkerRecords /\ worker'.phase = "compact" /\ worker'.cause = "limit" /\ worker'.claimed = worker.claimed
        /\ worker'.completed = worker.completed /\ worker'.retried = worker.retried /\ worker'.status = worker.status
    BY <1>q, <2>1 DEF WorkerRecords
  <2>3. DrainedIsHandled' BY <2>2 DEF DrainedIsHandled
  <2> QED BY <1>3, <1>4, <2>1, <2>2, <2>3, BetweenWaves
<1>7. CASE Compacts
  <2>1. worker.phase = "compact" BY <1>7 DEF Compacts
  <2>2. \/ worker' = Reported(Idle, "failed", "error")
        \/ worker' = Reported(worker, "partial", worker.cause)
        \/ worker.retried = 0 /\ worker.status # "partial" /\ worker' = Reported(worker, "ok", worker.cause)
    <3>1. kind \in {"m22", "m23", "m25"} => \/ worker' = Summary(worker)
                                            \/ worker' = Reported(Idle, "failed", "error")
                                            \/ worker' = Reported(worker, "partial", worker.cause)
      BY <1>7 DEF Compacts
    <3>2. Summary(worker) = Reported(worker, IF worker.retried = 0 /\ worker.status # "partial" THEN "ok" ELSE "partial",
                                     worker.cause)
      BY DEF Summary
    <3>3. kind \in {"m22", "m23", "m25"} BY DEF QueueInv, Shape
    <3> QED BY <3>1, <3>2, <3>3
  <2>3. Mine = {} BY <2>1 DEF ReportInv, PagesOfWave
  <2>4. CASE worker' = Reported(Idle, "failed", "error")
    <3>1. DrainedIsHandled' BY <1>2, <2>4 DEF DrainedIsHandled
    <3> QED BY <1>2, <1>3, <1>4, <2>1, <2>4, <3>1, BetweenWaves
  <2>5. CASE worker' = Reported(worker, "partial", worker.cause)
    <3>1. worker' \in WorkerRecords /\ worker'.phase = "idle" /\ worker'.completed = worker.completed /\ worker'.status = "partial"
      BY <1>1, <1>3, <2>5
    <3>2. DrainedIsHandled' BY <3>1 DEF DrainedIsHandled
    <3> QED BY <1>3, <1>4, <2>1, <3>1, <3>2, BetweenWaves
  <2>6. CASE worker.retried = 0 /\ worker.status # "partial" /\ worker' = Reported(worker, "ok", worker.cause)
    <3>1. /\ worker' \in WorkerRecords /\ worker'.phase = "idle" /\ worker'.completed = worker.completed
          /\ worker'.status = "ok" /\ worker'.cause = worker.cause
      BY <1>1, <1>3, <2>6
    <3>2. run.retried = 0 /\ worker.completed = run.completed
      <4>1. Rejected = {} /\ Cardinality(DoneIn(Answered)) = 0 /\ Cardinality(FailedIn(Answered)) = 0
        BY <2>3, NothingAnswered
      <4> QED BY <1>3, <2>1, <2>6, <4>1 DEF ReportInv, CountsAreTrue
    <3>3. worker.cause = "drained" => \A j \in Owed : Handled(j)
      BY <2>1, <2>6 DEF ReportInv, DrainedIsHandled
    <3>4. DrainedIsHandled' BY <1>4, <3>1, <3>2, <3>3 DEF DrainedIsHandled
    <3> QED BY <1>3, <1>4, <2>1, <3>1, <3>4, BetweenWaves
  <2> QED BY <2>2, <2>4, <2>5, <2>6
<1> QED BY <1>5, <1>6, <1>7

\* An invocation starts a count of its own.
LEMMA InvocationStartKeepsReport ==
  ASSUME QueueInv, QueueInv', ReportInv, InvocationStarts
  PROVE  ReportInv'
<1>1. /\ worker.phase = "idle" /\ UNCHANGED <<kind, evidence, evaluated, lock, page>>
      /\ worker' = [Idle EXCEPT !.phase = IF kind = "m22" THEN "sweep" ELSE "next"]
      /\ row' = [j \in Jobs |-> [row[j] EXCEPT !.wait = IF @ = 0 THEN 0 ELSE @ - 1]]
      /\ run' = [due |-> {j \in Jobs : NothingOpen /\ Due(j)'}, target |-> evidence,
                 blocked |-> {}, completed |-> 0, retried |-> 0]
  BY DEF InvocationStarts
<1>2. /\ worker' \in WorkerRecords /\ worker'.phase \in {"sweep", "next"} /\ worker'.claimed = 0
      /\ worker'.completed = 0 /\ worker'.retried = 0 /\ worker'.status = "none"
  BY <1>1 DEF Idle, WorkerRecords
<1>3. /\ evidence \in [Jobs -> Nat] /\ \A j \in Jobs : row'[j].state = row[j].state
  BY <1>1 DEF QueueInv, Rows, IsRow
<1>4. /\ run' \in RunRecords /\ run'.due = {j \in Jobs : NothingOpen /\ Due(j)'} /\ run'.target = evidence
      /\ run'.completed = 0 /\ run'.retried = 0
  BY <1>1, <1>3 DEF RunRecords
<1>5. /\ Mine = {} /\ Mine' = {} /\ Answered' = Answered
      /\ DoneIn(Answered)' = DoneIn(Answered) /\ FailedIn(Answered)' = FailedIn(Answered)
  BY <1>1 DEF ReportInv, PagesOfWave, Mine, Answered, DoneIn, FailedIn
<1>6. Recorded' BY <1>2, <1>4 DEF Recorded
<1>7. PagesOfWave' BY <1>1, <1>2, <1>5 DEF ReportInv, PagesOfWave, Taken
<1>8. ListedIsHeld'
  <2>1. \A p \in PageSlots : page[p].phase = "running" => page[p].swept \subseteq Jobs
    BY DEF QueueInv, Shape, RunningHolds, Holds
  <2> QED BY <1>1, <1>3, <2>1 DEF ReportInv, ListedIsHeld, Holds
<1>9. CountsAreTrue'
  <2>1. Cardinality(DoneIn(Answered)) = 0 /\ Cardinality(FailedIn(Answered)) = 0 BY <1>5, NothingAnswered
  <2> QED BY <1>2, <1>4, <1>5, <2>1 DEF CountsAreTrue
<1>10. DueIsHandled'
  <2>1. NothingOpen => \A p \in PageSlots : page[p].phase = "free" BY DEF NothingOpen, NoPage
  <2> QED BY <1>1, <1>3, <1>4, <1>5, <2>1 DEF DueIsHandled
<1>11. ShortPageSawAll' /\ DrainedIsHandled' BY <1>2 DEF ShortPageSawAll, DrainedIsHandled
<1> QED BY <1>6, <1>7, <1>8, <1>9, <1>10, <1>11 DEF ReportInv

\* A wave opens its calls where none is.
LEMMA WaveStartKeepsReport ==
  ASSUME QueueInv, QueueInv', ReportInv, WaveStarts
  PROVE  ReportInv'
<1>q. worker \in WorkerRecords /\ run \in RunRecords BY DEF ReportInv, Recorded
<1>1. /\ worker.phase = "next" /\ worker' = [worker EXCEPT !.phase = "wave", !.iteration = @ + 1]
      /\ UNCHANGED <<kind, row, evidence, evaluated, lock, run>>
  BY DEF WaveStarts
<1>2. PICK slots \in SUBSET FreeSlots :
        /\ Cardinality(slots) = Width
        /\ page' = [p \in PageSlots |->
             IF p \in slots THEN [NoPage EXCEPT !.phase = "called", !.mine = TRUE] ELSE page[p]]
  BY DEF WaveStarts
<1>3. /\ worker' \in WorkerRecords /\ worker'.phase = "wave" /\ worker'.claimed = worker.claimed
      /\ worker'.completed = worker.completed /\ worker'.retried = worker.retried /\ worker'.status = worker.status
  <2>1. worker.iteration + 1 \in Nat BY <1>q DEF WorkerRecords
  <2>2. worker' = [worker EXCEPT !.phase = "wave", !.iteration = worker.iteration + 1] BY <1>1
  <2> QED BY <1>q, <2>1, <2>2 DEF WorkerRecords
<1>4. /\ slots \subseteq PageSlots /\ \A p \in slots : page[p].phase = "free"
      /\ \A p \in slots : /\ page'[p].phase = "called" /\ page'[p].mine /\ page'[p].todo = {}
                          /\ page'[p].done = {} /\ page'[p].failed = {}
      /\ \A p \in PageSlots \ slots : page'[p] = page[p]
  BY <1>2 DEF FreeSlots, NoPage
<1>5. Mine = {} /\ \A p \in PageSlots : ~ page[p].mine BY <1>1 DEF ReportInv, PagesOfWave, Mine
<1>6. Mine' = slots /\ Answered' = {} /\ Rejected' = {} /\ Width' = Width
  BY <1>1, <1>4, <1>5 DEF Mine, Answered, Rejected, Width
<1>7. /\ \A i : Due(i)' = Due(i) /\ Handled(i)' = Handled(i)
      /\ Moved' = Moved
  BY <1>1 DEF Due, Handled, Moved
<1>8. Recorded' BY <1>1, <1>3, <1>q DEF Recorded
<1>9. PagesOfWave'
  <2>1. \A p \in PageSlots :
           /\ page'[p].phase \in {"called", "answered", "rejected"} => page'[p].mine
           /\ page'[p].phase = "free" => page'[p] = NoPage
           /\ page'[p].phase = "answered" => page'[p].todo = {}
           /\ page'[p].done \cap page'[p].failed = {} /\ page'[p].todo \cap (page'[p].done \cup page'[p].failed) = {}
    <3> TAKE p \in PageSlots
    <3>1. CASE p \in slots BY <1>4, <3>1
    <3>2. CASE p \notin slots BY <1>4, <3>2 DEF ReportInv, PagesOfWave, Taken
    <3> QED BY <3>1, <3>2
  <2> QED BY <1>2, <1>3, <1>6, <2>1 DEF PagesOfWave, Taken
<1>10. ListedIsHeld'
  <2>1. \A p \in PageSlots : page'[p].phase = "running" => page'[p] = page[p] BY <1>4
  <2> QED BY <1>1, <2>1 DEF ReportInv, ListedIsHeld, Holds
<1>11. CountsAreTrue'
  <2>1. DoneIn(Answered)' = {} /\ FailedIn(Answered)' = {} BY <1>6 DEF DoneIn, FailedIn
  <2>2. Cardinality({}) = 0 BY FS_EmptySet
  <2>3. Rejected = {} /\ Cardinality(DoneIn(Answered)) = 0 /\ Cardinality(FailedIn(Answered)) = 0
    BY <1>5, NothingAnswered
  <2>4. worker.phase # "idle" BY <1>1
  <2>5. /\ worker.completed + 0 <= run.completed
        /\ worker.status # "partial" => /\ worker.completed + 0 = run.completed /\ worker.retried + 0 = run.retried
                                        /\ worker.claimed = worker.completed + worker.retried
    BY <2>3, <2>4 DEF ReportInv, CountsAreTrue
  <2> QED BY <1>1, <1>3, <2>1, <2>2, <2>5 DEF CountsAreTrue
<1>12. DueIsHandled'
  <2>1. \A p \in PageSlots : (page[p].mine \/ page[p].phase = "free") => (page'[p].mine \/ page'[p].phase = "free")
    BY <1>4
  <2>2. \A p \in Mine' : page'[p].phase # "running" BY <1>4, <1>6
  <2> QED BY <1>1, <1>7, <2>1, <2>2 DEF ReportInv, DueIsHandled
<1>13. ShortPageSawAll' BY <1>4, <1>6 DEF ShortPageSawAll
<1>14. DrainedIsHandled' BY <1>3 DEF DrainedIsHandled
<1> QED BY <1>8, <1>9, <1>10, <1>11, <1>12, <1>13, <1>14 DEF ReportInv

\* What the tally adds is what the answered calls report.
LEMMA TallyAdds ==
  ASSUME worker \in WorkerRecords, NEW answered \in SUBSET PageSlots, NEW tallied, tallied = Tallied(worker, answered)
  PROVE  /\ tallied \in WorkerRecords
         /\ tallied.completed = worker.completed + Cardinality(DoneIn(answered))
         /\ tallied.retried = worker.retried + Cardinality(FailedIn(answered))
         /\ tallied.claimed = worker.claimed + Cardinality(ClaimedIn(answered))
         /\ tallied.status = worker.status /\ tallied.phase = worker.phase
<1> DEFINE c == Cardinality(ClaimedIn(answered)) d == Cardinality(DoneIn(answered)) f == Cardinality(FailedIn(answered))
<1>1. c \in Nat /\ d \in Nat /\ f \in Nat BY ReportsAreFinite
<1>2. tallied = [worker EXCEPT !.claimed = @ + c, !.retried = @ + f, !.completed = @ + d] BY DEF Tallied
<1> HIDE DEF c, d, f
<1>3. worker.claimed + c \in Nat /\ worker.retried + f \in Nat /\ worker.completed + d \in Nat
  BY <1>1 DEF WorkerRecords
<1>4. tallied \in WorkerRecords BY <1>2, <1>3 DEF WorkerRecords
<1>5. /\ tallied.completed = worker.completed + d /\ tallied.retried = worker.retried + f
      /\ tallied.claimed = worker.claimed + c /\ tallied.status = worker.status /\ tallied.phase = worker.phase
  BY <1>2 DEF WorkerRecords
<1> QED BY <1>4, <1>5 DEF c, d, f

\* When every call of a wave was answered and the queue counts as drained,
\* one call saw all that was due, and all that a call had listed is committed.
LEMMA DrainedWave ==
  ASSUME QueueInv, ReportInv, worker.phase = "wave", Rejected = {}, Answered = Mine, worker.status # "partial",
         NEW tallied, tallied = Tallied(worker, Answered), tallied.retried = 0, StopsAfter(tallied, Answered)
  PROVE  \A j \in Owed : Handled(j)
<1>q. /\ page \in [PageSlots -> PageRecords] /\ worker \in WorkerRecords /\ run \in RunRecords
      /\ Mine \subseteq PageSlots /\ Answered \subseteq PageSlots
  BY DEF QueueInv, Shape, ReportInv, Recorded, Mine, Answered
<1>1. \A p \in Mine : page[p].phase = "answered" /\ page[p].todo = {} BY <1>q DEF Answered, ReportInv, PagesOfWave
<1>2. \A p \in Mine : Listed(p) = Taken(p) BY <1>1 DEF Listed
<1>3. \A j : ~ InHand(j) BY <1>1 DEF InHand
<1>4. Cardinality(Mine) = Width BY DEF ReportInv, PagesOfWave
<1>5. CASE kind # "m25"
  <2>1. Cardinality(ClaimedIn(Answered)) < Width * Batch BY <1>5 DEF StopsAfter
  <2>2. Batch \in Nat BY LimitsAssumption DEF Batch
  <2>3. \A p \in Mine : Cardinality(Taken(p)) \in Nat
    <3> TAKE p \in Mine
    <3>1. Taken(p) \in SUBSET Jobs BY <1>q DEF Taken, PageRecords
    <3> QED BY <3>1, LimitsAssumption, FS_Subset, FS_CardinalityType
  <2>4. PICK p \in Mine : Cardinality(Taken(p)) < Batch
    <3>1. SUFFICES ASSUME \A p \in Mine : Cardinality(Taken(p)) >= Batch PROVE FALSE BY <2>2, <2>3
    <3>2. Cardinality(ClaimedIn(Answered)) >= Cardinality(Answered) * Batch BY <1>q, <2>2, <3>1, FullPages
    <3>3. Cardinality(ClaimedIn(Answered)) >= Width * Batch BY <1>4, <3>2
    <3>4. Cardinality(ClaimedIn(Answered)) \in Nat /\ Width \in Int
      <4>1. Cardinality(PageSlots) \in Nat BY LimitsAssumption, FS_CardinalityType
      <4>2. Width \in Int BY <4>1 DEF Width
      <4>3. Cardinality(ClaimedIn(Answered)) \in Nat BY <1>q, ReportsAreFinite
      <4> QED BY <4>2, <4>3
    <3>5. Width * Batch \in Int BY <2>2, <3>4
    <3> HIDE DEF Width, Batch
    <3> QED BY <2>1, <3>3, <3>4, <3>5
  <2> QED BY <1>1, <1>2, <1>3, <1>5, <2>4 DEF ReportInv, ShortPageSawAll
<1>6. CASE kind = "m25"
  <2>1. tallied.claimed = 0
    <3>1. tallied.retried > 0 \/ tallied.claimed = 0 BY <1>6 DEF StopsAfter
    <3> QED BY <3>1
  <2>2. /\ tallied.claimed = worker.claimed + Cardinality(ClaimedIn(Answered))
        /\ worker.claimed \in Nat /\ worker.completed \in Nat /\ worker.retried \in Nat
        /\ Cardinality(ClaimedIn(Answered)) \in Nat /\ IsFiniteSet(ClaimedIn(Answered))
    BY <1>q, TallyAdds, ReportsAreFinite DEF WorkerRecords
  <2>3. worker.claimed = 0 /\ Cardinality(ClaimedIn(Answered)) = 0 BY <2>1, <2>2
  <2>4. ClaimedIn(Answered) = {} BY <2>2, <2>3, FS_EmptySet
  <2>5. DoneIn(Answered) = {} /\ FailedIn(Answered) = {} BY <2>4 DEF ClaimedIn
  <2>6. Cardinality(DoneIn(Answered)) = 0 /\ Cardinality(FailedIn(Answered)) = 0 BY <2>5, FS_EmptySet
  <2>7. run.completed = 0 /\ run.retried = 0
    <3>1. /\ worker.completed + Cardinality(DoneIn(Answered)) = run.completed
          /\ worker.retried + Cardinality(FailedIn(Answered)) = run.retried
          /\ worker.claimed = worker.completed + worker.retried
      BY DEF ReportInv, CountsAreTrue
    <3>2. worker.completed = 0 /\ worker.retried = 0
      <4>1. worker.completed + worker.retried = 0 BY <2>3, <3>1
      <4> QED BY <2>2, <4>1
    <3> QED BY <2>6, <3>1, <3>2
  <2>8. PICK p \in Mine : TRUE
    <3>1. Cardinality(PageSlots) \in Nat BY LimitsAssumption, FS_CardinalityType
    <3>2. Cardinality(Mine) > 0 BY <1>4, <1>6, <3>1, LimitsAssumption DEF Width
    <3>3. Mine # {} BY <3>2, FS_EmptySet
    <3> QED BY <3>3
  <2>9. Listed(p) = {}
    <3>1. Taken(p) \subseteq Jobs BY <1>q DEF Taken, PageRecords
    <3>2. \A j \in Taken(p) : <<p, j>> \in ClaimedIn(Answered)
      BY <2>8, <3>1 DEF Taken, ClaimedIn, DoneIn, FailedIn
    <3> QED BY <1>2, <2>4, <2>8, <3>2
  <2>10. ~ Moved BY <2>7 DEF Moved
  <2> QED BY <1>1, <1>6, <2>8, <2>9, <2>10 DEF ReportInv, ShortPageSawAll
<1> QED BY <1>5, <1>6

\* A wave is tallied call by call; it says "drained" only of what it saw.
LEMMA WaveSettlesKeepsReport ==
  ASSUME QueueInv, QueueInv', ReportInv, WaveSettles
  PROVE  ReportInv'
<1>q. /\ page \in [PageSlots -> PageRecords] /\ worker \in WorkerRecords /\ run \in RunRecords
      /\ Mine \subseteq PageSlots /\ Answered \subseteq PageSlots
  BY DEF QueueInv, Shape, ReportInv, Recorded, Mine, Answered
<1> DEFINE tallied == Tallied(worker, Answered)
           stops == StopsAfter(tallied, Answered)
<1>1. /\ worker.phase = "wave" /\ (\A p \in Mine : page[p].phase \in {"answered", "rejected"})
      /\ page' = [p \in PageSlots |-> IF p \in Mine THEN NoPage ELSE page[p]]
      /\ UNCHANGED <<kind, row, evidence, evaluated, lock, run>>
  BY DEF WaveSettles
<1>2. \/ worker' = Reported(Idle, "failed", "error")
      \/ worker' = [tallied EXCEPT
             !.status = IF Answered # Mine \/ tallied.retried > 0 THEN "partial" ELSE @,
             !.phase = IF stops THEN "compact" ELSE "next",
             !.cause = IF stops THEN "drained" ELSE @]
  BY DEF WaveSettles, Answered
<1>3. /\ tallied \in WorkerRecords
      /\ tallied.completed = worker.completed + Cardinality(DoneIn(Answered))
      /\ tallied.retried = worker.retried + Cardinality(FailedIn(Answered))
      /\ tallied.claimed = worker.claimed + Cardinality(ClaimedIn(Answered))
      /\ tallied.status = worker.status
  BY <1>q, TallyAdds
<1> HIDE DEF tallied, stops
<1>4. \/ /\ worker' \in WorkerRecords /\ worker'.phase = "idle" /\ worker'.status = "failed" /\ worker'.completed = 0
      \/ /\ worker' \in WorkerRecords /\ worker'.claimed = tallied.claimed /\ worker'.retried = tallied.retried
         /\ worker'.completed = tallied.completed
         /\ worker'.phase \in {"next", "compact"} /\ (worker'.phase = "compact" => stops)
         /\ worker'.status # "partial" => Answered = Mine /\ tallied.retried = 0 /\ worker.status # "partial"
  <2>1. CASE worker' = Reported(Idle, "failed", "error") BY <2>1 DEF Reported, Idle, WorkerRecords
  <2>2. CASE worker' = [tallied EXCEPT
             !.status = IF Answered # Mine \/ tallied.retried > 0 THEN "partial" ELSE @,
             !.phase = IF stops THEN "compact" ELSE "next",
             !.cause = IF stops THEN "drained" ELSE @]
    <3> DEFINE status == IF Answered # Mine \/ tallied.retried > 0 THEN "partial" ELSE tallied.status
               phase == IF stops THEN "compact" ELSE "next"
               cause == IF stops THEN "drained" ELSE tallied.cause
    <3>1. worker' = [tallied EXCEPT !.status = status, !.phase = phase, !.cause = cause] BY <2>2
    <3>2. /\ status \in {"none", "ok", "partial", "failed"} /\ phase \in {"next", "compact"}
          /\ cause \in {"none", "limit", "drained", "error"} /\ (phase = "compact" => stops)
          /\ status # "partial" => Answered = Mine /\ tallied.retried = 0 /\ worker.status # "partial"
      BY <1>3 DEF WorkerRecords
    <3> HIDE DEF status, phase, cause
    <3>3. /\ worker' \in WorkerRecords /\ worker'.claimed = tallied.claimed /\ worker'.retried = tallied.retried
          /\ worker'.completed = tallied.completed /\ worker'.status = status /\ worker'.phase = phase
      BY <1>3, <3>1, <3>2 DEF WorkerRecords
    <3> QED BY <3>2, <3>3
  <2> QED BY <1>2, <2>1, <2>2
<1>5. /\ NoPage.mine = FALSE /\ NoPage.phase = "free" /\ NoPage.todo = {} /\ NoPage.done = {} /\ NoPage.failed = {}
  BY DEF NoPage
<1>6. /\ \A p \in Mine : page'[p] = NoPage
      /\ \A p \in PageSlots \ Mine : page'[p] = page[p]
      /\ \A p \in PageSlots : page'[p].phase = "running" => page'[p] = page[p]
  BY <1>1, <1>5, <1>q
<1>7. /\ Mine' = {} /\ Answered' = {} /\ Rejected' = {}
      /\ Rejected = {} <=> Answered = Mine
  <2>1. Mine' = {} BY <1>5, <1>6 DEF Mine
  <2> QED BY <1>1, <2>1 DEF Answered, Rejected
<1>8. /\ \A i : Due(i)' = Due(i) /\ Handled(i)' = Handled(i)
      /\ Moved' = Moved /\ Owed' = Owed
  BY <1>1 DEF Due, Handled, Moved, Owed
<1>9. Recorded' BY <1>1, <1>4, <1>q DEF Recorded
<1>10. PagesOfWave'
  <2>1. \A p \in PageSlots :
           /\ page'[p].phase \in {"called", "answered", "rejected"} => page'[p].mine
           /\ page'[p].phase = "free" => page'[p] = NoPage
           /\ page'[p].phase = "answered" => page'[p].todo = {}
           /\ page'[p].done \cap page'[p].failed = {} /\ page'[p].todo \cap (page'[p].done \cup page'[p].failed) = {}
    <3> TAKE p \in PageSlots
    <3>1. CASE p \in Mine BY <1>5, <1>6, <3>1
    <3>2. CASE p \notin Mine BY <1>6, <3>2 DEF ReportInv, PagesOfWave, Taken
    <3> QED BY <3>1, <3>2
  <2>2. worker'.phase # "wave" BY <1>4
  <2> QED BY <1>7, <2>1, <2>2 DEF PagesOfWave, Taken
<1>11. ListedIsHeld' BY <1>1, <1>6 DEF ReportInv, ListedIsHeld, Holds
<1>12. CountsAreTrue'
  <2>1. DoneIn(Answered)' = {} /\ FailedIn(Answered)' = {} BY <1>7 DEF DoneIn, FailedIn
  <2>2. Cardinality({}) = 0 BY FS_EmptySet
  <2>3. worker.completed + Cardinality(DoneIn(Answered)) <= run.completed BY DEF ReportInv, CountsAreTrue
  <2>4. run.completed \in Nat /\ worker'.completed \in Nat /\ worker'.retried \in Nat
    BY <1>4, <1>q DEF RunRecords, WorkerRecords
  <2>5. worker'.completed <= run.completed BY <1>3, <1>4, <2>3, <2>4
  <2>6. worker'.phase # "idle" /\ worker'.status # "partial" =>
           /\ worker'.completed = run.completed /\ worker'.retried = run.retried
           /\ worker'.claimed = worker'.completed + worker'.retried
    <3> SUFFICES ASSUME worker'.phase # "idle", worker'.status # "partial"
                 PROVE  /\ worker'.completed = run.completed /\ worker'.retried = run.retried
                        /\ worker'.claimed = worker'.completed + worker'.retried
      OBVIOUS
    <3>1. Rejected = {} /\ worker.status # "partial" /\ worker.phase # "idle" BY <1>1, <1>4, <1>7
    <3>2. /\ worker.completed + Cardinality(DoneIn(Answered)) = run.completed
          /\ worker.retried + Cardinality(FailedIn(Answered)) = run.retried
          /\ worker.claimed = worker.completed + worker.retried
      BY <3>1 DEF ReportInv, CountsAreTrue
    <3>3. Cardinality(ClaimedIn(Answered)) = Cardinality(DoneIn(Answered)) + Cardinality(FailedIn(Answered))
      <4>1. \A p \in Answered : page[p].done \cap page[p].failed = {} BY <1>q DEF ReportInv, PagesOfWave
      <4> QED BY <1>q, <4>1, ClaimsAddUp
    <3>4. /\ Cardinality(DoneIn(Answered)) \in Nat /\ Cardinality(FailedIn(Answered)) \in Nat
          /\ worker.completed \in Nat /\ worker.retried \in Nat
      BY <1>q, ReportsAreFinite DEF WorkerRecords
    <3>5. /\ worker'.completed = worker.completed + Cardinality(DoneIn(Answered))
          /\ worker'.retried = worker.retried + Cardinality(FailedIn(Answered))
          /\ worker'.claimed = worker.claimed + Cardinality(ClaimedIn(Answered))
      BY <1>3, <1>4
    <3> QED BY <3>2, <3>3, <3>4, <3>5
  <2> QED BY <1>1, <2>1, <2>2, <2>4, <2>5, <2>6 DEF CountsAreTrue
<1>13. DueIsHandled'
  <2>1. \A p \in PageSlots : (page[p].mine \/ page[p].phase = "free") => (page'[p].mine \/ page'[p].phase = "free")
    BY <1>5, <1>6
  <2> QED BY <1>1, <1>7, <1>8, <2>1 DEF ReportInv, DueIsHandled
<1>14. ShortPageSawAll' BY <1>4 DEF ShortPageSawAll
<1>15. DrainedIsHandled'
  <2>1. worker'.phase = "compact" /\ worker'.status # "partial" => \A j \in Owed : Handled(j)
    <3> SUFFICES ASSUME worker'.phase = "compact", worker'.status # "partial" PROVE \A j \in Owed : Handled(j)
      OBVIOUS
    <3>1. stops /\ Answered = Mine /\ tallied.retried = 0 /\ worker.status # "partial" BY <1>4
    <3>2. Rejected = {} BY <1>7, <3>1
    <3> QED BY <1>1, <3>1, <3>2, DrainedWave DEF tallied, stops
  <2>2. ~ (worker'.phase = "idle" /\ worker'.status = "ok") BY <1>4
  <2> QED BY <1>8, <2>1, <2>2 DEF DrainedIsHandled
<1> QED BY <1>9, <1>10, <1>11, <1>12, <1>13, <1>14, <1>15 DEF ReportInv

\* A timeout disowns the calls that run and ends the invocation.
LEMMA TimeoutKeepsReport ==
  ASSUME QueueInv, QueueInv', ReportInv, InvocationTimesOut
  PROVE  ReportInv'
<1>q. /\ page \in [PageSlots -> PageRecords] /\ worker \in WorkerRecords /\ run \in RunRecords
      /\ Answered \subseteq PageSlots
  BY DEF QueueInv, Shape, ReportInv, Recorded, Mine, Answered
<1> DEFINE tallied == Tallied(worker, Answered)
<1>1. /\ worker.phase = "wave" /\ UNCHANGED <<kind, row, evidence, evaluated, lock, run>>
      /\ page' = [p \in PageSlots |->
           IF p \notin Mine THEN page[p]
           ELSE IF page[p].phase = "running" THEN [page[p] EXCEPT !.mine = FALSE] ELSE NoPage]
      /\ worker' = Reported(tallied, "partial", "error") \/ worker' = Reported(Idle, "failed", "error")
  BY DEF InvocationTimesOut, Answered
<1>2. /\ tallied \in WorkerRecords
      /\ tallied.completed = worker.completed + Cardinality(DoneIn(Answered))
  BY <1>q, TallyAdds
<1> HIDE DEF tallied
<1>3. /\ worker' \in WorkerRecords /\ worker'.phase = "idle" /\ worker'.status \in {"partial", "failed"}
      /\ worker'.completed = 0 \/ worker'.completed = worker.completed + Cardinality(DoneIn(Answered))
  <2>1. CASE worker' = Reported(tallied, "partial", "error")
    <3>1. worker' = [tallied EXCEPT !.phase = "idle", !.status = "partial", !.cause = "error"] BY <2>1 DEF Reported
    <3> QED BY <1>2, <3>1 DEF WorkerRecords
  <2>2. CASE worker' = Reported(Idle, "failed", "error") BY <2>2 DEF Reported, Idle, WorkerRecords
  <2> QED BY <1>1, <2>1, <2>2
<1>4. \A p \in PageSlots :
        \/ page'[p] = NoPage
        \/ /\ page'[p].phase = page[p].phase /\ page'[p].todo = page[p].todo /\ page'[p].done = page[p].done
           /\ page'[p].failed = page[p].failed /\ page'[p].swept = page[p].swept /\ ~ page'[p].mine
           /\ page'[p] = page[p] \/ page[p].phase = "running"
  <2> TAKE p \in PageSlots
  <2>1. CASE p \notin Mine BY <1>1, <2>1 DEF Mine
  <2>2. CASE p \in Mine /\ page[p].phase = "running"
    <3>1. page'[p] = [page[p] EXCEPT !.mine = FALSE] BY <1>1, <2>2
    <3>2. DOMAIN page[p] = {"phase", "mine", "todo", "done", "failed", "swept"} BY <1>q DEF PageRecords
    <3> QED BY <2>2, <3>1, <3>2
  <2>3. CASE p \in Mine /\ page[p].phase # "running" BY <1>1, <2>3
  <2> QED BY <2>1, <2>2, <2>3
<1>5. NoPage.mine = FALSE /\ NoPage.phase = "free" /\ NoPage.todo = {} /\ NoPage.done = {} /\ NoPage.failed = {}
  BY DEF NoPage
<1>6. Mine' = {} /\ Answered' = {} BY <1>4, <1>5 DEF Mine, Answered
<1>7. Recorded' BY <1>1, <1>3, <1>q DEF Recorded
<1>8. PagesOfWave'
  <2>1. \A p \in PageSlots :
           /\ page'[p].phase \in {"called", "answered", "rejected"} => page'[p].mine
           /\ page'[p].phase = "free" => page'[p] = NoPage
           /\ page'[p].phase = "answered" => page'[p].todo = {}
           /\ page'[p].done \cap page'[p].failed = {} /\ page'[p].todo \cap (page'[p].done \cup page'[p].failed) = {}
    <3> TAKE p \in PageSlots
    <3>1. CASE page'[p] = NoPage BY <1>5, <3>1
    <3>2. CASE page'[p] # NoPage
      <4>1. /\ page'[p].todo = page[p].todo /\ page'[p].done = page[p].done /\ page'[p].failed = page[p].failed
            /\ page'[p].phase = page[p].phase /\ (page'[p] = page[p] \/ page[p].phase = "running")
        BY <1>4, <3>2
      <4> QED BY <4>1 DEF ReportInv, PagesOfWave, Taken
    <3> QED BY <3>1, <3>2
  <2> QED BY <1>3, <1>6, <2>1 DEF PagesOfWave, Taken
<1>9. ListedIsHeld'
  <2> SUFFICES ASSUME NEW p \in PageSlots, page'[p].phase = "running"
               PROVE  /\ kind # "m25" => page'[p].todo \subseteq Holds(p)
                      /\ page'[p].swept # {} => kind = "m23"
                      /\ \A i \in page'[p].swept : row[i].state = "completed"
    BY <1>1 DEF ListedIsHeld, Holds
  <2>1. page[p].phase = "running" /\ page'[p].todo = page[p].todo /\ page'[p].swept = page[p].swept
    BY <1>4, <1>5
  <2> QED BY <2>1 DEF ReportInv, ListedIsHeld
<1>10. CountsAreTrue'
  <2>1. DoneIn(Answered)' = {} BY <1>6 DEF DoneIn
  <2>2. Cardinality({}) = 0 BY FS_EmptySet
  <2>3. worker.completed + Cardinality(DoneIn(Answered)) <= run.completed BY DEF ReportInv, CountsAreTrue
  <2>4. run.completed \in Nat /\ worker'.completed \in Nat
    BY <1>3, <1>q DEF RunRecords, WorkerRecords
  <2>5. worker'.completed + 0 <= run.completed BY <1>3, <2>3, <2>4
  <2> QED BY <1>1, <1>3, <2>1, <2>2, <2>5 DEF CountsAreTrue
<1>11. DueIsHandled' BY <1>1, <1>3 DEF ReportInv, DueIsHandled
<1>12. ShortPageSawAll' /\ DrainedIsHandled' BY <1>3 DEF ShortPageSawAll, DrainedIsHandled
<1> QED BY <1>7, <1>8, <1>9, <1>10, <1>11, <1>12 DEF ReportInv

LEMMA StutterKeepsReport ==
  ASSUME ReportInv, UNCHANGED vars
  PROVE  ReportInv'
<1>1. UNCHANGED <<kind, row, evidence, evaluated, lock, page, worker, run>> BY DEF vars
<1>2. /\ Mine' = Mine /\ Answered' = Answered /\ Rejected' = Rejected /\ Owed' = Owed /\ Moved' = Moved
      /\ DoneIn(Answered)' = DoneIn(Answered) /\ FailedIn(Answered)' = FailedIn(Answered)
      /\ Batch' = Batch /\ Width' = Width
      /\ \A i : Due(i)' = Due(i) /\ Handled(i)' = Handled(i)
      /\ \A p : Listed(p)' = Listed(p) /\ Taken(p)' = Taken(p) /\ Holds(p)' = Holds(p)
  BY <1>1 DEF Mine, Answered, Rejected, Owed, Moved, DoneIn, FailedIn, Batch, Width, Due, Handled, Listed, Taken, Holds
<1>3. \A i : InHand(i)' = InHand(i) BY <1>1, <1>2 DEF InHand
<1>4. Recorded' /\ PagesOfWave' /\ ListedIsHeld' BY <1>1, <1>2 DEF ReportInv, Recorded, PagesOfWave, ListedIsHeld
<1>5. CountsAreTrue' BY <1>1, <1>2 DEF ReportInv, CountsAreTrue
<1>6. DueIsHandled' BY <1>1, <1>2 DEF ReportInv, DueIsHandled
<1>7. ShortPageSawAll' BY <1>1, <1>2, <1>3 DEF ReportInv, ShortPageSawAll
<1>8. DrainedIsHandled' BY <1>1, <1>2 DEF ReportInv, DrainedIsHandled
<1> QED BY <1>4, <1>5, <1>6, <1>7, <1>8 DEF ReportInv

LEMMA ReportStepSound == QueueInv /\ QueueInv' /\ ReportInv /\ [Next]_vars => ReportInv'
<1> SUFFICES ASSUME QueueInv, QueueInv', ReportInv, [Next]_vars PROVE ReportInv' OBVIOUS
<1>1. CASE WriterSteps BY <1>1, WriterKeepsReport DEF WriterSteps
<1>2. ASSUME NEW p \in PageSlots, PageProgress(p) PROVE ReportInv'
  BY <1>2, PageStartsKeepsReport, PageEvaluatesKeepsReport, PageCommitsKeepsReport DEF PageProgress
<1>3. ASSUME NEW p \in PageSlots, PageAborts(p) PROVE ReportInv'
  BY <1>3, RolledBackKeepsReport DEF PageAborts
<1>4. ASSUME NEW p \in PageSlots, PageDeadlocks(p) PROVE ReportInv'
  BY <1>4, RolledBackKeepsReport DEF PageDeadlocks
<1>5. CASE WorkerSteps
  BY <1>5, QuietStepKeepsReport, InvocationStartKeepsReport, WaveStartKeepsReport, WaveSettlesKeepsReport,
     TimeoutKeepsReport DEF WorkerSteps
<1>6. CASE UNCHANGED vars BY <1>6, StutterKeepsReport
<1> QED BY <1>1, <1>2, <1>3, <1>4, <1>5, <1>6 DEF Next, PageSteps

\* What the summary of an invocation says is what the database did: it
\* reports no completion that was not committed, and after "ok" nothing of it
\* failed, no call of it is open, and if it stopped because the queue was
\* drained, every row that was due at its start, was in nobody else's hands
\* and has not changed since has been evaluated.  Calls of a wave overlap,
\* skip each other's rows, are rolled back, lose their answers or outlive
\* their invocation, and writers change evidence between any two steps.
THEOREM ReportsAreAlwaysTrue == Spec => []ReportIsTrue
<1>1. Init => QueueInv /\ ReportInv BY QueueInitially, ReportInitially
<1>2. QueueInv /\ ReportInv /\ [Next]_vars => (QueueInv /\ ReportInv)'
  BY QueueStepSound, ReportStepSound
<1>3. QueueInv /\ ReportInv => ReportIsTrue
  <2> SUFFICES ASSUME QueueInv, ReportInv, worker.phase = "idle"
               PROVE  /\ worker.completed <= run.completed
                      /\ worker.status = "ok" =>
                           /\ run.retried = 0 /\ worker.completed = run.completed /\ Mine = {}
                           /\ worker.cause = "drained" =>
                                \A j \in run.due \ run.blocked :
                                   evaluated[j] >= run.target[j] \/ evidence[j] > run.target[j]
    BY DEF ReportIsTrue
  <2>1. Mine = {} BY DEF ReportInv, PagesOfWave
  <2>2. Cardinality(DoneIn(Answered)) = 0 BY <2>1, NothingAnswered
  <2>3. worker.completed \in Nat /\ run.completed \in Nat BY DEF ReportInv, Recorded, WorkerRecords, RunRecords
  <2>4. worker.completed <= run.completed BY <2>2, <2>3 DEF ReportInv, CountsAreTrue
  <2>5. worker.status = "ok" =>
          /\ run.retried = 0 /\ worker.completed = run.completed
          /\ worker.cause = "drained" => \A j \in Owed : Handled(j)
    BY DEF ReportInv, DrainedIsHandled
  <2> QED BY <2>1, <2>4, <2>5 DEF Owed, Handled
<1> QED BY <1>1, <1>2, <1>3, PTL DEF Spec

(***************************************************************************)
(* The statistics, for any values, supports and numbers of windows.        *)
(***************************************************************************)

\* The stream keeps its invariant whatever the other parts do, and a sample is
\* evidence, or points, no two of which have one id.
StatisticsInv ==
    /\ Stream!StreamInv
    /\ sample.of = "evidence" => Stream!WindowEvidence(sample.evidence)
    /\ sample.of = "points" => Stream!PointList(sample.points)

LEMMA EvidenceListsAreEvidence ==
    ASSUME NEW e \in EvidenceLists, Distinct(e)
    PROVE  Stream!WindowEvidence(e)
<1> DEFINE S == EvidenceSamples
<1>1. \A x \in S : x.id \in Int /\ x.synthetic \in BOOLEAN
  <2> DEFINE a == Evidence(1, 1, "accepted_live", "none", {"gap", "unpowered", "speed"}, <<70>>, 1, FALSE)
             b == Evidence(2, 1, "duplicate", "two_dimensional", {"heartbeat"}, <<101>>, -1, FALSE)
             c == Evidence(3, 2, "health_only", Stream!Null, {"unpowered", "quality"}, <<>>, 2, FALSE)
             d == Evidence(4, 3, "rejected", "three_dimensional", {}, <<30>>, 0, FALSE)
             f == Evidence(5, 4, "accepted_delayed", "none", {"mismatch", "pair"}, <<-1>>, 0, TRUE)
  <2>1. S = {a, b, c, d, f}
    BY DEF EvidenceSamples
  <2>2. a.id = 1 /\ b.id = 2 /\ c.id = 3 /\ d.id = 4 /\ f.id = 5
    BY DEF Evidence
  <2>3. a.synthetic = FALSE /\ b.synthetic = FALSE /\ c.synthetic = FALSE /\ d.synthetic = FALSE
        /\ f.synthetic = TRUE
    BY Zenon DEF Evidence
  <2> HIDE DEF S, a, b, c, d, f
  <2>4. \A x \in S : x.id \in Int
    BY <2>1, <2>2
  <2>5. \A x \in S : x.synthetic \in BOOLEAN
    BY <2>1, <2>3
  <2> QED
    BY <2>4, <2>5
<1>2. \/ e = <<>>
      \/ \E a, b \in S : e = <<a, b>>
      \/ \E a, b, c \in S : e = <<a, b, c>>
  BY DEF EvidenceLists
<1> HIDE DEF S
<1>3. \E n \in Nat : e \in [1..n -> S]
  <2>1. CASE e = <<>>
    BY <2>1
  <2>2. CASE \E a, b \in S : e = <<a, b>>
    BY <2>2
  <2>3. CASE \E a, b, c \in S : e = <<a, b, c>>
    BY <2>3
  <2> QED
    BY <1>2, <2>1, <2>2, <2>3
<1>4. PICK n \in Nat : e \in [1..n -> S]
  BY <1>3
<1>5. e \in Seq({e[i] : i \in DOMAIN e})
  BY <1>4
<1> QED
  BY <1>1, <1>4, <1>5 DEF Stream!WindowEvidence, Distinct

LEMMA PointsAreLists ==
    ASSUME NEW numbers \in SUBSET Nat, NEW p \in PointLists(numbers), Distinct(AsPoints(p))
    PROVE  Stream!PointList(AsPoints(p))
<1>1. PICK n \in 0..3 : p \in [1..n -> numbers \X (0..3)]
  BY DEF PointLists
<1>2. AsPoints(p) \in [1..n -> [id : Nat, at : Nat]]
  <2>1. \A i \in 1..n : p[i] \in numbers \X (0..3) /\ p[i][1] \in Nat /\ p[i][2] \in Nat
    <3> SUFFICES ASSUME NEW i \in 1..n PROVE p[i] \in numbers \X (0..3) /\ p[i][1] \in Nat /\ p[i][2] \in Nat
      OBVIOUS
    <3>1. p[i] \in numbers \X (0..3)
      BY <1>1
    <3>2. p[i][1] \in numbers /\ p[i][2] \in 0..3
      BY <3>1
    <3>3. \A k \in numbers : k \in Nat
      OBVIOUS
    <3>4. p[i][1] \in Nat
      BY <3>2, <3>3
    <3>5. p[i][2] \in Nat
      BY <3>2
    <3> QED
      BY <3>1, <3>4, <3>5
  <2> QED
    BY <1>1, <2>1 DEF AsPoints
<1>3. AsPoints(p) \in Seq([id : Nat, at : Nat])
  <2> DEFINE R == [id : Nat, at : Nat]
             q == AsPoints(p)
  <2>1. n \in Nat /\ q \in [1..n -> R]
    BY <1>2
  <2> HIDE DEF R, q
  <2>2. q \in Seq(R)
    BY <2>1
  <2> QED
    BY <2>2 DEF R, q
<1> QED
  BY <1>3 DEF Stream!PointList, Stream!Point, Distinct

\* What is sampled, by what the sample is of.
LEMMA SampleIsFromSets ==
    ASSUME MCInit
    PROVE  /\ sample.of = "evidence" => sample.evidence \in EvidenceLists /\ Distinct(sample.evidence)
           /\ sample.of = "points" => \E p \in PointLists({1, 2, 3}) :
                                         sample.points = AsPoints(p) /\ Distinct(sample.points)
<1>1. CASE part = "sample"
  <2>1. SampleInit
    BY <1>1 DEF MCInit
  <2>2. CASE \E e \in EvidenceLists : Distinct(e) /\ sample = [of |-> "evidence", evidence |-> e]
    BY <2>2
  <2>3. CASE \E p \in PointLists({1, 2, 3}) : sample = [of |-> "points", points |-> AsPoints(p)]
                                              /\ Distinct(AsPoints(p))
    BY <2>3
  <2>4. CASE sample.of \notin {"evidence", "points"}
    BY <2>4
  <2> QED
    BY <2>1, <2>2, <2>3, <2>4 DEF SampleInit
<1>2. CASE part # "sample"
  <2>1. sample = [of |-> "none"]
    BY <1>2 DEF MCInit
  <2> QED
    BY <2>1
<1> QED
  BY <1>1, <1>2

LEMMA StatisticsInitially == MCInit => StatisticsInv
<1> SUFFICES ASSUME MCInit PROVE StatisticsInv
  OBVIOUS
<1>1. Stream!StreamInv
  BY Stream!StreamInitially DEF MCInit
<1>2. ASSUME sample.of = "evidence" PROVE Stream!WindowEvidence(sample.evidence)
  BY <1>2, SampleIsFromSets, EvidenceListsAreEvidence
<1>3. ASSUME sample.of = "points" PROVE Stream!PointList(sample.points)
  BY <1>3, SampleIsFromSets, PointsAreLists
<1> QED
  BY <1>1, <1>2, <1>3 DEF StatisticsInv

LEMMA StatisticsStep ==
    ASSUME Stream!StreamBounds, StatisticsInv, [MCNext]_allVars
    PROVE  StatisticsInv'
<1>1. UNCHANGED sample
  BY DEF MCNext, allVars
<1>2. [Stream!StreamNext]_streamVars
  BY DEF MCNext, allVars
<1>3. [Stream!StreamNext]_(Stream!streamVars)
  BY <1>2 DEF streamVars, Stream!streamVars
<1>4. Stream!StreamInv'
  BY <1>3, Stream!StreamStep DEF StatisticsInv
<1> QED
  BY <1>1, <1>4 DEF StatisticsInv

\* The database and the shared evaluator agree on every window, whatever the
\* values, the supports and the number of windows, a device is investigated
\* only after a run of anomalous windows, and features and pairs do not depend
\* on the order in which the evidence was read.
THEOREM StatisticsAlwaysSound ==
    ASSUME Stream!StreamBounds
    PROVE  MCSpec => []StatisticsAreSound
<1>1. StatisticsInv => StatisticsAreSound
  <2> SUFFICES ASSUME StatisticsInv PROVE StatisticsAreSound
    OBVIOUS
  <2>1. Stream!EvaluatorsAgree /\ Stream!InvestigationNeedsARun
    BY Zenon DEF StatisticsInv, Stream!StreamInv, Stream!SideBySide, Stream!EvaluatorsAgree
  <2>2. sample.of = "evidence" => Stream!SnapshotsAreStable(sample.evidence)
    BY Stream!SnapshotsAlwaysStable DEF StatisticsInv
  <2>3. ASSUME sample.of = "points", NEW q \in PointLists({7, 8}), Distinct(AsPoints(q))
        PROVE  Stream!PairingIsComplete(sample.points, AsPoints(q), 1)
    <3>1. Stream!PointList(AsPoints(q)) /\ Stream!PointList(sample.points)
      BY <2>3, PointsAreLists DEF StatisticsInv
    <3> QED
      BY <3>1, Stream!PairingAlwaysComplete
  <2> QED
    BY <2>1, <2>2, <2>3 DEF StatisticsAreSound
<1> QED
  BY <1>1, StatisticsInitially, StatisticsStep, PTL DEF MCSpec

(***************************************************************************)
(* What visitors and drivers submit, in the composition.                   *)
(***************************************************************************)

\* The samples are forms, applications, works and tables that the rules are about.
FormSample == sample.of = "form" => Site!IsForm(sample.form)
ApplicationSample ==
    sample.of = "application" =>
        /\ \A f \in DOMAIN Site!MaxLengths : /\ sample.application[f].trimmed \in Nat /\ sample.application[f].length \in Nat
                                            /\ sample.application[f].trimmed <= sample.application[f].length
        /\ sample.application.ownership \in {"own_vehicle", "hired_vehicle", "driver_only", "unlisted"}
        /\ sample.application.phoneLike => sample.application.mobileNumber.trimmed \in 7..20
WorkSample ==
    sample.of = "work" =>
        /\ {"needs", "startDate", "areas", "assignmentStatus"} \subseteq DOMAIN sample.work
        /\ Site!NeedsFit(sample.work.needs)
CellCharacters == {"a", "=", "quote", "comma", "cr", "lf"}
TableSample ==
    sample.of = "table" => sample.table \in Seq(Seq(Site!Texts(CellCharacters)) \ {<<>>}) /\ sample.table # <<>>
SubmissionSamples == FormSample /\ ApplicationSample /\ WorkSample /\ TableSample

LEMMA PlainTexts == \A n \in Nat : Site!FormText(Plain(n))
BY DEF Site!FormText, Plain, Site!Text

LEMMA FormTextsAreTexts == \A t \in FormTexts : Site!FormText(t)
<1> SUFFICES ASSUME NEW l \in FormLengths PROVE Site!FormText(Site!Text(l[1], l[2], l[3]))
  BY DEF FormTexts
<1>1. l[1] \in Nat /\ l[2] \in 0..l[1] /\ l[3] \in 0..l[2]
  BY DEF FormLengths
<1> QED BY <1>1 DEF Site!FormText, Site!Text

LEMMA NumbersAreTexts == \A p \in Numbers : Site!FormText(p)
<1> SUFFICES ASSUME NEW l \in NumberLengths, NEW plus, NEW others
             PROVE  Site!FormText(Site!Phone(Site!Text(l[1], l[2], l[3]), plus, others))
  BY DEF Numbers
<1>1. l[1] \in Nat /\ l[2] \in 0..l[1] /\ l[3] \in 0..l[2]
  BY DEF NumberLengths
<1> QED BY <1>1 DEF Site!FormText, Site!Text, Site!Phone

\* What a form has when one of its fields is another than that of the good one.
LEMMA FormsAreForms == \A f \in Forms : Site!IsForm(f)
<1> DEFINE T == DOMAIN Site!TextLimits
           Part(f) == /\ f.days \in Int /\ Site!FormText(f.companyWebsite) /\ Site!FormText(f.phone)
                      /\ \A t \in T : Site!FormText(f[t])
<1>1. T = {"customerName", "businessName", "cityTown", "areasToCover", "advertisementDetails", "notes"}
  BY DEF Site!TextLimits
<1>2. /\ GoodForm.days = 3 /\ GoodForm.companyWebsite = Plain(0)
      /\ GoodForm.phone = Site!Phone(Plain(10), FALSE, "none")
      /\ \A t \in T : GoodForm[t] = Plain(5)
      /\ T \cup {"days", "companyWebsite", "phone"} \subseteq DOMAIN GoodForm
  BY <1>1 DEF GoodForm
<1>3. {"days", "date", "companyWebsite", "phone", "consent", "notice", "packageInterest"} \cap T = {}
  BY <1>1
<1> HIDE DEF T, GoodForm
<1>4. /\ Site!FormText(Plain(0)) /\ Site!FormText(Plain(1)) /\ Site!FormText(Plain(5))
      /\ Site!FormText(Site!Phone(Plain(10), FALSE, "none"))
  <2>1. Site!FormText(Site!Phone(Plain(10), FALSE, "none"))
    BY DEF Site!FormText, Plain, Site!Text, Site!Phone
  <2> QED BY <2>1, PlainTexts
<1>5. ASSUME NEW t \in T, NEW text \in FormTexts PROVE Part(WithText(t, text))
  <2> DEFINE f == WithText(t, text)
  <2>1. f.days = 3 /\ f.companyWebsite = Plain(0) /\ f.phone = Site!Phone(Plain(10), FALSE, "none")
    BY <1>2, <1>3 DEF WithText
  <2>2. \A u \in T : f[u] = IF u = t THEN text ELSE Plain(5)
    BY <1>2 DEF WithText
  <2> HIDE DEF f
  <2>3. \A u \in T : Site!FormText(f[u])
    <3>1. Site!FormText(text)
      BY FormTextsAreTexts
    <3>2. \A u \in T : f[u] = text \/ f[u] = Plain(5)
      BY <2>2
    <3> QED BY <1>4, <3>1, <3>2, Zenon
  <2>4. f.days \in Int
    BY <2>1
  <2>5. Part(f)
    BY <1>4, <2>1, <2>3, <2>4, Zenon
  <2> QED BY <2>5 DEF f
<1>6. ASSUME NEW p \in Numbers PROVE Part(WithPhone(p))
  BY <1>2, <1>3, <1>4, NumbersAreTexts DEF WithPhone
<1>7. ASSUME NEW n \in Int, NEW d PROVE Part(WithDays(n, d))
  BY <1>2, <1>3, <1>4 DEF WithDays
<1>8. ASSUME NEW f \in {[GoodForm EXCEPT !.consent = FALSE], [GoodForm EXCEPT !.companyWebsite = Plain(1)],
                        [GoodForm EXCEPT !.notice = "old"], [GoodForm EXCEPT !.packageInterest = "other"]}
      PROVE  Part(f)
  <2>1. /\ f.days = 3 /\ f.companyWebsite \in {Plain(0), Plain(1)}
        /\ f.phone = Site!Phone(Plain(10), FALSE, "none")
    BY <1>2, <1>8
  <2>2. \A t \in T : f[t] = Plain(5)
    BY <1>2, <1>3, <1>8
  <2>3. f.days \in Int
    BY <2>1
  <2>4. Site!FormText(f.companyWebsite)
    BY <1>4, <2>1, Zenon
  <2>5. \A t \in T : Site!FormText(f[t])
    BY <1>4, <2>2, Zenon
  <2> QED BY <1>4, <2>1, <2>3, <2>4, <2>5, Zenon
<1> SUFFICES ASSUME NEW f \in Forms PROVE Part(f)
  BY DEF Site!IsForm, T
<1> HIDE DEF Part
<1>9. \/ \E t \in T, text \in FormTexts : f = WithText(t, text)
      \/ \E p \in Numbers : f = WithPhone(p)
      \/ \E n \in Int, d \in {"missing", "iso", "other"} : f = WithDays(n, d)
      \/ f \in {[GoodForm EXCEPT !.consent = FALSE], [GoodForm EXCEPT !.companyWebsite = Plain(1)],
                 [GoodForm EXCEPT !.notice = "old"], [GoodForm EXCEPT !.packageInterest = "other"]}
  BY DEF Forms, T
<1>10. CASE \E t \in T, text \in FormTexts : f = WithText(t, text) BY <1>5, <1>10
<1>11. CASE \E p \in Numbers : f = WithPhone(p) BY <1>6, <1>11
<1>12. CASE \E n \in Int, d \in {"missing", "iso", "other"} : f = WithDays(n, d) BY <1>7, <1>12
<1>13. CASE f \in {[GoodForm EXCEPT !.consent = FALSE], [GoodForm EXCEPT !.companyWebsite = Plain(1)],
                   [GoodForm EXCEPT !.notice = "old"], [GoodForm EXCEPT !.packageInterest = "other"]}
  BY <1>8, <1>13
<1> QED BY <1>9, <1>10, <1>11, <1>12, <1>13

LEMMA ApplicationsHaveTexts ==
    ASSUME NEW a \in Applications
    PROVE  /\ \A f \in DOMAIN Site!MaxLengths : a[f].trimmed \in Nat /\ a[f].length \in Nat /\ a[f].trimmed <= a[f].length
           /\ a.ownership \in {"own_vehicle", "hired_vehicle", "driver_only", "unlisted"}
           /\ a.phoneLike => a.mobileNumber.trimmed \in 7..20
<1> DEFINE D == DOMAIN Site!MaxLengths
           Fits(t) == t.trimmed \in Nat /\ t.length \in Nat /\ t.trimmed <= t.length
           NotHeld == [GoodApplication EXCEPT !.held = FALSE]
<1>1. a = NotHeld \/ \E g \in D, t \in Texts, o \in {"own_vehicle", "driver_only", "unlisted"} : a = Applied(g, t, o)
  BY DEF Applications
<1>2. D = {"driverName", "mobileNumber", "cityTown", "serviceAreas", "vehicleNumber", "preferredWorkingCities", "notes"}
  BY DEF Site!MaxLengths
<1> HIDE DEF D
<1>3. ASSUME NEW t \in Texts PROVE Fits(t)
  <2>1. PICK n, m \in {0, 7, 20, 21, 80, 81, 100, 101} : t = Text(n, m) BY DEF Texts
  <2>2. t.trimmed = m /\ t.length = n BY <2>1 DEF Text
  <2>3. t.trimmed <= t.length BY DEF Texts
  <2> QED BY <2>2, <2>3
<1>4. /\ \A f \in D : f \in DOMAIN GoodApplication /\ Fits(GoodApplication[f])
      /\ GoodApplication.mobileNumber.trimmed = 10
      /\ GoodApplication.ownership = "own_vehicle"
      /\ {"ownership", "phoneLike", "mobileNumber"} \subseteq DOMAIN GoodApplication
  BY <1>2 DEF GoodApplication, Text
<1>5. {"ownership", "phoneLike", "held"} \cap D = {} /\ "mobileNumber" \in D BY <1>2
<1> HIDE DEF GoodApplication, Fits
<1>6. CASE a = NotHeld
  <2>1. /\ a.ownership = "own_vehicle" /\ a.mobileNumber.trimmed = 10 /\ \A f \in D : a[f] = GoodApplication[f]
    BY <1>4, <1>5, <1>6
  <2> QED BY <1>4, <2>1 DEF Fits, D
<1>7. ASSUME NEW g \in D, NEW t \in Texts, NEW o \in {"own_vehicle", "driver_only", "unlisted"}, a = Applied(g, t, o)
      PROVE  /\ a.ownership = o /\ \A f \in D : Fits(a[f])
             /\ a.phoneLike => a.mobileNumber.trimmed \in 7..20
  <2>1. \A f \in D : a[f] = IF f = g THEN t ELSE GoodApplication[f] BY <1>4, <1>5, <1>7 DEF Applied
  <2>2. a.ownership = o BY <1>4, <1>5, <1>7 DEF Applied
  <2>3. a.phoneLike = (g # "mobileNumber" \/ t.trimmed \in 7..20) BY <1>4, <1>5, <1>7 DEF Applied
  <2>4. \A f \in D : Fits(a[f]) BY <1>3, <1>4, <2>1
  <2>5. a.phoneLike => a.mobileNumber.trimmed \in 7..20
    <3>1. CASE g = "mobileNumber"
      <4>1. a["mobileNumber"] = t BY <1>5, <2>1, <3>1
      <4> QED BY <2>3, <3>1, <4>1
    <3>2. CASE g # "mobileNumber"
      <4>1. a["mobileNumber"] = GoodApplication["mobileNumber"] BY <1>5, <2>1, <3>2
      <4>2. a.mobileNumber.trimmed = 10 BY <1>4, <4>1
      <4> QED BY <4>2
    <3> QED BY <3>1, <3>2
  <2> QED BY <2>2, <2>4, <2>5
<1>8. CASE \E g \in D, t \in Texts, o \in {"own_vehicle", "driver_only", "unlisted"} : a = Applied(g, t, o)
  <2>1. PICK g \in D, t \in Texts, o \in {"own_vehicle", "driver_only", "unlisted"} : a = Applied(g, t, o)
    BY <1>8
  <2>2. /\ a.ownership = o /\ \A f \in D : Fits(a[f])
        /\ a.phoneLike => a.mobileNumber.trimmed \in 7..20
    BY <1>7, <2>1
  <2> QED BY <2>2 DEF Fits, D
<1> QED BY <1>1, <1>6, <1>8

LEMMA WorksHaveNeeds ==
    ASSUME NEW w \in AdWorks
    PROVE  {"needs", "startDate", "areas", "assignmentStatus"} \subseteq DOMAIN w /\ Site!NeedsFit(w.needs)
<1>1. w \in PlannedWorks BY DEF AdWorks
<1>2. {"needs", "startDate", "areas", "assignmentStatus"} \subseteq DOMAIN w BY <1>1 DEF PlannedWorks
<1>3. w.needs \in Templates \cup {Silent} BY <1>1 DEF PlannedWorks
<1>4. \A n \in Templates : Site!NeedsFit(n) BY Site!EveryMethodFits DEF Templates
<1>5. Site!NeedsFit(Silent)
  <2> DEFINE n == Site!Needs("driver_app", TRUE, TRUE, TRUE, TRUE)
  <2>1. Site!deliveryMethodTemplates["vehicle_announcement"] = n BY DEF Site!deliveryMethodTemplates
  <2>2. Site!NeedsFit([n EXCEPT !.speakerRequired = FALSE])
    BY DEF Site!NeedsFit, Site!SpeakerHasVehicle, Site!DriverAppHasDriver, Site!Needs
  <2> HIDE DEF n
  <2> QED BY <2>1, <2>2 DEF Silent
<1> QED BY <1>2, <1>3, <1>4, <1>5

LEMMA TablesHaveCells ==
    ASSUME NEW t \in Tables
    PROVE  t \in Seq(Seq(Site!Texts(CellCharacters)) \ {<<>>}) /\ t # <<>>
<1> DEFINE S == Site!Texts(CellCharacters)
<1>1. ASSUME NEW c \in Cells PROVE c \in S
  <2>1. PICK n \in 0..2 : c \in [1..n -> CellCharacters] BY DEF Cells, CellCharacters
  <2>2. CellCharacters \ {"bom"} = CellCharacters BY DEF CellCharacters
  <2> HIDE DEF CellCharacters
  <2>3. c \in Seq(CellCharacters) BY <2>1
  <2> QED BY <2>2, <2>3 DEF Site!Texts
<1> HIDE DEF S
<1>2. ASSUME NEW c \in S, NEW d \in S
      PROVE  /\ <<c, d>> \in Seq(S) \ {<<>>} /\ <<c>> \in Seq(S) \ {<<>>}
  BY <1>2
<1> DEFINE R == Seq(S) \ {<<>>}
<1>3. \E c, d \in Cells : t = <<<<c, d>>>> \/ t = <<<<c>>, <<d>>>> BY DEF Tables
<1>4. PICK x, y \in R : t = <<x>> \/ t = <<x, y>> BY <1>1, <1>2, <1>3
<1> HIDE DEF R
<1>5. t \in Seq(R) /\ t # <<>>
  <2>1. <<x>> \in Seq(R) /\ <<x>> # <<>> OBVIOUS
  <2>2. <<x, y>> \in Seq(R) /\ <<x, y>> # <<>> OBVIOUS
  <2>3. CASE t = <<x>> BY <2>1, <2>3, Zenon
  <2>4. CASE t = <<x, y>> BY <2>2, <2>4, Zenon
  <2> QED BY <1>4, <2>3, <2>4
<1> QED BY <1>5 DEF R, S

LEMMA SubmissionsInitially == MCInit => SubmissionSamples
<1> SUFFICES ASSUME MCInit PROVE SubmissionSamples
  OBVIOUS
<1>1. CASE part # "sample"
  <2>1. sample.of = "none"
    BY <1>1 DEF MCInit
  <2> QED
    BY <2>1 DEF SubmissionSamples, FormSample, ApplicationSample, WorkSample, TableSample
<1>2. CASE part = "sample"
  <2>1. SampleInit
    BY <1>2 DEF MCInit
  <2>2. CASE \E f \in Forms : sample = [of |-> "form", form |-> f]
    <3>1. sample.of = "form" /\ sample.form \in Forms
      BY <2>2
    <3> QED
      BY <3>1, FormsAreForms DEF SubmissionSamples, FormSample, ApplicationSample, WorkSample, TableSample
  <2>3. CASE \E a \in Applications : sample = [of |-> "application", application |-> a]
    <3>1. sample.of = "application" /\ sample.application \in Applications
      BY <2>3
    <3>2. ApplicationSample
      BY <3>1, ApplicationsHaveTexts DEF ApplicationSample
    <3> QED
      BY <3>1, <3>2 DEF SubmissionSamples, FormSample, WorkSample, TableSample
  <2>4. CASE \E w \in AdWorks : sample = [of |-> "work", work |-> w]
    <3>1. sample.of = "work" /\ sample.work \in AdWorks
      BY <2>4
    <3>2. WorkSample
      BY <3>1, WorksHaveNeeds DEF WorkSample
    <3> QED
      BY <3>1, <3>2 DEF SubmissionSamples, FormSample, ApplicationSample, TableSample
  <2>5. CASE \E t \in Tables : sample = [of |-> "table", table |-> t]
    <3>1. sample.of = "table" /\ sample.table \in Tables
      BY <2>5
    <3>2. TableSample
      BY <3>1, TablesHaveCells DEF TableSample
    <3> QED
      BY <3>1, <3>2 DEF SubmissionSamples, FormSample, ApplicationSample, WorkSample
  <2>6. CASE sample.of \notin {"form", "application", "work", "table"}
    BY <2>6 DEF SubmissionSamples, FormSample, ApplicationSample, WorkSample, TableSample
  <2> QED
    BY <2>1, <2>2, <2>3, <2>4, <2>5, <2>6 DEF SampleInit
<1> QED
  BY <1>1, <1>2

\* What visitors and drivers submit is stored once, only what had expired is
\* swept, and what the rules of the pages let through is taken, exactly if
\* cleaning leaves enough of a form and the database can hold an application,
\* for any details, administrators, proofs, limits and numbers of calls.
THEOREM SubmissionsAlwaysKept ==
    ASSUME Site!IntakeBounds
    PROVE  MCSpec => []SubmissionsAreKept
<1>1. MCInit => Site!SubmissionInit /\ Site!IntakeInit /\ Site!RetentionInit
  BY DEF MCInit
<1>2. [MCNext]_allVars => [Site!SubmissionNext]_(Site!submissionVars)
  BY DEF MCNext, allVars, submissionVars, Site!submissionVars
<1>3. [MCNext]_allVars => [Site!IntakeNext]_(Site!intakeVars)
  BY DEF MCNext, allVars, intakeVars, Site!intakeVars
<1>4. [MCNext]_allVars => [Site!RetentionNext]_(Site!retentionVars)
  BY DEF MCNext, allVars, retentionVars, Site!retentionVars
<1>5. MCSpec => Site!SubmissionSpec /\ Site!IntakeSpec /\ Site!RetentionSpec
  BY <1>1, <1>2, <1>3, <1>4, PTL DEF MCSpec, Site!SubmissionSpec, Site!IntakeSpec, Site!RetentionSpec
<1>6. SubmissionSamples /\ [MCNext]_allVars => SubmissionSamples'
  <2> SUFFICES ASSUME SubmissionSamples, [MCNext]_allVars PROVE SubmissionSamples'
    OBVIOUS
  <2>1. UNCHANGED sample
    BY DEF MCNext, allVars
  <2> QED
    BY <2>1 DEF SubmissionSamples, FormSample, ApplicationSample, WorkSample, TableSample
<1>7. MCSpec => []SubmissionSamples
  BY <1>6, SubmissionsInitially, PTL DEF MCSpec
<1>8. ASSUME Site!SubmissionsAreSound, Site!IntakeIsProtected, Site!OneWorkPerEnquiry, Site!FilesAreNamed,
             Site!OnlyExpiredIsDeleted, SubmissionSamples
      PROVE  SubmissionsAreKept
  <2>1. sample.of = "form" => Site!FormsAreAccepted(sample.form)
    BY <1>8, Site!FormsAlwaysAccepted DEF SubmissionSamples, FormSample
  <2>2. sample.of = "application" => Site!ApplicationsAgree(sample.application)
    BY <1>8, Site!ApplicationsAlwaysAgree DEF SubmissionSamples, ApplicationSample
  <2>3. sample.of = "environment" => Site!EnvironmentsAreSafe(sample.environment)
    BY Site!EnvironmentsAreAlwaysSafe
  <2>4. sample.of = "table" => Site!ExportsReadBack(sample.table)
    BY <1>8, Site!ExportsAlwaysReadBack DEF SubmissionSamples, TableSample
  <2>5. ASSUME sample.of = "work", NEW d \in Drivers, NEW v \in Vans
        PROVE  /\ Site!AssignmentsAgree(sample.work, d, v)
               /\ \A days \in DaySets : Site!NextActionIsPossible(sample.work, days, d, v)
    <3>1. /\ {"needs", "startDate", "areas", "assignmentStatus"} \subseteq DOMAIN sample.work
          /\ Site!SpeakerHasVehicle(sample.work.needs) /\ Site!DriverAppHasDriver(sample.work.needs)
      BY <1>8, <2>5 DEF SubmissionSamples, WorkSample, Site!NeedsFit
    <3> QED
      BY <3>1, Site!AssignmentsAlwaysAgree, Site!NextActionAlwaysPossible
  <2>6. ASSUME NEW status \in Site!DayStatuses, NEW action \in Site!DriverActions, NEW note \in BOOLEAN, NEW photo \in Photos
        PROVE  Site!DayActionsAgree(sample.work, status, action, note, photo)
    <3>1. Site!MaxPhotoBytes \in Int
      BY DEF Site!MaxPhotoBytes
    <3>2. photo.size \in Int
      BY <3>1 DEF Photos
    <3> QED
      BY <3>2, Site!DayActionsAlwaysAgree
  <2>7. \A status \in Site!PaymentStatuses, total, paid \in -1..2 : Site!PaymentsAgree(status, total, paid)
    BY Site!PaymentsAlwaysAgree
  <2>8. \A total \in 1..5, before \in 0..6, limit \in 1..3 : Site!HistoryPagesAgree(total, before, limit)
    <3>1. ASSUME NEW total \in 1..5, NEW before \in 0..6, NEW limit \in 1..3
          PROVE  total \in Nat /\ before \in Nat /\ limit \in 1..100
      OBVIOUS
    <3> QED
      BY <3>1, Site!HistoryPagesAlwaysAgree, Zenon
  <2>9. \A start, today \in 0..3, n \in -1..3 : Site!PlansAgree(start, n, today)
    BY Site!PlansAlwaysAgree
  <2>10. ASSUME NEW whole \in BOOLEAN, NEW n \in {-1, 0, 1, 200, 500, 501},
                NEW k \in {0, 1, 2, 199, 200, 201, 499, 500, 501, 600}
         PROVE  Site!ExportsAreBounded([whole |-> whole, n |-> n], [i \in 1..k |-> i])
    <3> DEFINE value == [whole |-> whole, n |-> n]
               matching == [i \in 1..k |-> i]
    <3>1. value.n \in Int /\ matching \in Seq(Nat)
      OBVIOUS
    <3> HIDE DEF value, matching
    <3>2. Site!ExportsAreBounded(value, matching)
      BY <3>1, Site!ExportsAlwaysBounded
    <3> QED
      BY <3>2 DEF value, matching
  <2>11. \A start, today \in 0..3, n \in -1..3 : today # 0 => Site!PlansAgree(start, n, today)
    BY <2>9
  <2>12. sample.of = "amounts" =>
          /\ \A status \in Site!PaymentStatuses, total, paid \in -1..2 : Site!PaymentsAgree(status, total, paid)
          /\ \A total \in 1..5, before \in 0..6, limit \in 1..3 : Site!HistoryPagesAgree(total, before, limit)
          /\ \A start, today \in 0..3, n \in -1..3 : today # 0 => Site!PlansAgree(start, n, today)
          /\ \A whole \in BOOLEAN, n \in {-1, 0, 1, 200, 500, 501}, k \in {0, 1, 2, 199, 200, 201, 499, 500, 501, 600} :
                Site!ExportsAreBounded([whole |-> whole, n |-> n], [i \in 1..k |-> i])
    BY <2>7, <2>8, <2>10, <2>11, Zenon
  <2>13. sample.of = "work" =>
          /\ \A d \in Drivers, v \in Vans :
                /\ Site!AssignmentsAgree(sample.work, d, v)
                /\ \A days \in DaySets : Site!NextActionIsPossible(sample.work, days, d, v)
          /\ \A status \in Site!DayStatuses, action \in Site!DriverActions, note \in BOOLEAN, photo \in Photos :
                Site!DayActionsAgree(sample.work, status, action, note, photo)
    BY <2>5, <2>6, Zenon
  <2> QED
    BY <1>8, <2>1, <2>2, <2>3, <2>4, <2>12, <2>13, Zenon DEF SubmissionsAreKept
<1>9. MCSpec => [](Site!SubmissionsAreSound /\ Site!IntakeIsProtected /\ Site!OneWorkPerEnquiry /\ Site!FilesAreNamed
                   /\ Site!OnlyExpiredIsDeleted)
  BY <1>5, Site!SubmissionsAreAlwaysSound, Site!IntakeAlwaysProtected, Site!OneWorkForAnEnquiry, Site!FilesAreAlwaysNamed,
     Site!NothingElseIsDeleted, PTL
<1> QED
  BY <1>7, <1>8, <1>9, PTL

(***************************************************************************)
(* The hardware, in the composition.                                       *)
(***************************************************************************)

HasInstant(r) == r = [x \in DOMAIN r |-> r[x]] /\ r.timestamp \in Int

\* The samples are requests, JSON, claims and analyses that the rules are about.
RequestSample ==
    sample.of = "request" =>
        /\ HasInstant(sample.request) /\ sample.options.receivedAt \in Int
        /\ sample.options.deviceStatus \in {"unknown", "inactive", "active"}
EventSample == sample.of = "event" => Vendor!Json(sample.event)
ReadinessSample == sample.of = "readiness" => Site!IsAnalysis(sample.readiness)
HardwareSamples == RequestSample /\ EventSample /\ ReadinessSample

LEMMA OptionsHaveInstants ==
    ASSUME NEW o \in VendorOptions
    PROVE  o.receivedAt \in Int /\ o.deviceStatus \in {"unknown", "inactive", "active"}
BY DEF VendorOptions

\* A request is a spread of a signed one, or has no signature.
LEMMA SignedRequestsFit ==
    ASSUME NEW body, NEW t \in Int, NEW overrides, "timestamp" \notin DOMAIN overrides,
           NEW r, r = Vendor!signedRequest(body, t, overrides)
    PROVE  HasInstant(r)
<1> DEFINE base == [body |-> body, timestamp |-> t, keyId |-> "k",
                    signature |-> Vendor!createReferenceVendorSignatureV1(body, t, "secret")]
           spread == Vendor!Spread(base, overrides)
<1>1. "timestamp" \in DOMAIN base /\ base["timestamp"] = t
  OBVIOUS
<1>2. r = spread
  BY Zenon DEF Vendor!signedRequest
<1> HIDE DEF base
<1>3. /\ spread = [f \in DOMAIN spread |-> spread[f]] /\ DOMAIN spread = DOMAIN base \cup DOMAIN overrides
      /\ \A f \in DOMAIN base \cup DOMAIN overrides :
            spread[f] = IF f \in DOMAIN overrides THEN overrides[f] ELSE base[f]
  BY Vendor!SpreadIs, Zenon
<1> HIDE DEF spread
<1>4. spread["timestamp"] = t
  BY <1>1, <1>3
<1> QED
  BY <1>2, <1>3, <1>4 DEF HasInstant

LEMMA RequestsHaveInstants ==
    ASSUME NEW r \in VendorRequests
    PROVE  HasInstant(r)
<1>1. VendorTimes \subseteq Int /\ 450 \in Int
  BY DEF VendorTimes, Vendor!NoTime
<1>2. CASE \E k \in DOMAIN VendorKeys \cup {"z"}, b \in VendorBodies, t \in VendorTimes : r = SignedWith(k, b, t)
  <2>1. PICK k \in DOMAIN VendorKeys \cup {"z"}, b \in VendorBodies, t \in VendorTimes : r = SignedWith(k, b, t)
    BY <1>2, Zenon
  <2>2. "timestamp" \notin DOMAIN [keyId |-> k]
    OBVIOUS
  <2>3. t \in Int /\ r = Vendor!signedRequest(b, t, [keyId |-> k])
    BY <1>1, <2>1 DEF SignedWith
  <2> QED
    BY <2>2, <2>3, SignedRequestsFit, Zenon
<1>3. CASE r = BadlySigned
  <2>1. "timestamp" \notin DOMAIN [signature |-> Vendor!Malformed]
    OBVIOUS
  <2> QED
    BY <1>1, <1>3, <2>1, SignedRequestsFit, ZenonT(60) DEF BadlySigned
<1>4. CASE r = NotSigned
  BY <1>4 DEF NotSigned, HasInstant
<1>5. CASE r = SignedByOther
  <2> DEFINE changed == [keyId |-> "l",
                         signature |-> Vendor!createReferenceVendorSignatureV1(Vendor!Body, 450, "other")]
  <2>1. "timestamp" \notin DOMAIN changed
    OBVIOUS
  <2>2. r = Vendor!signedRequest(Vendor!Body, 450, changed)
    BY <1>5, Zenon DEF SignedByOther
  <2> HIDE DEF changed
  <2> QED
    BY <1>1, <2>1, <2>2, SignedRequestsFit, ZenonT(60)
<1> QED
  BY <1>2, <1>3, <1>4, <1>5 DEF VendorRequests

\* The changes of a vendor's event are made of JSON.
IsChange(c) == \A f \in DOMAIN c : Vendor!Deep(c[f])
FlatFields(c) == \A f \in DOMAIN c : Vendor!Flat(c[f])

LEMMA SampleValuesAreFlat ==
    /\ Vendor!Flat(Vendor!Absent) /\ Vendor!Flat(Yes) /\ Vendor!Flat(No)
    /\ \A n \in Int : Vendor!Flat(Num(n)) /\ Vendor!Flat(Vendor!Stamp(n))
    /\ \A n, m : m \in Nat => Vendor!Flat(Txt(n, m)) /\ Vendor!Flat(Odd(m, n))
BY Vendor!FlatValues, Zenon DEF Num, Txt, Odd, Yes, No

LEMMA OnlyIs == \A fields, v : DOMAIN Only(fields, v) = fields /\ \A f \in fields : Only(fields, v)[f] = v
BY DEF Only

LEMMA OnlyIsChange == ASSUME NEW fields, NEW v, Vendor!Deep(v) PROVE IsChange(Only(fields, v))
BY OnlyIs, Zenon DEF IsChange

LEMMA OnlyIsFlat == ASSUME NEW fields, NEW v, Vendor!Flat(v) PROVE FlatFields(Only(fields, v))
BY OnlyIs, Zenon DEF FlatFields

LEMMA SpreadsAreDeep ==
    ASSUME NEW base, FlatFields(base), NEW c, FlatFields(c)
    PROVE  Vendor!Deep(Vendor!Rec(Vendor!Spread(base, c)))
<1> DEFINE fields == Vendor!Spread(base, c)
<1>1. /\ fields = [f \in DOMAIN fields |-> fields[f]]
      /\ DOMAIN fields = DOMAIN base \cup DOMAIN c
      /\ \A f \in DOMAIN base \cup DOMAIN c : fields[f] = IF f \in DOMAIN c THEN c[f] ELSE base[f]
  BY Vendor!SpreadIs, Zenon
<1> HIDE DEF fields
<1>2. \A f \in DOMAIN fields : Vendor!Flat(fields[f])
  BY <1>1 DEF FlatFields
<1> QED
  BY <1>1, <1>2, Vendor!RecordsAreDeep, Zenon DEF fields

LEMMA GoodPartsAreFlat == FlatFields(GoodPosition) /\ FlatFields(GoodHealth)
<1>1. /\ DOMAIN GoodPosition = {"latitude", "longitude", "accuracyMeters", "speedMetersPerSecond", "headingDegrees"}
      /\ GoodPosition["latitude"] = Num(13) /\ GoodPosition["longitude"] = Num(78)
      /\ GoodPosition["accuracyMeters"] = Num(8) /\ GoodPosition["speedMetersPerSecond"] = Num(5)
      /\ GoodPosition["headingDegrees"] = Num(90)
  BY DEF GoodPosition
<1>2. /\ DOMAIN GoodHealth = {"heartbeat", "batteryPercent", "externalPower", "gpsFix", "gsmSignalDbm"}
      /\ GoodHealth["heartbeat"] = Yes /\ GoodHealth["batteryPercent"] = Num(88)
      /\ GoodHealth["externalPower"] = Yes /\ GoodHealth["gpsFix"] = Txt("none", 4)
      /\ GoodHealth["gsmSignalDbm"] = Num(-72)
  BY DEF GoodHealth
<1>3. 13 \in Int /\ 78 \in Int /\ 8 \in Int /\ 5 \in Int /\ 90 \in Int /\ 88 \in Int /\ -72 \in Int /\ 4 \in Nat
  OBVIOUS
<1>4. /\ \A v \in {Num(13), Num(78), Num(8), Num(5), Num(90), Num(88), Num(-72)} : Vendor!Flat(v)
      /\ Vendor!Flat(Yes) /\ Vendor!Flat(Txt("none", 4))
  BY <1>3, SampleValuesAreFlat, ZenonT(60)
<1>5. FlatFields(GoodPosition)
  BY <1>1, <1>4 DEF FlatFields
<1>6. FlatFields(GoodHealth)
  BY <1>2, <1>4, Zenon DEF FlatFields
<1> QED
  BY <1>5, <1>6

LEMMA PartsAreChanges ==
    ASSUME NEW f, NEW v, Vendor!Flat(v) PROVE IsChange(Position(f, v)) /\ IsChange(Health(f, v))
BY GoodPartsAreFlat, OnlyIsFlat, SpreadsAreDeep, OnlyIsChange, Zenon DEF Position, Health

LEMMA SensorsAreChanges ==
    ASSUME NEW metric, NEW unit, NEW value, Vendor!Flat(value) PROVE IsChange(Sensor(metric, value, unit))
<1> DEFINE fields == Reading(metric, value, unit)
           record == Vendor!Rec(fields)
<1>1. fields = [f \in DOMAIN fields |-> fields[f]]
      /\ \A f \in DOMAIN fields : fields[f] \in {Txt(metric, 11), value, Txt(unit, 7)}
  BY DEF Reading
<1>2. Vendor!Flat(Txt(metric, 11)) /\ Vendor!Flat(Txt(unit, 7))
  <2>1. 11 \in Nat /\ 7 \in Nat
    OBVIOUS
  <2> QED
    BY <2>1, SampleValuesAreFlat, Zenon
<1> HIDE DEF fields
<1>3. \A f \in DOMAIN fields : Vendor!Flat(fields[f])
  BY <1>1, <1>2
<1>4. Vendor!Deep(record) /\ \A b \in Vendor!Inside(record) : Vendor!Flat(b)
  BY <1>1, <1>3, Vendor!RecordsAreDeep, Zenon
<1> HIDE DEF record
<1>5. Vendor!Deep(Vendor!List(<<record>>))
  BY <1>4, Vendor!ListsAreDeep, Zenon DEF Vendor!Deep
<1> QED
  BY <1>5, OnlyIsChange, Zenon DEF Sensor, fields, record

LEMMA ChangesAreJson == ASSUME NEW c \in VendorChanges PROVE IsChange(c)
<1>1. /\ \A n \in Int : Vendor!Flat(Num(n)) /\ Vendor!Flat(Vendor!Stamp(n))
      /\ \A n, m : m \in Nat => Vendor!Flat(Txt(n, m)) /\ Vendor!Flat(Odd(m, n))
      /\ Vendor!Flat(Vendor!Absent) /\ Vendor!Flat(Yes) /\ Vendor!Flat(No)
  BY SampleValuesAreFlat, Zenon
<1>2. \A v : Vendor!Flat(v) => Vendor!Deep(v)
  BY Vendor!FlatIsDeep, Zenon
<1>3. CASE c \in Without
  <2>1. PICK fields : c = Only(fields, Vendor!Absent)
    BY <1>3 DEF Without
  <2> QED
    BY <1>1, <1>2, <2>1, OnlyIsChange, Zenon
<1>4. CASE c \in With
  <2>1. /\ 2 \in Int /\ 5 \in Nat /\ 16 \in Nat /\ 129 \in Nat /\ 421 \in Int /\ 4 \in Int
        /\ Vendor!YearOne - 1 \in Int
    BY DEF Vendor!YearOne
  <2>2. /\ Vendor!Deep(Num(2)) /\ Vendor!Deep(Txt("other", 5)) /\ Vendor!Deep(Txt("vendor-event-002", 16))
        /\ Vendor!Deep(Txt("v", 129)) /\ Vendor!Deep(Yes) /\ Vendor!Deep(Vendor!Stamp(421))
        /\ Vendor!Deep(Num(4)) /\ Vendor!Deep(Vendor!Stamp(Vendor!YearOne - 1))
    BY <1>1, <1>2, <2>1, Zenon
  <2>3. Vendor!Deep(Vendor!List(<<>>))
    <3>1. Vendor!Shape(Vendor!Absent) /\ \A b \in Vendor!Inside(Vendor!Absent) : Vendor!Flat(b)
      BY <1>1, Zenon DEF Vendor!Flat
    <3> QED
      BY <3>1, Vendor!ListsAreDeep, Zenon
  <2>4. /\ IsChange(Only({"sequence"}, Num(2))) /\ IsChange(Only({"deviceId"}, Txt("other", 5)))
        /\ IsChange(Only({"eventId"}, Txt("vendor-event-002", 16))) /\ IsChange(Only({"eventId"}, Txt("v", 129)))
        /\ IsChange(Only({"offline"}, Yes)) /\ IsChange(Only({"capturedAt"}, Vendor!Stamp(421)))
        /\ IsChange(Only({"capturedAt"}, Num(4))) /\ IsChange(Only({"observations"}, Vendor!List(<<>>)))
        /\ IsChange(Only({"capturedAt"}, Vendor!Stamp(Vendor!YearOne - 1)))
    BY <2>2, <2>3, OnlyIsChange, Zenon
  <2> QED
    BY <1>4, <2>4 DEF With
<1>5. CASE c \in Positions
  <2>1. \/ \E n \in Int : c = Position("latitude", Num(n)) \/ c = Position("longitude", Num(n))
        \/ \E f : c = Position(f, Vendor!Absent) \/ \E n \in Int : c = Position(f, Num(n))
    BY <1>5 DEF Positions
  <2> QED
    BY <1>1, <2>1, PartsAreChanges, Zenon
<1>6. CASE c \in Healths
  <2>1. \E f : c = Health(f, Vendor!Absent) \/ c = Health(f, No) \/ \E n \in Int : c = Health(f, Num(n))
    BY <1>6 DEF Healths
  <2> QED
    BY <1>1, <2>1, PartsAreChanges, Zenon
<1>7. CASE c \in Sensors
  <2>1. PICK m \in {"temperature", "fuel_level", "door_state", "ignition", "mood"}, v \in Readings,
             u \in {"celsius", "percentage", "boolean"} : c = Sensor(m, v, u)
    BY <1>7 DEF Sensors
  <2>2. -1 \in Int /\ 100 \in Int /\ 300 \in Int /\ 4 \in Nat
    OBVIOUS
  <2> QED
    BY <1>1, <2>1, <2>2, SensorsAreChanges, Zenon DEF Readings
<1>8. CASE c \in OddTexts
  <2>1. PICK f \in {"eventId", "streamEpoch"}, v \in Oddities : c = Only({f}, v)
    BY <1>8 DEF OddTexts
  <2>2. 0 \in Nat /\ 16 \in Nat
    OBVIOUS
  <2>3. Vendor!Flat(v)
    BY <1>1, <2>1, <2>2, Zenon DEF Oddities
  <2> QED
    BY <1>2, <2>1, <2>3, OnlyIsChange, Zenon
<1> QED
  BY <1>3, <1>4, <1>5, <1>6, <1>7, <1>8, Zenon DEF VendorChanges

LEMMA EventsAreJson == \A e \in VendorEvents : Vendor!Json(e)
<1> SUFFICES ASSUME NEW c \in VendorChanges PROVE Vendor!Json(Vendor!baseEvent(c))
  BY DEF VendorEvents
<1> QED
  BY ChangesAreJson, Vendor!ChangedEventsAreJson, Zenon DEF IsChange

LEMMA ReadinessIsAnalysis == \A i \in Readiness : Site!IsAnalysis(i)
BY DEF Readiness, Site!IsAnalysis


LEMMA HardwareInitially == MCInit => HardwareSamples
<1> SUFFICES ASSUME MCInit PROVE HardwareSamples
  OBVIOUS
<1>1. CASE part # "sample"
  <2>1. sample.of = "none"
    BY <1>1 DEF MCInit
  <2> QED
    BY <2>1 DEF HardwareSamples, RequestSample, EventSample, ReadinessSample
<1>2. CASE part = "sample"
  <2>1. SampleInit
    BY <1>2 DEF MCInit
  <2>2. CASE \E o \in VendorOptions, r \in VendorRequests : sample = [of |-> "request", options |-> o, request |-> r]
    <3>1. sample.of = "request" /\ sample.options \in VendorOptions /\ sample.request \in VendorRequests
      BY <2>2
    <3> QED
      BY <3>1, OptionsHaveInstants, RequestsHaveInstants DEF HardwareSamples, RequestSample, EventSample, ReadinessSample
  <2>3. CASE \E e \in VendorEvents : sample = [of |-> "event", event |-> e]
    <3>1. sample.of = "event" /\ sample.event \in VendorEvents
      BY <2>3
    <3> QED
      BY <3>1, EventsAreJson DEF HardwareSamples, RequestSample, EventSample, ReadinessSample
  <2>4. CASE \E i \in Readiness : sample = [of |-> "readiness", readiness |-> i]
    <3>1. sample.of = "readiness" /\ sample.readiness \in Readiness
      BY <2>4
    <3> QED
      BY <3>1, ReadinessIsAnalysis DEF HardwareSamples, RequestSample, EventSample, ReadinessSample
  <2>5. CASE sample.of \notin {"request", "event", "readiness"}
    BY <2>5 DEF HardwareSamples, RequestSample, EventSample, ReadinessSample
  <2> QED
    BY <2>1, <2>2, <2>3, <2>4, <2>5 DEF SampleInit
<1> QED
  BY <1>1, <1>2

\* Only what a vendor signed is taken, what it normalises to is stored exactly if
\* PostgreSQL has values for its instant and its texts, no hardware is ready without the evidence its manifest promises, and the
\* registry and its page agree on which device is installed and ready, for any
\* devices, vehicles, credentials and numbers of reads.
THEOREM HardwareAlwaysProven ==
    ASSUME Site!NoneIsNoName
    PROVE  MCSpec => []HardwareIsProven
<1>1. MCInit => Site!RegistryInit
  BY DEF MCInit
<1>2. [MCNext]_allVars => [Site!RegistryNext \/ Site!PageNext]_(Site!registryVars)
  BY DEF MCNext, allVars, registryVars, Site!registryVars
<1>3. MCSpec => Site!RegistrySpec
  BY <1>1, <1>2, PTL DEF MCSpec, Site!RegistrySpec
<1>4. HardwareSamples /\ [MCNext]_allVars => HardwareSamples'
  <2> SUFFICES ASSUME HardwareSamples, [MCNext]_allVars PROVE HardwareSamples'
    OBVIOUS
  <2>1. UNCHANGED sample
    BY DEF MCNext, allVars
  <2> QED
    BY <2>1 DEF HardwareSamples, RequestSample, EventSample, ReadinessSample
<1>5. MCSpec => []HardwareSamples
  BY <1>4, HardwareInitially, PTL DEF MCSpec
<1>6. ASSUME HardwareSamples, Site!ActiveMeansInstalled, Site!RetiredIsForever, Site!IdentityIsItsOwn,
             Site!TransitionsAgree, Site!PageIsAboutTheSelected
      PROVE  HardwareIsProven
  <2>1. ASSUME sample.of = "request"
        PROVE  Vendor!OnlyTheSignedRequest(sample.request, sample.options, VendorBodies, VendorTimes, DOMAIN VendorKeys)
    <3> DEFINE asked == sample.request
               options == sample.options
               keyIds == DOMAIN VendorKeys
    <3>1. /\ asked = [x \in DOMAIN asked |-> asked[x]]
          /\ asked.timestamp \in Int /\ options.receivedAt \in Int
          /\ options.deviceStatus \in {"unknown", "inactive", "active"}
      BY <1>6, <2>1 DEF HardwareSamples, RequestSample, HasInstant
    <3> HIDE DEF asked, options, keyIds
    <3>2. Vendor!OnlyTheSignedRequest(asked, options, VendorBodies, VendorTimes, keyIds)
      BY <3>1, Vendor!OnlyTheSignedRequestPasses
    <3> QED
      BY <3>2 DEF asked, options, keyIds
  <2>2. ASSUME sample.of = "event"
        PROVE  Vendor!EventsAreSound(sample.event, VendorEvents, 480, 600)
    <3>1. Vendor!Json(sample.event) /\ (\A f \in VendorEvents : Vendor!Json(f)) /\ 480 \in Nat /\ 600 \in Nat
      BY <1>6, <2>2, EventsAreJson DEF HardwareSamples, EventSample
    <3> QED
      BY <3>1, Vendor!VendorEventsAlwaysSound, ZenonT(60)
  <2>3. sample.of = "manifest" => Site!StoredManifestsAreValid(sample.manifest)
    BY Site!StoredManifestsAlwaysValid, Zenon
  <2>4. ASSUME sample.of = "claim", NEW rest \in Rest, NEW capabilities \in [Site!Capable -> BOOLEAN]
        PROVE  Site!EvidenceAgrees(Vendor!Spread(sample.claim, rest), capabilities, 24)
    <3> DEFINE m == Vendor!Spread(sample.claim, rest)
    <3>1. "count" \in DOMAIN rest /\ rest["count"] \in Int
      BY DEF Rest, Site!MaxCount
    <3>2. /\ DOMAIN m = DOMAIN sample.claim \cup DOMAIN rest
          /\ \A f \in DOMAIN sample.claim \cup DOMAIN rest : m[f] = IF f \in DOMAIN rest THEN rest[f] ELSE sample.claim[f]
      BY Vendor!SpreadIs, Zenon
    <3> HIDE DEF m
    <3>3. m.count \in Int
      BY <3>1, <3>2
    <3>4. \A o \in Site!Capable : capabilities[o] \in BOOLEAN
      OBVIOUS
    <3>5. Site!EvidenceAgrees(m, capabilities, 24)
      BY <3>3, <3>4, Site!EvidenceAlwaysAgrees, Zenon
    <3> QED
      BY <3>5 DEF m
  <2>5. sample.of = "readiness" => Site!MoreEvidenceIsNeverWorse(sample.readiness, Readiness)
    BY <1>6, ReadinessIsAnalysis, Site!MoreEvidenceNeverWorse, Zenon DEF HardwareSamples, ReadinessSample
  <2>6. ASSUME NEW labels \in [reviewed : -1..3, positive : -1..3, negative : -1..3]
        PROVE  Site!LabelsFit(labels)
    <3> DEFINE counts == [reviewed |-> labels.reviewed, positive |-> labels.positive, negative |-> labels.negative]
    <3>1. labels = counts /\ labels.reviewed \in Int /\ labels.positive \in Int /\ labels.negative \in Int
      OBVIOUS
    <3>2. Site!LabelsFit(counts)
      BY <3>1, Site!LabelsAlwaysFit, Zenon
    <3> HIDE DEF counts
    <3> QED
      BY <3>1, <3>2
  <2> QED
    BY <1>6, <2>1, <2>2, <2>3, <2>4, <2>5, <2>6, Zenon DEF HardwareIsProven
<1>7. MCSpec => [](Site!ActiveMeansInstalled /\ Site!RetiredIsForever /\ Site!IdentityIsItsOwn
                   /\ Site!TransitionsAgree /\ Site!PageIsAboutTheSelected)
  BY <1>3, Site!ActiveDevicesAreInstalled, Site!RetirementIsFinal, Site!PageKeepsDevicesApart,
     Site!PageAgreesWithDatabase, PTL
<1> QED
  BY <1>5, <1>6, <1>7, PTL
=============================================================================
