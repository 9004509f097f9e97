--------------------------- MODULE AnalysisQueue ---------------------------
(***************************************************************************)
(* The three background queues (rules M22, comparisons M23, statistics     *)
(* M25) and the scheduled worker that drains each of them.                 *)
(*                                                                         *)
(* A page (one call of the queue function) is ONE database transaction:    *)
(* it locks rows, evaluates each in a subtransaction and commits all of it *)
(* or nothing.  The value 'processing' and the flag dirty_after_claim that *)
(* a page writes before it evaluates are therefore never seen by another   *)
(* transaction, and an enqueue on a row a page holds waits for its commit; *)
(* here the lock says so and the committed row has no such value.          *)
(* Time is the minute of the schedule: row[j].wait is how many more        *)
(* invocations start before next_attempt_at has passed.                    *)
(***************************************************************************)
EXTENDS Integers, FiniteSets

CONSTANTS Jobs,          \* scopes of work: a signal, a work day, a feature period
          PageSlots,     \* numbers of the queue calls that may be open at one time
          Kinds,         \* which of "m22", "m23", "m25" the instance runs
          AttemptLimit,  \* attempts after which a row is no longer claimed (8)
          BatchLimit,    \* rows per page of M22 (200) and M25 (50); M23 asks for 1
          MaxIterations, \* waves per invocation (4)
          MaxChanges,    \* bound: changes of evidence
          MaxFailures,   \* bound: evaluations that raise an error
          MaxAborts      \* bound: pages rolled back or answers lost, worker timeouts

ASSUME QueueAssumption ==
    /\ PageSlots \subseteq Nat \ {0}
    /\ Kinds \subseteq {"m22", "m23", "m25"}

(* One slot more than calls of a wave, a page of a row, an attempt.        *)
ASSUME LimitsAssumption ==
    /\ IsFiniteSet(Jobs) /\ IsFiniteSet(PageSlots) /\ Cardinality(PageSlots) > 1
    /\ {BatchLimit, AttemptLimit} \subseteq Nat \ {0}

VARIABLES kind,       \* the queue of this behaviour
          row,        \* the committed queue row of each job
          evidence,   \* committed changes of the job's evidence
          evaluated,  \* how many of them the last completed evaluation read
          lock,       \* who holds the row: Free, Writer or a page slot
          page,       \* the open queue calls
          worker,     \* the invocation of the scheduled function
          run,        \* what the database did for this invocation
          faults      \* failures and aborts that happened, for the bounds

vars == <<kind, row, evidence, evaluated, lock, page, worker, run, faults>>

Free == 0
Writer == -1

Smaller(a, b) == IF a < b THEN a ELSE b

(* 5 * 2^attempts seconds, 300 at most, in invocations of a minute. *)
BackoffMinutes(n) == (Smaller(300, 5 * 2 ^ Smaller(n, 6)) + 59) \div 60

Width == IF kind = "m22" THEN 1 ELSE Cardinality(PageSlots) - 1
Batch == IF kind = "m23" THEN 1 ELSE BatchLimit

NoPage == [phase |-> "free", mine |-> FALSE, todo |-> {}, done |-> {},
           failed |-> {}, swept |-> {}]

Idle == [phase |-> "idle", iteration |-> 0, claimed |-> 0, completed |-> 0,
         retried |-> 0, cause |-> "none", status |-> "none"]

Due(j) == /\ row[j].state = "pending"
          /\ row[j].wait = 0
          /\ row[j].attempts < AttemptLimit

-----------------------------------------------------------------------------
(* Enqueue: a transaction that adds evidence and asks for an evaluation. *)

FreshRow == [state |-> "pending", attempts |-> 0, requested |-> 1,
             completed |-> 0, provisional |-> FALSE,
             wait |-> IF kind = "m25" THEN 0 ELSE 1]

RuleEnqueued(r) == IF r.state = "absent" THEN FreshRow ELSE r

ComparisonEnqueued(r) ==
    IF r.state = "absent" THEN FreshRow
    ELSE [r EXCEPT !.requested = @ + 1, !.state = "pending", !.wait = 1,
                   !.attempts = IF r.state = "failed" THEN 0 ELSE @]

StatisticsEnqueued(r) ==
    IF r.state = "absent" THEN FreshRow
    ELSE [r EXCEPT !.requested = @ + 1, !.state = "pending", !.wait = 0,
                   !.attempts = 0]

Enqueued(r) == CASE kind = "m22" -> RuleEnqueued(r)
                 [] kind = "m23" -> ComparisonEnqueued(r)
                 [] kind = "m25" -> StatisticsEnqueued(r)

SumOver(f(_), S) == LET total[s \in SUBSET S] ==
                          IF s = {} THEN 0
                          ELSE LET p == CHOOSE x \in s : TRUE
                               IN f(p) + total[s \ {p}]
                    IN total[S]

Changes == LET count(j) == evidence[j] + (IF lock[j] = Writer THEN 1 ELSE 0)
           IN SumOver(count, Jobs)

(* A rule signal is a row of its own: it is inserted once and never again. *)
WriterLocks(j) ==
    /\ lock[j] = Free
    /\ Changes < MaxChanges
    /\ kind = "m22" => row[j].state = "absent"
    /\ lock' = [lock EXCEPT ![j] = Writer]
    /\ UNCHANGED <<kind, row, evidence, evaluated, page, worker, run, faults>>

WriterCommits(j) ==
    /\ lock[j] = Writer
    /\ lock' = [lock EXCEPT ![j] = Free]
    /\ evidence' = [evidence EXCEPT ![j] = @ + 1]
    /\ row' = [row EXCEPT ![j] = Enqueued(@)]
    /\ UNCHANGED <<kind, evaluated, page, worker, run, faults>>

-----------------------------------------------------------------------------
(* A page: the queue functions of the three migrations. *)

(* M23 first requeues completed jobs whose provisional result has come of  *)
(* age.  One page at a time owns the sweep cursor.                         *)
SweepCandidates ==
    IF kind = "m23" /\ \A q \in PageSlots : page[q].swept = {}
    THEN {j \in Jobs : /\ row[j].state = "completed"
                       /\ row[j].provisional
                       /\ lock[j] = Free
                       /\ Changes < MaxChanges}
    ELSE {}

Swept(r) == [r EXCEPT !.requested = @ + 1, !.state = "pending", !.wait = 0]

(* What a page finds: the rows it has just swept and those that are due.   *)
Open(swept) ==
    {j \in Jobs : \/ j \in swept /\ row[j].attempts < AttemptLimit
                  \/ Due(j) /\ (kind = "m25" \/ lock[j] = Free)}

(* FOR UPDATE SKIP LOCKED takes the rows at once.  M25 selects without a   *)
(* lock and waits for each cohort later.                                   *)
PageStarts(p) ==
    /\ page[p].phase = "called"
    /\ \E swept \in SUBSET SweepCandidates :
         \E todo \in {s \in SUBSET Open(swept) :
                         Cardinality(s) = Smaller(Batch, Cardinality(Open(swept)))} :
              /\ page' = [page EXCEPT ![p].phase = "running", ![p].todo = todo,
                                      ![p].swept = swept]
              /\ lock' = [j \in Jobs |->
                            IF j \in swept \/ (j \in todo /\ kind # "m25")
                            THEN p ELSE lock[j]]
              /\ run' = [run EXCEPT !.blocked = @ \cup
                           {j \in Jobs : lock[j] # Free /\
                              ~ (lock[j] \in PageSlots /\ page[lock[j]].mine)}]
    /\ UNCHANGED <<kind, row, evidence, evaluated, worker, faults>>

(* The evaluation of one row, in a subtransaction that an error undoes.    *)
(* M25 takes the row lock here and skips a row that is no longer live.     *)
PageEvaluates(p, j) ==
    /\ page[p].phase = "running"
    /\ j \in page[p].todo
    /\ lock[j] \in {p, Free}
    /\ \/ /\ lock[j] = Free /\ ~ Due(j)
          /\ page' = [page EXCEPT ![p].todo = @ \ {j}]
          /\ UNCHANGED <<lock, faults>>
       \/ /\ lock[j] = p \/ Due(j)
          /\ lock' = [lock EXCEPT ![j] = p]
          /\ \/ /\ page' = [page EXCEPT ![p].todo = @ \ {j}, ![p].done = @ \cup {j}]
                /\ UNCHANGED faults
             \/ /\ faults.failures < MaxFailures
                /\ faults' = [faults EXCEPT !.failures = @ + 1]
                /\ page' = [page EXCEPT ![p].todo = @ \ {j}, ![p].failed = @ \cup {j}]
    /\ UNCHANGED <<kind, row, evidence, evaluated, worker, run>>

CompletedRow(r) == [r EXCEPT !.state = "completed", !.attempts = @ + 1,
                             !.completed = r.requested]

(* A mutated form: a failed evaluation leaves the row claimed. *)
StaysClaimed(r) ==
    [r EXCEPT !.attempts = @ + 1,
              !.state = IF r.attempts + 1 >= AttemptLimit THEN "failed" ELSE "processing"]

(* A page that has used the last attempt gives the row up. *)
RetriedRow(r) ==
    [r EXCEPT !.attempts = @ + 1,
              !.state = IF r.attempts + 1 >= AttemptLimit THEN "failed" ELSE "pending",
              !.wait = BackoffMinutes(r.attempts + 1)]

(* A mutated form: only rows that were completed are let go. *)
ReleasedDone(p) ==
    [j \in Jobs |-> IF lock[j] = p /\ j \in page[p].done THEN Free ELSE lock[j]]

Released(p) == [j \in Jobs |-> IF lock[j] = p THEN Free ELSE lock[j]]

(* The commit makes the whole page visible and answers the caller; the     *)
(* answer of a caller that gave up, or a lost answer, reaches nobody.      *)
PageCommits(p) ==
    /\ page[p].phase = "running"
    /\ page[p].todo = {}
    /\ \E provisional \in SUBSET {j \in page[p].done : kind = "m23"} :
         row' = [j \in Jobs |->
           LET claimed == IF j \in page[p].swept THEN Swept(row[j]) ELSE row[j] IN
             IF j \in page[p].done
             THEN [CompletedRow(claimed) EXCEPT !.provisional = j \in provisional]
             ELSE IF j \in page[p].failed THEN RetriedRow(claimed) ELSE claimed]
    /\ evidence' = [j \in Jobs |->
         IF j \in page[p].swept THEN evidence[j] + 1 ELSE evidence[j]]
    /\ evaluated' = [j \in Jobs |->
         IF j \in page[p].done THEN evidence'[j] ELSE evaluated[j]]
    /\ lock' = Released(p)
    /\ run' = IF page[p].mine
              THEN [run EXCEPT !.completed = @ + Cardinality(page[p].done),
                               !.retried = @ + Cardinality(page[p].failed)]
              ELSE run
    /\ \/ /\ page' = [page EXCEPT ![p] =
                        IF @.mine THEN [@ EXCEPT !.phase = "answered"] ELSE NoPage]
          /\ UNCHANGED faults
       \/ /\ page[p].mine
          /\ faults.aborts < MaxAborts
          /\ faults' = [faults EXCEPT !.aborts = @ + 1]
          /\ page' = [page EXCEPT ![p].phase = "rejected"]
    /\ UNCHANGED <<kind, worker>>

RolledBack(p) ==
    /\ lock' = Released(p)
    /\ page' = [page EXCEPT ![p] =
                  IF @.mine THEN [NoPage EXCEPT !.phase = "rejected", !.mine = TRUE]
                  ELSE NoPage]

(* A statement timeout or a lost connection undoes the page, the attempts  *)
(* it counted included.                                                    *)
PageAborts(p) ==
    /\ page[p].phase = "running"
    /\ faults.aborts < MaxAborts
    /\ faults' = [faults EXCEPT !.aborts = @ + 1]
    /\ RolledBack(p)
    /\ UNCHANGED <<kind, row, evidence, evaluated, worker, run>>

(* Two statistics pages that wait for each other's cohort: the database    *)
(* cancels one.                                                            *)
PageDeadlocks(p) ==
    /\ page[p].phase = "running"
    /\ \E q \in PageSlots \ {p} :
         /\ \E j \in page[p].todo : lock[j] = q
         /\ \E j \in page[q].todo : lock[j] = p
    /\ RolledBack(p)
    /\ UNCHANGED <<kind, row, evidence, evaluated, worker, run, faults>>

-----------------------------------------------------------------------------
(* The scheduled function. *)

Mine == {p \in PageSlots : page[p].mine}

NothingOpen == \A p \in PageSlots : page[p] = NoPage

Reported(w, status, cause) == [w EXCEPT !.phase = "idle", !.status = status, !.cause = cause]

Summary(w) == Reported(w, IF w.retried = 0 /\ w.status # "partial" THEN "ok" ELSE "partial",
                       w.cause)

(* Every invocation takes its own time first; M22 sweeps before the queue  *)
(* "so a busy evaluation queue cannot starve health progression".          *)
InvocationStarts ==
    /\ worker.phase = "idle"
    /\ \/ \E j \in Jobs : row[j].state = "pending"
       \/ SweepCandidates # {}
    /\ worker' = [Idle EXCEPT !.phase = IF kind = "m22" THEN "sweep" ELSE "next"]
    /\ row' = [j \in Jobs |-> [row[j] EXCEPT !.wait = IF @ = 0 THEN 0 ELSE @ - 1]]
    /\ run' = [due |-> {j \in Jobs : NothingOpen /\ Due(j)'}, target |-> evidence,
               blocked |-> {}, completed |-> 0, retried |-> 0]
    /\ UNCHANGED <<kind, evidence, evaluated, lock, page, faults>>

SweepAnswered ==
    /\ worker.phase = "sweep"
    /\ \/ worker' = [worker EXCEPT !.phase = "next"] /\ UNCHANGED faults
       \/ /\ faults.aborts < MaxAborts
          /\ faults' = [faults EXCEPT !.aborts = @ + 1]
          /\ worker' = Reported(Idle, "failed", "error")
    /\ UNCHANGED <<kind, row, evidence, evaluated, lock, page, run>>

FreeSlots == {p \in PageSlots : page[p].phase = "free"}

(* Slots are interchangeable: a wave takes the lowest free ones. *)
WaveStarts ==
    /\ worker.phase = "next"
    /\ worker.iteration < MaxIterations
    /\ \E slots \in SUBSET FreeSlots :
         /\ Cardinality(slots) = Width
         /\ \A p \in slots : \A q \in FreeSlots \ slots : p < q
         /\ page' = [p \in PageSlots |->
              IF p \in slots THEN [NoPage EXCEPT !.phase = "called", !.mine = TRUE]
              ELSE page[p]]
    /\ worker' = [worker EXCEPT !.phase = "wave", !.iteration = @ + 1]
    /\ UNCHANGED <<kind, row, evidence, evaluated, lock, run, faults>>

(* The loop ends at the iteration limit or at the soft deadline. *)
LoopEnds ==
    /\ worker.phase = "next"
    /\ worker.iteration > 0
    /\ worker' = [worker EXCEPT !.phase = "compact", !.cause = "limit"]
    /\ UNCHANGED <<kind, row, evidence, evaluated, lock, page, run, faults>>

(* What the answered pages report, each row once for its page. *)
DoneIn(answered) == {x \in answered \X Jobs : x[2] \in page[x[1]].done}
FailedIn(answered) == {x \in answered \X Jobs : x[2] \in page[x[1]].failed}
ClaimedIn(answered) == DoneIn(answered) \cup FailedIn(answered)

(* A mutated form: a failed row counts as completed too. *)
TalliedClaims(w, answered) ==
    [w EXCEPT !.claimed = @ + Cardinality(ClaimedIn(answered)),
              !.retried = @ + Cardinality(FailedIn(answered)),
              !.completed = @ + Cardinality(ClaimedIn(answered))]

Tallied(w, answered) ==
    [w EXCEPT !.claimed = @ + Cardinality(ClaimedIn(answered)),
              !.retried = @ + Cardinality(FailedIn(answered)),
              !.completed = @ + Cardinality(DoneIn(answered))]

(* M22 and M23 stop after a wave that was not full; M25 after one with a   *)
(* failure or when nothing was claimed at all.                             *)
StopsAfter(w, answered) ==
    IF kind = "m25" THEN w.retried > 0 \/ w.claimed = 0
    ELSE Cardinality(ClaimedIn(answered)) < Width * Batch

WaveSettles ==
    /\ worker.phase = "wave"
    /\ \A p \in Mine : page[p].phase \in {"answered", "rejected"}
    /\ page' = [p \in PageSlots |-> IF p \in Mine THEN NoPage ELSE page[p]]
    /\ LET answered == {p \in Mine : page[p].phase = "answered"}
           tallied  == Tallied(worker, answered)
           failed   == answered # Mine
       IN IF failed /\ kind # "m25"
          THEN worker' = Reported(Idle, "failed", "error")
          ELSE worker' = [tallied EXCEPT
                 !.status = IF failed \/ tallied.retried > 0 THEN "partial" ELSE @,
                 !.phase = IF StopsAfter(tallied, answered) THEN "compact" ELSE "next",
                 !.cause = IF StopsAfter(tallied, answered) THEN "drained" ELSE @]
    /\ UNCHANGED <<kind, row, evidence, evaluated, lock, run, faults>>

(* The abort closes the connections; what the database still runs it       *)
(* finishes on its own.                                                    *)
InvocationTimesOut ==
    /\ worker.phase = "wave"
    /\ \E p \in Mine : page[p].phase \in {"called", "running"}
    /\ faults.aborts < MaxAborts
    /\ faults' = [faults EXCEPT !.aborts = @ + 1]
    /\ page' = [p \in PageSlots |->
         IF p \notin Mine THEN page[p]
         ELSE IF page[p].phase = "running" THEN [page[p] EXCEPT !.mine = FALSE]
         ELSE NoPage]
    /\ LET answered == {p \in Mine : page[p].phase = "answered"} IN
       worker' = IF kind = "m25"
                 THEN Reported(Tallied(worker, answered), "partial", "error")
                 ELSE Reported(Idle, "failed", "error")
    /\ UNCHANGED <<kind, row, evidence, evaluated, lock, run>>

(* Compaction: its failure fails M22, is noted by M23 and spoils M25. *)
Compacts ==
    /\ worker.phase = "compact"
    /\ \/ worker' = Summary(worker) /\ UNCHANGED faults
       \/ /\ faults.aborts < MaxAborts
          /\ faults' = [faults EXCEPT !.aborts = @ + 1]
          /\ worker' = CASE kind = "m22" -> Reported(Idle, "failed", "error")
                         [] kind = "m23" -> Summary(worker)
                         [] kind = "m25" -> Reported(worker, "partial", worker.cause)
    /\ UNCHANGED <<kind, row, evidence, evaluated, lock, page, run>>

-----------------------------------------------------------------------------
Init ==
    /\ kind \in Kinds
    /\ row = [j \in Jobs |-> [state |-> "absent", attempts |-> 0, requested |-> 0,
                              completed |-> 0, provisional |-> FALSE, wait |-> 0]]
    /\ evidence = [j \in Jobs |-> 0]
    /\ evaluated = [j \in Jobs |-> 0]
    /\ lock = [j \in Jobs |-> Free]
    /\ page = [p \in PageSlots |-> NoPage]
    /\ worker = Idle
    /\ run = [due |-> {}, target |-> evidence, blocked |-> {}, completed |-> 0, retried |-> 0]
    /\ faults = [failures |-> 0, aborts |-> 0]

WriterSteps == \E j \in Jobs : WriterLocks(j) \/ WriterCommits(j)

PageProgress(p) == \/ PageStarts(p)
                   \/ \E j \in Jobs : PageEvaluates(p, j)
                   \/ PageCommits(p)

PageSteps == \E p \in PageSlots : PageProgress(p) \/ PageAborts(p) \/ PageDeadlocks(p)

WorkerSteps == \/ InvocationStarts \/ SweepAnswered \/ WaveStarts \/ LoopEnds
               \/ WaveSettles \/ InvocationTimesOut \/ Compacts

Next == WriterSteps \/ PageSteps \/ WorkerSteps

(* The schedule calls the function every minute, its own steps and those   *)
(* of the database go on, and a transaction that began ends.               *)
Fairness == /\ WF_vars(WorkerSteps)
            /\ \A p \in PageSlots : WF_vars(PageProgress(p) \/ PageDeadlocks(p))
            /\ \A j \in Jobs : WF_vars(WriterCommits(j))

Spec == Init /\ [][Next]_vars /\ Fairness
-----------------------------------------------------------------------------
(* A row that is out of attempts stays as it is. *)
OutOfAttempts(j) == row[j].state = "pending" /\ row[j].attempts >= AttemptLimit

Settled(j) == evaluated[j] = evidence[j] \/ row[j].state = "failed"

(* Every change of evidence is evaluated in the end, or its row is marked  *)
(* failed: a wakeup is lost neither to a page that holds the row, nor to a *)
(* rollback, a timeout or a backoff.  The comparison queue is excepted for *)
(* rows whose attempts are used up; see LateChangesAreEvaluated.           *)
EveryChangeIsSettled ==
    \A j \in Jobs : [](evaluated[j] < evidence[j]
                       => <>(Settled(j) \/ (kind = "m23" /\ OutOfAttempts(j))))

(* The tests of the comparison queue say that a newer generation of a job  *)
(* re-enters pending and that no wakeup is lost: every change is evaluated *)
(* or its row fails.                                                       *)
LateChangesAreEvaluated ==
    \A j \in Jobs : [](evaluated[j] < evidence[j] => <>Settled(j))

(* What the summary of an invocation says is what the database did: it     *)
(* never reports a completion that was not committed, and after "ok" no    *)
(* row of it failed, none of its calls is still open, and if the loop      *)
(* ended because the queue was drained, every row that was due at the      *)
(* start (with no call of an earlier invocation still open), was not held  *)
(* by a writer and has not changed since has been evaluated.               *)
ReportIsTrue ==
    worker.phase = "idle" =>
      /\ worker.completed <= run.completed
      /\ worker.status = "ok" =>
           /\ run.retried = 0
           /\ worker.completed = run.completed
           /\ Mine = {}
           /\ worker.cause = "drained" =>
                \A j \in run.due \ run.blocked :
                   evaluated[j] >= run.target[j] \/ evidence[j] > run.target[j]

(* A row is held by one page at a time, that page is open and lists it,    *)
(* and the generation a row has completed is one that was requested.       *)
RowsAreExclusive ==
    \A j \in Jobs :
      /\ lock[j] \in PageSlots =>
           /\ page[lock[j]].phase = "running"
           /\ j \in page[lock[j]].todo \cup page[lock[j]].done
                      \cup page[lock[j]].failed \cup page[lock[j]].swept
      /\ \A p, q \in PageSlots :
           /\ page[p].phase = "running" /\ page[q].phase = "running"
           /\ j \in page[p].done \cup page[p].failed
           /\ j \in page[q].done \cup page[q].failed
           => p = q
      /\ row[j].completed <= row[j].requested
      /\ row[j].state = "completed" => evaluated[j] = evidence[j]
=============================================================================
