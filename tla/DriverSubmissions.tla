------------------------- MODULE DriverSubmissions -------------------------
(***************************************************************************)
(* The two forms of the driver app that send something once: the           *)
(* application of a new driver (one call) and a photo proof (a row, a file *)
(* and a completion).  The app keeps one attempt per form, the id it sends *)
(* and the fingerprint of what it sends, in memory and in the phone's      *)
(* storage, so that a retry after a lost answer or a restart is the same   *)
(* submission.  The database decides by that id.                           *)
(***************************************************************************)
EXTENDS Integers, FiniteSets

CONSTANTS Details,     \* what a form can say (its fingerprint)
          MaxIds,      \* bound: submission ids the app creates
          MaxTroubles  \* bound: lost answers, timeouts and restarts

VARIABLES form,     \* "application" or "proof": the form of this behaviour
          phone,    \* the running submission: [step, detail, id]
          memory,   \* the attempt in memory
          storage,  \* the attempt in the phone's storage
          ids,      \* ids created so far
          table,    \* rows, stored photos and drafts of customer updates
          world,    \* the work: [running, released, driver]
          seen,     \* the app's copy of the day: is it running?
          flying,   \* timed out requests that may still be executed
          sent,     \* ids whose submission the app reported as sent
          replaced, \* ids whose attempt another fingerprint replaced
          troubles

submissionVars == <<form, phone, memory, storage, ids, table, world, seen, flying, sent, replaced, troubles>>

Ids == 1..MaxIds
NoAttempt == [id |-> 0]
NoRow == [status |-> "none"]
IdlePhone == [step |-> "idle"]
Exists(id) == table.row[id].status # "none"

-----------------------------------------------------------------------------
(* What each request does in the database: [ok, table]. *)

Refused == [ok |-> FALSE, table |-> table]
Answered(t) == [ok |-> TRUE, table |-> t]
RowPut(id, row) == [table EXCEPT !.row[id] = row]

SubmitApplication(r) ==
    IF ~ Exists(r.id) THEN Answered(RowPut(r.id, [status |-> "new", detail |-> r.detail]))
    ELSE IF table.row[r.id].detail = r.detail THEN Answered(table)
    ELSE Refused

(* Work code, mobile number and assignment, as all proof calls look them up. *)
Authorised == world.released /\ world.driver = "own"

RequestSlot(r) ==
    IF ~ Authorised THEN Refused
    ELSE IF Exists(r.id)
         THEN IF table.row[r.id].detail = r.detail THEN Answered(table) ELSE Refused
    ELSE IF ~ world.running THEN Refused
    ELSE Answered(RowPut(r.id, [status |-> "pending_upload", detail |-> r.detail, review |-> "waiting_review"]))

(* The storage policy; a photo that is already there (409) is as good. *)
StorePhoto(r) ==
    IF /\ Exists(r.id) /\ table.row[r.id].status = "pending_upload"
       /\ table.row[r.id].review = "waiting_review" /\ world.running
    THEN Answered([table EXCEPT !.photos = @ \cup {r.id}])
    ELSE Refused

CompleteUpload(r) ==
    IF ~ Authorised \/ ~ Exists(r.id) THEN Refused
    ELSE IF table.row[r.id].status = "uploaded" THEN Answered(table)
    ELSE IF r.id \notin table.photos THEN Refused
    ELSE Answered([RowPut(r.id, [table.row[r.id] EXCEPT !.status = "uploaded"]) EXCEPT !.added[r.id] = @ + 1])

Executed(r) ==
    CASE r.step = "apply" -> SubmitApplication(r)
      [] r.step = "slot" -> RequestSlot(r)
      [] r.step = "upload" -> StorePhoto(r)
      [] r.step = "complete" -> CompleteUpload(r)

-----------------------------------------------------------------------------
(* The app. *)

(* A mutated form: the attempt does not survive a restart. *)
KeptInMemory == memory
KeptAttempt == IF memory # NoAttempt THEN memory ELSE storage

AttemptFor(detail) ==
    IF KeptAttempt # NoAttempt /\ KeptAttempt.detail = detail THEN KeptAttempt
    ELSE [id |-> ids + 1, detail |-> detail]

(* The form is validated, its attempt is stored, the first request leaves. *)
Submits(detail) ==
    /\ phone = IdlePhone
    /\ form = "proof" => seen
    /\ LET attempt == AttemptFor(detail)
       IN /\ attempt.id \in Ids
          /\ ids' = IF attempt.id > ids THEN attempt.id ELSE ids
          /\ storage' = attempt
          /\ memory' = attempt
          /\ replaced' = IF storage # NoAttempt /\ storage.detail # detail THEN replaced \cup {storage.id} ELSE replaced
          /\ phone' = [step |-> IF form = "proof" THEN "slot" ELSE "apply", id |-> attempt.id, detail |-> detail]
    /\ UNCHANGED <<form, table, world, seen, flying, sent, troubles>>

(* The step after a good answer that left the table t. *)
StepAfter(t) ==
    CASE phone.step = "slot" /\ t.row[phone.id].status = "pending_upload" -> "upload"
      [] phone.step \in {"apply", "complete"} -> "idle"
      [] OTHER -> "complete"

(* The answer arrives: the next request, the message of success, the error. *)
AnswerArrives ==
    /\ phone # IdlePhone
    /\ LET answer == Executed(phone)
           next   == IF answer.ok THEN StepAfter(answer.table) ELSE "idle"
       IN /\ table' = answer.table
          /\ phone' = IF next = "idle" THEN IdlePhone ELSE [phone EXCEPT !.step = next]
          /\ IF answer.ok /\ next = "idle"
             THEN /\ sent' = sent \cup {phone.id}
                  /\ storage' = NoAttempt
                  /\ memory' = NoAttempt
                  /\ seen' = world.running
             ELSE UNCHANGED <<sent, storage, memory, seen>>
    /\ UNCHANGED <<form, ids, world, flying, replaced, troubles>>

Trouble == troubles < MaxTroubles /\ troubles' = troubles + 1

AnswerLost ==
    /\ phone # IdlePhone /\ Trouble
    /\ table' = Executed(phone).table
    /\ phone' = IdlePhone
    /\ UNCHANGED <<form, memory, storage, ids, world, seen, flying, sent, replaced>>

(* The app aborts the request after its timeout; it may be on its way. *)
RequestTimesOut ==
    /\ phone # IdlePhone /\ Trouble
    /\ flying' = flying \cup {phone}
    /\ phone' = IdlePhone
    /\ UNCHANGED <<form, memory, storage, ids, table, world, seen, sent, replaced>>

LateRequestArrives ==
    \E r \in flying :
        /\ table' = Executed(r).table
        /\ flying' = flying \ {r}
        /\ UNCHANGED <<form, phone, memory, storage, ids, world, seen, sent, replaced, troubles>>

AppRestarts ==
    /\ Trouble
    /\ phone' = IdlePhone /\ memory' = NoAttempt /\ seen' = world.running
    /\ UNCHANGED <<form, storage, ids, table, world, flying, sent, replaced>>

-----------------------------------------------------------------------------
(* The administrator and the day, for the photo proof. *)

WorldChanges ==
    /\ form = "proof"
    /\ \/ world.running /\ world' = [world EXCEPT !.running = FALSE]
       \/ world' = [world EXCEPT !.released = ~ @]
       \/ \E d \in {"own", "other"} \ {world.driver} : world' = [world EXCEPT !.driver = d]
    /\ UNCHANGED <<form, phone, memory, storage, ids, table, seen, flying, sent, replaced, troubles>>

(* A review is possible in every state of the row; a customer update says  *)
(* "was checked" when an uploaded proof is approved.                       *)
ReviewProof(id, review) ==
    /\ form = "proof" /\ Exists(id) /\ table.row[id].review # review
    /\ table' = [RowPut(id, [table.row[id] EXCEPT !.review = review]) EXCEPT
                   !.checked = IF review = "approved" /\ table.row[id].status = "uploaded" THEN @ \cup {id} ELSE @]
    /\ UNCHANGED <<form, phone, memory, storage, ids, world, seen, flying, sent, replaced, troubles>>

SubmissionInit ==
    /\ form \in {"application", "proof"}
    /\ phone = IdlePhone /\ memory = NoAttempt /\ storage = NoAttempt /\ ids = 0
    /\ table = [row |-> [id \in Ids |-> NoRow], photos |-> {}, added |-> [id \in Ids |-> 0], checked |-> {}]
    /\ world = [running |-> TRUE, released |-> TRUE, driver |-> "own"]
    /\ seen = TRUE /\ flying = {} /\ sent = {} /\ replaced = {} /\ troubles = 0

SubmissionNext ==
    \/ \E detail \in Details : Submits(detail)
    \/ AnswerArrives \/ AnswerLost \/ RequestTimesOut \/ LateRequestArrives \/ AppRestarts
    \/ WorldChanges
    \/ \E id \in Ids, review \in {"waiting_review", "approved"} : ReviewProof(id, review)

-----------------------------------------------------------------------------
Uploaded(id) == Exists(id) /\ table.row[id].status = "uploaded"

\* What the app reported as sent is stored, whole.
SentIsStored ==
    \A id \in sent : IF form = "proof" THEN Uploaded(id) ELSE Exists(id)

\* A photo proof is announced to the customer once, and only with its photo,
\* whatever was retried or arrived late.
AnnouncedOnce ==
    /\ \A id \in Ids : table.added[id] = (IF Uploaded(id) THEN 1 ELSE 0)
    /\ \A id \in table.checked : Uploaded(id)
    /\ \A id \in Ids : Uploaded(id) => id \in table.photos

\* Every row is one that the app reported, one the driver changed his mind
\* about, or the one that the next retry of the form continues: a lost answer
\* and a restart never leave a second row of one submission.
NoForgottenRow ==
    \A id \in Ids : Exists(id) => id \in sent \cup replaced \cup {storage.id}

SubmissionsAreSound == SentIsStored /\ AnnouncedOnce /\ NoForgottenRow
=============================================================================
