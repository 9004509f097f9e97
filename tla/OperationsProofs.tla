---------------------------- MODULE OperationsProofs ----------------------------
(***************************************************************************)
(* What visitors and drivers submit is kept once, and what is swept later  *)
(* had expired: the forms of the driver app for any forms, retries and     *)
(* changes of the work, the public intake for any visitors' calls, windows *)
(* and administrators, the sweep for any proofs and page size.  What the   *)
(* rules of the pages let through the database takes, for any work, text,  *)
(* amount, history, export and environment.  The registry of devices and   *)
(* its page, for any devices, vehicles and credentials, in every           *)
(* interleaving of the functions of the database with the steps of the     *)
(* page; and the evidence that makes hardware and analyses ready, for any  *)
(* manifests, counts and percentages.                                      *)
(***************************************************************************)
EXTENDS DriverSubmissions, PublicIntake, RetentionSweep, WorkRules, ReleaseRules, DeviceRegistry, PilotReadiness,
        FiniteSetTheorems, SequenceTheorems, WellFoundedInduction, TLAPS

(***************************************************************************)
(* The driver app: the inductive invariant.                                *)
(***************************************************************************)
SubmissionSpec == SubmissionInit /\ [][SubmissionNext]_submissionVars

Steps == IF form = "proof" THEN {"slot", "upload", "complete"} ELSE {"apply"}
PhoneRequests == [step : Steps, id : Ids, detail : Details]
Attempts == [id : Ids, detail : Details]
Rows == {NoRow} \cup IF form = "proof"
                     THEN [status : {"pending_upload", "uploaded"}, detail : Details, review : {"waiting_review", "approved"}]
                     ELSE [status : {"new"}, detail : Details]
Tables == [row : [Ids -> Rows], photos : SUBSET Ids, added : [Ids -> Nat], checked : SUBSET Ids]

\* A photo proof of the table t is announced once, and with its photo.
AnnouncedIn(t) ==
    \A id \in Ids : /\ t.added[id] = (IF t.row[id].status = "uploaded" THEN 1 ELSE 0)
                    /\ id \in t.checked => t.row[id].status = "uploaded"
                    /\ t.row[id].status = "uploaded" => id \in t.photos

\* The ids that somebody still answers for: reported, given up for other
\* contents, or kept in the storage for the next retry.
Accounted(id) == id \in sent \cup replaced \cup {storage.id}

\* The attempt in memory is the stored one; what runs is the stored attempt.
OneAttempt ==
    /\ storage \in {NoAttempt} \cup Attempts
    /\ memory \in {NoAttempt, storage}
    /\ phone # IdlePhone => phone \in PhoneRequests /\ storage # NoAttempt /\ phone.id = storage.id

\* Requests that are late belong to attempts that are accounted for.
LateIsAccounted == \A r \in flying : r \in PhoneRequests /\ Accounted(r.id)

SubmissionInv ==
    /\ form \in {"application", "proof"} /\ table \in Tables /\ sent \subseteq Ids
    /\ OneAttempt /\ LateIsAccounted
    /\ AnnouncedIn(table) /\ SentIsStored /\ NoForgottenRow

LEMMA SubmissionInitially == SubmissionInit => SubmissionInv
<1> SUFFICES ASSUME SubmissionInit PROVE SubmissionInv OBVIOUS
<1>1. table = [row |-> [id \in Ids |-> NoRow], photos |-> {}, added |-> [id \in Ids |-> 0], checked |-> {}]
  BY DEF SubmissionInit
<1>2. NoRow.status = "none" BY DEF NoRow
<1>3. table \in Tables BY <1>1 DEF Tables, Rows
<1>4. AnnouncedIn(table) /\ \A id \in Ids : ~ Exists(id) BY <1>1, <1>2 DEF AnnouncedIn, Exists
<1> QED BY <1>3, <1>4 DEF SubmissionInit, SubmissionInv, OneAttempt, LateIsAccounted, SentIsStored, NoForgottenRow

\* What a request makes of the table: rows are never lost or changed back, a
\* new row is that of the request, and a good answer to the last step of a
\* submission says that it is stored.
Follows(t, r) ==
    /\ t \in Tables /\ AnnouncedIn(t)
    /\ \A id \in Ids : /\ Exists(id) => t.row[id].status # "none"
                       /\ t.row[id].status # "none" => Exists(id) \/ id = r.id
                       /\ table.row[id].status = "uploaded" => t.row[id].status = "uploaded"

LEMMA ExecutedFollows ==
  ASSUME form \in {"application", "proof"}, table \in Tables, AnnouncedIn(table), NEW r \in PhoneRequests,
         NEW a, a = Executed(r)
  PROVE  /\ Follows(a.table, r)
         /\ a.ok /\ r.step = "apply" => a.table.row[r.id].status # "none"
         /\ a.ok /\ r.step = "complete" => a.table.row[r.id].status = "uploaded"
<1>1. /\ r.id \in Ids /\ r.detail \in Details /\ r.step \in {"apply", "slot", "upload", "complete"}
      /\ r.step = "apply" <=> form = "application"
  BY DEF PhoneRequests, Steps
<1>2. /\ table.row \in [Ids -> Rows] /\ table.photos \in SUBSET Ids /\ table.added \in [Ids -> Nat]
      /\ table.checked \in SUBSET Ids
      /\ table = [row |-> table.row, photos |-> table.photos, added |-> table.added, checked |-> table.checked]
  BY DEF Tables
<1>3. Follows(table, r) BY DEF Follows, Exists
<1>4. NoRow.status = "none" BY DEF NoRow
<1>5. ASSUME NEW row \in Rows, row.status # "none", row.status # "uploaded", ~ Exists(r.id)
      PROVE  /\ Follows(RowPut(r.id, row), r) /\ RowPut(r.id, row).row[r.id].status # "none"
  <2>1. RowPut(r.id, row) = [row |-> [table.row EXCEPT ![r.id] = row], photos |-> table.photos,
                             added |-> table.added, checked |-> table.checked]
    BY <1>2 DEF RowPut
  <2>2. [table.row EXCEPT ![r.id] = row] \in [Ids -> Rows] BY <1>1, <1>2, <1>5
  <2>3. RowPut(r.id, row) \in Tables BY <1>2, <2>1, <2>2 DEF Tables
  <2>4. table.row[r.id].status = "none" BY <1>5 DEF Exists
  <2>5. \A id \in Ids : RowPut(r.id, row).row[id] = IF id = r.id THEN row ELSE table.row[id] BY <1>1, <1>2, <2>1
  <2>6. AnnouncedIn(RowPut(r.id, row)) BY <1>1, <1>5, <2>1, <2>4, <2>5 DEF AnnouncedIn
  <2> QED BY <1>1, <1>5, <2>3, <2>4, <2>5, <2>6 DEF Follows, Exists
<1>6. CASE r.step = "apply"
  <2>1. a = SubmitApplication(r) BY <1>6 DEF Executed
  <2>2. CASE ~ Exists(r.id)
    <3>1. [status |-> "new", detail |-> r.detail] \in Rows BY <1>1, <1>6 DEF Rows
    <3>2. a.table = RowPut(r.id, [status |-> "new", detail |-> r.detail]) BY <2>1, <2>2 DEF SubmitApplication, Answered
    <3> QED BY <1>5, <1>6, <2>2, <3>1, <3>2
  <2>3. CASE Exists(r.id)
    <3>1. a.table = table BY <2>1, <2>3 DEF SubmitApplication, Answered, Refused
    <3> QED BY <1>3, <1>6, <2>3, <3>1 DEF Exists
  <2> QED BY <2>2, <2>3
<1>7. CASE r.step = "slot"
  <2>1. a = RequestSlot(r) BY <1>7 DEF Executed
  <2>2. \/ a.table = table
        \/ ~ Exists(r.id) /\ a.table = RowPut(r.id, [status |-> "pending_upload", detail |-> r.detail, review |-> "waiting_review"])
    <3>1. CASE ~ Authorised BY <2>1, <3>1 DEF RequestSlot, Refused
    <3>2. CASE Authorised /\ Exists(r.id)
      <4>1. a = IF table.row[r.id].detail = r.detail THEN [ok |-> TRUE, table |-> table] ELSE [ok |-> FALSE, table |-> table]
        BY <2>1, <3>2 DEF RequestSlot, Answered, Refused
      <4> QED BY <4>1
    <3>3. CASE Authorised /\ ~ Exists(r.id) /\ ~ world.running BY <2>1, <3>3 DEF RequestSlot, Refused
    <3>4. CASE Authorised /\ ~ Exists(r.id) /\ world.running
      <4>1. a = Answered(RowPut(r.id, [status |-> "pending_upload", detail |-> r.detail, review |-> "waiting_review"]))
        BY <2>1, <3>4 DEF RequestSlot
      <4> QED BY <3>4, <4>1 DEF Answered
    <3> QED BY <3>1, <3>2, <3>3, <3>4
  <2>3. [status |-> "pending_upload", detail |-> r.detail, review |-> "waiting_review"] \in Rows BY <1>1, <1>7 DEF Rows
  <2> QED BY <1>3, <1>5, <1>7, <2>2, <2>3
<1>8. CASE r.step = "upload"
  <2>1. a.table = table \/ a.table = [table EXCEPT !.photos = @ \cup {r.id}]
    BY <1>8 DEF Executed, StorePhoto, Answered, Refused
  <2>2. CASE a.table = [table EXCEPT !.photos = @ \cup {r.id}]
    <3>1. a.table = [row |-> table.row, photos |-> table.photos \cup {r.id}, added |-> table.added, checked |-> table.checked]
      BY <1>2, <2>2
    <3>2. a.table \in Tables BY <1>1, <1>2, <3>1 DEF Tables
    <3> QED BY <1>8, <3>1, <3>2 DEF Follows, AnnouncedIn, Exists
  <2> QED BY <1>3, <1>8, <2>1, <2>2
<1>9. CASE r.step = "complete"
  <2>1. a = CompleteUpload(r) BY <1>9 DEF Executed
  <2>2. \/ a.table = table /\ (a.ok => table.row[r.id].status = "uploaded")
        \/ /\ Exists(r.id) /\ table.row[r.id].status # "uploaded" /\ r.id \in table.photos
           /\ a.table = [RowPut(r.id, [table.row[r.id] EXCEPT !.status = "uploaded"]) EXCEPT !.added[r.id] = @ + 1]
    BY <2>1 DEF CompleteUpload, Answered, Refused
  <2>3. CASE /\ Exists(r.id) /\ table.row[r.id].status # "uploaded" /\ r.id \in table.photos
             /\ a.table = [RowPut(r.id, [table.row[r.id] EXCEPT !.status = "uploaded"]) EXCEPT !.added[r.id] = @ + 1]
    <3> DEFINE row == [table.row[r.id] EXCEPT !.status = "uploaded"]
    <3>1. row \in Rows /\ row.status = "uploaded"
      <4>1. table.row[r.id] \in Rows /\ table.row[r.id] # NoRow BY <1>1, <1>2, <1>4, <2>3 DEF Exists
      <4>2. table.row[r.id] \in [status : {"pending_upload", "uploaded"}, detail : Details,
                                 review : {"waiting_review", "approved"}]
        BY <1>1, <1>9, <4>1 DEF Rows
      <4>3. row \in [status : {"pending_upload", "uploaded"}, detail : Details, review : {"waiting_review", "approved"}]
        BY <4>2
      <4> QED BY <1>1, <1>9, <4>2, <4>3 DEF Rows
    <3> HIDE DEF row
    <3>2. a.table = [row |-> [table.row EXCEPT ![r.id] = row], photos |-> table.photos,
                     added |-> [table.added EXCEPT ![r.id] = @ + 1], checked |-> table.checked]
      <4>1. RowPut(r.id, row) = [row |-> [table.row EXCEPT ![r.id] = row], photos |-> table.photos,
                                 added |-> table.added, checked |-> table.checked]
        BY <1>2 DEF RowPut
      <4>2. a.table = [RowPut(r.id, row) EXCEPT !.added[r.id] = @ + 1] BY <2>3 DEF row
      <4> QED BY <4>1, <4>2
    <3>3. /\ a.table.row = [table.row EXCEPT ![r.id] = row] /\ a.table.photos = table.photos
          /\ a.table.added = [table.added EXCEPT ![r.id] = @ + 1] /\ a.table.checked = table.checked
      BY <3>2
    <3>4. a.table \in Tables
      <4>1. [table.row EXCEPT ![r.id] = row] \in [Ids -> Rows] BY <1>1, <1>2, <3>1
      <4>2. [table.added EXCEPT ![r.id] = @ + 1] \in [Ids -> Nat] BY <1>1, <1>2
      <4> QED BY <1>2, <3>2, <4>1, <4>2 DEF Tables
    <3>5. \A id \in Ids : a.table.row[id] = IF id = r.id THEN row ELSE table.row[id] BY <1>1, <1>2, <3>3
    <3>6. \A id \in Ids : a.table.added[id] = IF id = r.id THEN table.added[id] + 1 ELSE table.added[id] BY <1>1, <1>2, <3>3
    <3>7. table.added[r.id] = 0 BY <1>1, <2>3 DEF AnnouncedIn
    <3>8. AnnouncedIn(a.table)
      <4> SUFFICES ASSUME NEW id \in Ids
                   PROVE  /\ a.table.added[id] = (IF a.table.row[id].status = "uploaded" THEN 1 ELSE 0)
                          /\ id \in a.table.checked => a.table.row[id].status = "uploaded"
                          /\ a.table.row[id].status = "uploaded" => id \in a.table.photos
        BY DEF AnnouncedIn
      <4>1. /\ table.added[id] = (IF table.row[id].status = "uploaded" THEN 1 ELSE 0)
            /\ id \in table.checked => table.row[id].status = "uploaded"
            /\ table.row[id].status = "uploaded" => id \in table.photos
        BY <1>1 DEF AnnouncedIn
      <4>2. a.table.row[id] = (IF id = r.id THEN row ELSE table.row[id])
            /\ a.table.added[id] = (IF id = r.id THEN table.added[id] + 1 ELSE table.added[id])
        BY <3>5, <3>6
      <4>3. CASE id = r.id
        BY <2>3, <3>1, <3>3, <3>7, <4>2, <4>3
      <4>4. CASE id # r.id
        BY <3>3, <4>1, <4>2, <4>4
      <4> QED BY <4>3, <4>4
    <3> QED BY <1>1, <1>9, <2>3, <3>1, <3>4, <3>5, <3>8 DEF Follows, Exists
  <2> QED BY <1>3, <1>9, <2>2, <2>3
<1> QED BY <1>1, <1>6, <1>7, <1>8, <1>9

\* The step of one request in the database, whoever waits for it.
LEMMA ExecutionKeeps ==
  ASSUME SubmissionInv, NEW r \in PhoneRequests, Accounted(r.id), NEW a, a = Executed(r), table' = a.table,
         form' = form, sent \subseteq sent', sent' \subseteq Ids,
         \A id \in Ids : Accounted(id) => Accounted(id)',
         \A id \in sent' \ sent : IF form = "proof" THEN a.table.row[id].status = "uploaded"
                                  ELSE a.table.row[id].status # "none",
         OneAttempt', LateIsAccounted'
  PROVE  SubmissionInv'
<1>1. Follows(a.table, r) BY ExecutedFollows DEF SubmissionInv
<1>2. /\ table' \in Tables /\ AnnouncedIn(table') /\ r.id \in Ids
      /\ \A id \in Ids : /\ Exists(id) => table'.row[id].status # "none"
                         /\ table'.row[id].status # "none" => Exists(id) \/ id = r.id
                         /\ table.row[id].status = "uploaded" => table'.row[id].status = "uploaded"
  BY <1>1 DEF Follows, PhoneRequests
<1>3. table' \in Tables' /\ AnnouncedIn(table)' BY <1>2 DEF Tables, Rows, AnnouncedIn
<1>4. SentIsStored'
  <2> SUFFICES ASSUME NEW id \in sent' PROVE IF form = "proof" THEN Uploaded(id)' ELSE Exists(id)'
    BY DEF SentIsStored
  <2>1. CASE id \in sent
    <3>1. id \in Ids /\ IF form = "proof" THEN Uploaded(id) ELSE Exists(id) BY <2>1 DEF SubmissionInv, SentIsStored
    <3> QED BY <1>2, <3>1 DEF Uploaded, Exists
  <2>2. CASE id \notin sent BY <2>2 DEF Uploaded, Exists
  <2> QED BY <2>1, <2>2
<1>5. NoForgottenRow'
  <2> SUFFICES ASSUME NEW id \in Ids, Exists(id)' PROVE Accounted(id)'
    BY DEF NoForgottenRow, Accounted
  <2>1. Exists(id) \/ id = r.id BY <1>2 DEF Exists
  <2>2. Accounted(id) BY <2>1 DEF SubmissionInv, NoForgottenRow, Accounted
  <2> QED BY <2>2
<1> QED BY <1>3, <1>4, <1>5 DEF SubmissionInv

\* A step that leaves the database alone.
LEMMA TableStays ==
  ASSUME SubmissionInv, UNCHANGED <<form, table, sent>>, \A id \in Ids : Accounted(id) => Accounted(id)',
         OneAttempt', LateIsAccounted'
  PROVE  SubmissionInv'
<1>1. table' \in Tables' /\ AnnouncedIn(table)' /\ SentIsStored'
  BY DEF SubmissionInv, Tables, Rows, AnnouncedIn, SentIsStored, Uploaded, Exists
<1>2. NoForgottenRow' BY DEF SubmissionInv, NoForgottenRow, Accounted, Exists
<1> QED BY <1>1, <1>2 DEF SubmissionInv

\* The app sends a form: a retry goes on with the stored attempt, other
\* contents replace it.
LEMMA SubmitsKeeps ==
  ASSUME SubmissionInv, NEW detail \in Details, Submits(detail)
  PROVE  SubmissionInv'
<1>1. PICK attempt :
        /\ attempt = AttemptFor(detail) /\ attempt.id \in Ids
        /\ storage' = attempt /\ memory' = attempt
        /\ replaced' = IF storage # NoAttempt /\ storage.detail # detail THEN replaced \cup {storage.id} ELSE replaced
        /\ phone' = [step |-> IF form = "proof" THEN "slot" ELSE "apply", id |-> attempt.id, detail |-> detail]
        /\ UNCHANGED <<form, table, world, seen, flying, sent, troubles>>
  BY DEF Submits
<1>2. KeptAttempt = storage BY DEF SubmissionInv, OneAttempt, KeptAttempt
<1>3. \/ attempt = storage /\ storage # NoAttempt /\ storage.detail = detail
      \/ attempt = [id |-> ids + 1, detail |-> detail] /\ (storage = NoAttempt \/ storage.detail # detail)
  BY <1>1, <1>2 DEF AttemptFor
<1>4. attempt \in Attempts /\ attempt # NoAttempt
  <2>1. CASE attempt = storage /\ storage # NoAttempt BY <2>1 DEF SubmissionInv, OneAttempt
  <2>2. CASE attempt = [id |-> ids + 1, detail |-> detail]
    <3>1. attempt \in Attempts BY <1>1, <2>2 DEF Attempts
    <3>2. NoAttempt # attempt
      <4>1. DOMAIN attempt = {"id", "detail"} /\ DOMAIN NoAttempt = {"id"} BY <2>2 DEF NoAttempt
      <4> QED BY <4>1
    <3> QED BY <3>1, <3>2
  <2> QED BY <1>3, <2>1, <2>2
<1>5. phone' \in PhoneRequests /\ phone'.id = attempt.id
  BY <1>1 DEF PhoneRequests, Steps, SubmissionInv
<1>6. OneAttempt' BY <1>1, <1>4, <1>5 DEF OneAttempt, PhoneRequests, Steps, Attempts
<1>7. \A id \in Ids : Accounted(id) => Accounted(id)'
  <2>1. storage = NoAttempt => storage.id \notin Ids BY DEF NoAttempt, Ids
  <2> QED BY <1>1, <1>3, <2>1 DEF Accounted
<1>8. LateIsAccounted'
  BY <1>1, <1>7 DEF SubmissionInv, LateIsAccounted, PhoneRequests, Steps
<1> QED BY <1>1, <1>6, <1>7, <1>8, TableStays

LEMMA SubmissionStep ==
  ASSUME SubmissionInv, [SubmissionNext]_submissionVars
  PROVE  SubmissionInv'
<1>q. /\ form \in {"application", "proof"} /\ table \in Tables /\ AnnouncedIn(table) /\ sent \subseteq Ids
      /\ OneAttempt /\ LateIsAccounted
  BY DEF SubmissionInv
<1>p. phone # IdlePhone => phone \in PhoneRequests /\ Accounted(phone.id) /\ phone.id = storage.id /\ phone.id \in Ids
  BY <1>q DEF OneAttempt, Accounted, PhoneRequests
<1>1. ASSUME NEW detail \in Details, Submits(detail) PROVE SubmissionInv' BY <1>1, SubmitsKeeps
<1>2. CASE AnswerArrives
  <2>1. PICK a, next :
          /\ a = Executed(phone) /\ next = IF a.ok THEN StepAfter(a.table) ELSE "idle"
          /\ table' = a.table
          /\ phone' = IF next = "idle" THEN IdlePhone ELSE [phone EXCEPT !.step = next]
          /\ IF a.ok /\ next = "idle"
             THEN sent' = sent \cup {phone.id} /\ storage' = NoAttempt /\ memory' = NoAttempt
             ELSE UNCHANGED <<sent, storage, memory>>
          /\ UNCHANGED <<form, flying, replaced>> /\ phone # IdlePhone
    BY <1>2 DEF AnswerArrives
  <2>2. phone \in PhoneRequests /\ Accounted(phone.id) /\ phone.id \in Ids BY <1>p, <2>1
  <2>3. \A id \in Ids : Accounted(id) => Accounted(id)' BY <1>p, <2>1 DEF Accounted
  <2>4. LateIsAccounted' BY <1>q, <2>1, <2>3 DEF LateIsAccounted, PhoneRequests, Steps
  <2>5. /\ phone.step = "apply" => form = "application"
        /\ phone.step \in {"slot", "upload", "complete"} => form = "proof"
        /\ phone.step \in {"apply", "slot", "upload", "complete"}
    BY <1>q, <2>2 DEF PhoneRequests, Steps
  <2>6. /\ a.ok /\ next = "idle" => phone.step \in {"apply", "complete"}
        /\ next # "idle" => next \in {"upload", "complete"} /\ phone.step \in {"slot", "upload"}
    BY <2>1, <2>5 DEF StepAfter
  <2>7. OneAttempt'
    <3>1. CASE next = "idle" BY <1>q, <2>1, <3>1 DEF OneAttempt, Attempts
    <3>2. CASE next # "idle"
      <4>1. phone' = [phone EXCEPT !.step = next] /\ UNCHANGED <<sent, storage, memory, form>> BY <2>1, <3>2
      <4>2. phone' \in PhoneRequests /\ phone'.id = phone.id
        BY <2>2, <2>5, <2>6, <3>2, <4>1 DEF PhoneRequests, Steps
      <4> QED BY <1>q, <2>1, <4>1, <4>2 DEF OneAttempt, PhoneRequests, Steps, Attempts
    <3> QED BY <3>1, <3>2
  <2>8. \A id \in sent' \ sent : IF form = "proof" THEN a.table.row[id].status = "uploaded"
                                 ELSE a.table.row[id].status # "none"
    <3>1. /\ a.ok /\ phone.step = "apply" => a.table.row[phone.id].status # "none"
          /\ a.ok /\ phone.step = "complete" => a.table.row[phone.id].status = "uploaded"
      BY <1>q, <2>1, <2>2, ExecutedFollows
    <3> QED BY <2>1, <2>5, <2>6, <3>1
  <2>9. sent \subseteq sent' /\ sent' \subseteq Ids BY <1>q, <2>1, <2>2
  <2> QED BY <2>1, <2>2, <2>3, <2>4, <2>7, <2>8, <2>9, ExecutionKeeps
<1>3. CASE AnswerLost
  <2>1. /\ phone # IdlePhone /\ table' = Executed(phone).table /\ phone' = IdlePhone
        /\ UNCHANGED <<form, memory, storage, flying, sent, replaced>>
    BY <1>3 DEF AnswerLost
  <2>2. phone \in PhoneRequests /\ Accounted(phone.id) BY <1>p, <2>1
  <2>3. \A id : Accounted(id) => Accounted(id)' BY <2>1 DEF Accounted
  <2>4. OneAttempt' /\ LateIsAccounted'
    BY <1>q, <2>1, <2>3 DEF OneAttempt, LateIsAccounted, PhoneRequests, Steps, Attempts
  <2> QED BY <1>q, <2>1, <2>2, <2>3, <2>4, ExecutionKeeps
<1>4. CASE RequestTimesOut
  <2>1. /\ phone # IdlePhone /\ flying' = flying \cup {phone} /\ phone' = IdlePhone
        /\ UNCHANGED <<form, memory, storage, table, sent, replaced>>
    BY <1>4 DEF RequestTimesOut
  <2>2. \A id : Accounted(id) => Accounted(id)' BY <2>1 DEF Accounted
  <2>3. OneAttempt' /\ LateIsAccounted'
    BY <1>p, <1>q, <2>1, <2>2 DEF OneAttempt, LateIsAccounted, PhoneRequests, Steps, Attempts
  <2> QED BY <2>1, <2>2, <2>3, TableStays
<1>5. CASE LateRequestArrives
  <2>1. PICK r \in flying : /\ table' = Executed(r).table /\ flying' = flying \ {r}
                            /\ UNCHANGED <<form, phone, memory, storage, sent, replaced>>
    BY <1>5 DEF LateRequestArrives
  <2>2. r \in PhoneRequests /\ Accounted(r.id) BY <1>q DEF LateIsAccounted
  <2>3. \A id : Accounted(id) => Accounted(id)' BY <2>1 DEF Accounted
  <2>4. OneAttempt' /\ LateIsAccounted'
    BY <1>q, <2>1, <2>3 DEF OneAttempt, LateIsAccounted, PhoneRequests, Steps, Attempts
  <2> QED BY <1>q, <2>1, <2>2, <2>3, <2>4, ExecutionKeeps
<1>6. CASE AppRestarts
  <2>1. /\ phone' = IdlePhone /\ memory' = NoAttempt /\ UNCHANGED <<form, storage, table, flying, sent, replaced>>
    BY <1>6 DEF AppRestarts
  <2>2. \A id : Accounted(id) => Accounted(id)' BY <2>1 DEF Accounted
  <2>3. OneAttempt' /\ LateIsAccounted'
    BY <1>q, <2>1, <2>2 DEF OneAttempt, LateIsAccounted, PhoneRequests, Steps, Attempts
  <2> QED BY <2>1, <2>2, <2>3, TableStays
<1>7. CASE WorldChanges \/ UNCHANGED submissionVars
  <2>1. UNCHANGED <<form, phone, memory, storage, table, flying, sent, replaced>>
    BY <1>7 DEF WorldChanges, submissionVars
  <2>2. \A id : Accounted(id) => Accounted(id)' BY <2>1 DEF Accounted
  <2>3. OneAttempt' /\ LateIsAccounted'
    BY <1>q, <2>1, <2>2 DEF OneAttempt, LateIsAccounted, PhoneRequests, Steps, Attempts
  <2> QED BY <2>1, <2>2, <2>3, TableStays
<1>8. ASSUME NEW id \in Ids, NEW review \in {"waiting_review", "approved"}, ReviewProof(id, review)
      PROVE  SubmissionInv'
  <2>1. /\ form = "proof" /\ Exists(id) /\ UNCHANGED <<form, phone, memory, storage, flying, sent, replaced>>
        /\ table' = [RowPut(id, [table.row[id] EXCEPT !.review = review]) EXCEPT
                       !.checked = IF review = "approved" /\ table.row[id].status = "uploaded" THEN @ \cup {id} ELSE @]
    BY <1>8 DEF ReviewProof
  <2>2. \A i : Accounted(i) => Accounted(i)' BY <2>1 DEF Accounted
  <2>3. OneAttempt' /\ LateIsAccounted'
    BY <1>q, <2>1, <2>2 DEF OneAttempt, LateIsAccounted, PhoneRequests, Steps, Attempts
  <2> DEFINE row == [table.row[id] EXCEPT !.review = review]
             checked == IF review = "approved" /\ table.row[id].status = "uploaded" THEN table.checked \cup {id} ELSE table.checked
  <2>4. row \in Rows /\ row.status = table.row[id].status
    <3>1. table.row[id] \in Rows /\ table.row[id] # NoRow BY <1>q, <2>1 DEF Tables, Exists, NoRow
    <3>2. table.row[id] \in [status : {"pending_upload", "uploaded"}, detail : Details, review : {"waiting_review", "approved"}]
      BY <2>1, <3>1 DEF Rows
    <3>3. row \in [status : {"pending_upload", "uploaded"}, detail : Details, review : {"waiting_review", "approved"}]
      BY <3>2
    <3> QED BY <2>1, <3>2, <3>3 DEF Rows
  <2>5. /\ table.row \in [Ids -> Rows] /\ table.photos \in SUBSET Ids /\ table.added \in [Ids -> Nat]
        /\ checked \in SUBSET Ids
        /\ table = [row |-> table.row, photos |-> table.photos, added |-> table.added, checked |-> table.checked]
    BY <1>q DEF Tables
  <2>6. table' = [row |-> [table.row EXCEPT ![id] = row], photos |-> table.photos,
                  added |-> table.added, checked |-> checked]
    BY <2>1, <2>5 DEF RowPut
  <2>c. checked = table.checked \/ (checked = table.checked \cup {id} /\ table.row[id].status = "uploaded") OBVIOUS
  <2> HIDE DEF row, checked
  <2>7. [table.row EXCEPT ![id] = row] \in [Ids -> Rows] BY <2>4, <2>5
  <2>8. table' \in Tables BY <2>5, <2>6, <2>7 DEF Tables
  <2>9. \A i \in Ids : table'.row[i].status = table.row[i].status BY <2>4, <2>5, <2>6
  <2>10. AnnouncedIn(table)' BY <1>q, <2>c, <2>6, <2>9 DEF AnnouncedIn
  <2>11. SentIsStored' /\ NoForgottenRow'
    <3>1. \A i \in Ids : Exists(i)' = Exists(i) /\ Uploaded(i)' = Uploaded(i) BY <2>9 DEF Exists, Uploaded
    <3> QED BY <1>q, <2>1, <3>1 DEF SubmissionInv, SentIsStored, NoForgottenRow
  <2> QED BY <1>q, <2>1, <2>3, <2>8, <2>10, <2>11 DEF SubmissionInv, Tables, Rows
<1> QED BY <1>1, <1>2, <1>3, <1>4, <1>5, <1>6, <1>7, <1>8 DEF SubmissionNext

\* What the driver app reported as sent is stored, a photo proof is announced
\* to the customer once and only with its photo, and no row is left that no
\* retry continues: for any forms, ids, lost answers, late requests, restarts,
\* reviews and changes of the work.
THEOREM SubmissionsAreAlwaysSound == SubmissionSpec => []SubmissionsAreSound
<1>1. SubmissionInit => SubmissionInv BY SubmissionInitially
<1>2. SubmissionInv /\ [SubmissionNext]_submissionVars => SubmissionInv' BY SubmissionStep
<1>3. SubmissionInv => SubmissionsAreSound
  BY DEF SubmissionInv, SubmissionsAreSound, AnnouncedIn, AnnouncedOnce, Uploaded, Exists, Tables
<1> QED BY <1>1, <1>2, <1>3, PTL DEF SubmissionSpec

-----------------------------------------------------------------------------
(* PublicIntake.  A call has passed once the verification service took its *)
(* token from it; it is admitted to a window once it was counted below the *)
(* limit.  Both stay true of a stored enquiry, whatever its call ended in. *)

IntakeBounds == WindowLimit \in Nat /\ MaxRequests \in Nat /\ MaxWindows \in Nat \ {0}
IntakeSpec == IntakeInit /\ [][IntakeNext]_intakeVars

Calls == [step : {"unused", "verify", "limit", "insert", "accepted", "refused"}, token : Nat, window : Nat]
Passed(r) == request[r].step \in {"limit", "insert", "accepted"} \/ Stored(r)
Admitted(w) == {r \in Requests : (request[r].step \in {"insert", "accepted"} \/ Stored(r)) /\ request[r].window = w}

IntakeTypes ==
    /\ page \in [state : {"editing", "sending"}, token : Nat, request : Nat, solved : Nat]
    /\ page.state = "sending" => page.request \in Requests
    /\ request \in [Requests -> Calls]
    /\ window \in Windows /\ counted \in [Windows -> Nat]
    /\ enquiry \in [Requests -> {NoEnquiry, "new", "rejected", "converted"}]

StoredIsAnswered ==
    /\ \A r \in Requests : Stored(r) => request[r].step \in {"accepted", "refused"}
    /\ \A r \in Requests : request[r].step = "accepted" => Stored(r)
    /\ reported \subseteq Requests /\ \A r \in reported : Stored(r)
TokensAreSpent == \A r \in Requests : Passed(r) => request[r].token \in used
TokensDiffer == \A q, r \in Requests : q # r /\ Passed(q) /\ Passed(r) => request[q].token # request[r].token
AdmittedAreCounted == \A w \in Windows : Cardinality(Admitted(w)) <= counted[w] /\ Cardinality(Admitted(w)) <= WindowLimit
ConversionsAreReal ==
    \A a \in Admins : converting[a] # NoConversion =>
        converting[a].enquiry \in Requests /\ Stored(converting[a].enquiry)

IntakeInv == /\ IntakeTypes /\ StoredIsAnswered /\ TokensAreSpent /\ TokensDiffer
             /\ AdmittedAreCounted /\ ConversionsAreReal /\ OneWorkPerEnquiry

\* What a set of admitted calls may count.
LEMMA AdmittedIsFinite ==
  ASSUME IntakeBounds, NEW w PROVE IsFiniteSet(Admitted(w)) /\ Cardinality(Admitted(w)) \in Nat
<1>1. IsFiniteSet(Requests) BY FS_Interval DEF IntakeBounds, Requests
<1>2. Admitted(w) \subseteq Requests BY DEF Admitted
<1> QED BY <1>1, <1>2, FS_Subset, FS_CardinalityType

\* A step that lets no call pass and admits none keeps the tokens apart and
\* the windows within their limit.
LEMMA IntakeKeeps ==
  ASSUME IntakeBounds, IntakeInv, IntakeTypes',
         used \subseteq used', counted' = counted,
         \A r \in Requests : Passed(r)' => Passed(r) /\ request'[r].token = request[r].token,
         \A w \in Windows : Admitted(w)' \subseteq Admitted(w)
  PROVE  TokensAreSpent' /\ TokensDiffer' /\ AdmittedAreCounted'
<1>1. TokensAreSpent' BY DEF IntakeInv, TokensAreSpent
<1>2. TokensDiffer' BY DEF IntakeInv, TokensDiffer
<1>3. ASSUME NEW w \in Windows
      PROVE  Cardinality(Admitted(w)') <= counted[w] /\ Cardinality(Admitted(w)') <= WindowLimit
  <2>1. IsFiniteSet(Admitted(w)) /\ Cardinality(Admitted(w)) \in Nat BY AdmittedIsFinite
  <2>2. Admitted(w)' \subseteq Admitted(w) OBVIOUS
  <2>3. IsFiniteSet(Admitted(w)') /\ Cardinality(Admitted(w)') <= Cardinality(Admitted(w)) BY <2>1, <2>2, FS_Subset
  <2>4. Cardinality(Admitted(w)') \in Nat BY <2>3, FS_CardinalityType
  <2>5. counted[w] \in Nat /\ WindowLimit \in Nat BY DEF IntakeInv, IntakeTypes, IntakeBounds
  <2>6. Cardinality(Admitted(w)) <= counted[w] /\ Cardinality(Admitted(w)) <= WindowLimit
    BY DEF IntakeInv, AdmittedAreCounted
  <2> QED BY <2>1, <2>3, <2>4, <2>5, <2>6
<1>4. AdmittedAreCounted' BY <1>3 DEF AdmittedAreCounted, Windows
<1> QED BY <1>1, <1>2, <1>4

LEMMA IntakeInitially == ASSUME IntakeBounds, IntakeInit PROVE IntakeInv
<1>1. IntakeTypes BY DEF IntakeBounds, IntakeInit, IntakeTypes, Calls, IdleRequest, Windows
<1>2. \A r \in Requests : ~ Stored(r) /\ ~ Passed(r) /\ request[r].step = "unused"
  BY DEF IntakeInit, Stored, Passed, IdleRequest
<1>3. StoredIsAnswered /\ TokensAreSpent /\ TokensDiffer
  BY <1>2 DEF StoredIsAnswered, TokensAreSpent, TokensDiffer, IntakeInit
<1>4. ASSUME NEW w \in Windows PROVE Cardinality(Admitted(w)) <= counted[w] /\ Cardinality(Admitted(w)) <= WindowLimit
  <2>1. Admitted(w) = {} BY <1>2 DEF Admitted
  <2>2. Cardinality(Admitted(w)) = 0 BY <2>1, FS_EmptySet
  <2>3. counted[w] = 0 BY DEF IntakeInit
  <2> QED BY <2>2, <2>3 DEF IntakeBounds
<1>5. AdmittedAreCounted BY <1>4 DEF AdmittedAreCounted
<1>6. ConversionsAreReal /\ OneWorkPerEnquiry BY DEF IntakeInit, ConversionsAreReal, OneWorkPerEnquiry
<1> QED BY <1>1, <1>3, <1>5, <1>6 DEF IntakeInv

\* A call that moves to another step and is stored or not: what is common to
\* the function's steps that neither take a token nor count.
LEMMA CallMoves ==
  ASSUME IntakeBounds, IntakeInv, NEW r \in Requests, NEW step \in {"accepted", "refused"},
         request[r].step \in {"verify", "limit", "insert"},
         request' = [request EXCEPT ![r].step = step],
         \/ enquiry' = enquiry /\ step = "refused"
         \/ enquiry' = [enquiry EXCEPT ![r] = "new"] /\ request[r].step = "insert",
         UNCHANGED <<page, used, window, counted, reported, works, customers, converting>>
  PROVE  IntakeInv'
<1>t. IntakeTypes /\ request[r] \in Calls BY DEF IntakeInv, IntakeTypes
<1>1. /\ \A q \in Requests : q # r => request'[q] = request[q] /\ enquiry'[q] = enquiry[q]
      /\ request'[r].step = step /\ request'[r].token = request[r].token /\ request'[r].window = request[r].window
      /\ request'[r] \in Calls
  BY <1>t DEF IntakeTypes, Calls
<1>2. request' \in [Requests -> Calls] BY <1>t, <1>1 DEF IntakeTypes, Calls
<1>3. enquiry' \in [Requests -> {NoEnquiry, "new", "rejected", "converted"}] BY <1>t DEF IntakeTypes
<1>4. IntakeTypes' BY <1>t, <1>2, <1>3 DEF IntakeTypes
<1>n. ~ Stored(r) BY <1>t DEF IntakeInv, StoredIsAnswered
<1>s. /\ \A q \in Requests : Stored(q) => Stored(q)'
      /\ \A q \in Requests : q # r => Stored(q)' = Stored(q)
      /\ Stored(r)' <=> enquiry' # enquiry
  BY <1>t, <1>1, <1>n DEF Stored, NoEnquiry, IntakeTypes
<1>m. Stored(r)' => request[r].step = "insert" BY <1>s
<1>a. step = "accepted" => Stored(r)' BY <1>n, <1>s, <1>t DEF Stored, NoEnquiry, IntakeTypes
<1>5. StoredIsAnswered' BY <1>1, <1>s, <1>a DEF IntakeInv, StoredIsAnswered
<1>6. \A q \in Requests : Passed(q)' => Passed(q) /\ request'[q].token = request[q].token
  BY <1>1, <1>s, <1>m, <1>a DEF Passed
<1>7. \A w \in Windows : Admitted(w)' \subseteq Admitted(w)
  BY <1>1, <1>s, <1>m, <1>a DEF Admitted
<1>8. TokensAreSpent' /\ TokensDiffer' /\ AdmittedAreCounted' BY <1>4, <1>6, <1>7, IntakeKeeps
<1>9. ConversionsAreReal' /\ OneWorkPerEnquiry'
  BY <1>s DEF IntakeInv, ConversionsAreReal, OneWorkPerEnquiry
<1> QED BY <1>4, <1>5, <1>8, <1>9 DEF IntakeInv

\* A step of the page alone.
LEMMA PageMoves ==
  ASSUME IntakeBounds, IntakeInv,
         page' \in [state : {"editing", "sending"}, token : Nat, request : Nat, solved : Nat],
         page'.state = "sending" => page'.request \in Requests,
         reported' \subseteq Requests, \A r \in reported' : Stored(r),
         UNCHANGED <<used, request, window, counted, enquiry, works, customers, converting>>
  PROVE  IntakeInv'
<1>1. IntakeTypes' BY DEF IntakeInv, IntakeTypes
<1>2. \A r : Stored(r)' = Stored(r) BY DEF Stored
<1>3. StoredIsAnswered' BY <1>2 DEF IntakeInv, StoredIsAnswered
<1>4. /\ \A q \in Requests : Passed(q)' => Passed(q) /\ request'[q].token = request[q].token
      /\ \A w \in Windows : Admitted(w)' \subseteq Admitted(w)
  BY <1>2 DEF Passed, Admitted
<1>5. TokensAreSpent' /\ TokensDiffer' /\ AdmittedAreCounted' BY <1>1, <1>4, IntakeKeeps
<1>6. ConversionsAreReal' /\ OneWorkPerEnquiry' BY <1>2 DEF IntakeInv, ConversionsAreReal, OneWorkPerEnquiry
<1> QED BY <1>1, <1>3, <1>5, <1>6 DEF IntakeInv

\* A step of an administrator: no call moves and what is stored stays stored.
LEMMA AdminMoves ==
  ASSUME IntakeBounds, IntakeInv,
         enquiry' \in [Requests -> {NoEnquiry, "new", "rejected", "converted"}],
         \A r \in Requests : Stored(r)' = Stored(r),
         ConversionsAreReal', OneWorkPerEnquiry',
         UNCHANGED <<page, used, request, window, counted, reported>>
  PROVE  IntakeInv'
<1>1. IntakeTypes' BY DEF IntakeInv, IntakeTypes
<1>3. StoredIsAnswered' BY DEF IntakeInv, StoredIsAnswered
<1>4. /\ \A q \in Requests : Passed(q)' => Passed(q) /\ request'[q].token = request[q].token
      /\ \A w \in Windows : Admitted(w)' \subseteq Admitted(w)
  BY DEF Passed, Admitted
<1>5. TokensAreSpent' /\ TokensDiffer' /\ AdmittedAreCounted' BY <1>1, <1>4, IntakeKeeps
<1> QED BY <1>1, <1>3, <1>5 DEF IntakeInv

LEMMA IntakeStep == ASSUME IntakeBounds, IntakeInv, [IntakeNext]_intakeVars PROVE IntakeInv'
<1>p. /\ page.token \in Nat /\ page.request \in Nat /\ page.solved \in Nat /\ page.state \in {"editing", "sending"}
      /\ page = [state |-> page.state, token |-> page.token, request |-> page.request, solved |-> page.solved]
  BY DEF IntakeInv, IntakeTypes
<1>s. StoredIsAnswered /\ IntakeTypes BY DEF IntakeInv
<1>1. CASE VisitorVerifies
  <2>1. page' = [state |-> page.state, token |-> page.solved + 1, request |-> page.request, solved |-> page.solved + 1]
    BY <1>1, <1>p DEF VisitorVerifies
  <2> QED BY <1>1, <1>p, <1>s, <2>1, PageMoves DEF VisitorVerifies, StoredIsAnswered
<1>2. CASE TokenExpires
  <2>1. page' = [state |-> page.state, token |-> 0, request |-> page.request, solved |-> page.solved]
    BY <1>2, <1>p DEF TokenExpires
  <2> QED BY <1>2, <1>p, <1>s, <2>1, PageMoves DEF TokenExpires, StoredIsAnswered
<1>3. CASE PageSeesSuccess
  <2>1. page' = [state |-> "editing", token |-> 0, request |-> 0, solved |-> page.solved]
    BY <1>3, <1>p DEF PageSeesSuccess
  <2>2. page.request \in Requests /\ Stored(page.request)
    BY <1>3, <1>s DEF PageSeesSuccess, StoredIsAnswered, IntakeTypes
  <2>3. reported' \subseteq Requests /\ \A r \in reported' : Stored(r)
    BY <1>3, <1>s, <2>2 DEF PageSeesSuccess, StoredIsAnswered
  <2> QED BY <1>3, <1>p, <2>1, <2>3, PageMoves DEF PageSeesSuccess
<1>4. CASE PageSeesError
  <2>1. page' = [state |-> "editing", token |-> page.token, request |-> 0, solved |-> page.solved]
    BY <1>4, <1>p DEF PageSeesError
  <2> QED BY <1>4, <1>p, <1>s, <2>1, PageMoves DEF PageSeesError, StoredIsAnswered
<1>5. CASE WindowPasses
  <2>1. window' \in Windows BY <1>5, <1>s DEF WindowPasses, IntakeTypes, Windows, IntakeBounds
  <2>2. UNCHANGED <<page, used, request, counted, enquiry, reported, works, customers, converting>>
    BY <1>5 DEF WindowPasses
  <2>3. IntakeTypes' BY <1>s, <2>1, <2>2 DEF IntakeTypes
  <2>4. \A r : Stored(r)' = Stored(r) BY <2>2 DEF Stored
  <2>5. /\ \A q \in Requests : Passed(q)' => Passed(q) /\ request'[q].token = request[q].token
        /\ \A w \in Windows : Admitted(w)' \subseteq Admitted(w)
    BY <2>2, <2>4 DEF Passed, Admitted
  <2>6. TokensAreSpent' /\ TokensDiffer' /\ AdmittedAreCounted' BY <2>2, <2>3, <2>5, IntakeKeeps
  <2> QED BY <1>s, <2>2, <2>3, <2>4, <2>6 DEF IntakeInv, StoredIsAnswered, ConversionsAreReal, OneWorkPerEnquiry
<1>6. ASSUME NEW r \in Requests, VisitorSends(r) PROVE IntakeInv'
  <2>1. /\ request[r].step = "unused" /\ page.state = "editing"
        /\ request' = [request EXCEPT ![r] = [step |-> "verify", token |-> page.token, window |-> 0]]
        /\ UNCHANGED <<used, window, counted, enquiry, reported, works, customers, converting>>
    BY <1>6 DEF VisitorSends
  <2>2. page' = [state |-> "sending", token |-> page.token, request |-> r, solved |-> page.solved]
    BY <1>6, <1>p DEF VisitorSends
  <2>3. r \in Nat BY DEF Requests, IntakeBounds
  <2>4. request' \in [Requests -> Calls] BY <1>s, <1>p, <2>1 DEF IntakeTypes, Calls
  <2>5. IntakeTypes' BY <1>s, <1>p, <2>1, <2>2, <2>3, <2>4 DEF IntakeTypes
  <2>6. /\ \A q \in Requests : q # r => request'[q] = request[q]
        /\ request'[r].step = "verify"
    BY <1>s, <2>1 DEF IntakeTypes
  <2>7. \A q : Stored(q)' = Stored(q) BY <2>1 DEF Stored
  <2>8. ~ Stored(r) BY <1>s, <2>1 DEF StoredIsAnswered
  <2>9. /\ \A q \in Requests : Passed(q)' => Passed(q) /\ request'[q].token = request[q].token
        /\ \A w \in Windows : Admitted(w)' \subseteq Admitted(w)
    BY <2>6, <2>7, <2>8 DEF Passed, Admitted
  <2>10. TokensAreSpent' /\ TokensDiffer' /\ AdmittedAreCounted' BY <2>1, <2>5, <2>9, IntakeKeeps
  <2>11. StoredIsAnswered' BY <1>s, <2>1, <2>6, <2>7, <2>8 DEF StoredIsAnswered
  <2>12. ConversionsAreReal' /\ OneWorkPerEnquiry' BY <2>1, <2>7 DEF IntakeInv, ConversionsAreReal, OneWorkPerEnquiry
  <2> QED BY <2>5, <2>10, <2>11, <2>12 DEF IntakeInv
<1>7. ASSUME NEW r \in Requests, FunctionVerifies(r) PROVE IntakeInv'
  <2>1. /\ request[r].step = "verify" /\ used' = used \cup {request[r].token}
        /\ UNCHANGED <<page, window, counted, enquiry, reported, works, customers, converting>>
    BY <1>7 DEF FunctionVerifies
  <2> DEFINE step == IF request[r].token \in used THEN "refused" ELSE "limit"
  <2>2. request' = [request EXCEPT ![r].step = step] BY <1>7 DEF FunctionVerifies, AnswersWith
  <2>3. step \in {"refused", "limit"} /\ (step = "limit" => request[r].token \notin used) OBVIOUS
  <2> HIDE DEF step
  <2>4. request[r] \in Calls BY <1>s DEF IntakeTypes
  <2>5. /\ \A q \in Requests : q # r => request'[q] = request[q]
        /\ request'[r].step = step /\ request'[r].token = request[r].token
        /\ request'[r] \in Calls
    BY <1>s, <2>2, <2>3, <2>4 DEF IntakeTypes, Calls
  <2>6. IntakeTypes' BY <1>s, <2>1, <2>2, <2>5 DEF IntakeTypes
  <2>7. \A q : Stored(q)' = Stored(q) BY <2>1 DEF Stored
  <2>8. ~ Stored(r) BY <1>s, <2>1 DEF StoredIsAnswered
  <2>9. StoredIsAnswered' BY <1>s, <2>1, <2>3, <2>5, <2>7, <2>8 DEF StoredIsAnswered
  <2>10. \A q \in Requests : q # r => Passed(q)' = Passed(q) BY <2>5, <2>7 DEF Passed
  <2>11. Passed(r)' => request[r].token \notin used BY <2>3, <2>5, <2>7, <2>8 DEF Passed
  <2>12. TokensAreSpent' BY <2>1, <2>5, <2>10 DEF IntakeInv, TokensAreSpent
  <2>13. TokensDiffer' BY <2>5, <2>10, <2>11 DEF IntakeInv, TokensAreSpent, TokensDiffer
  <2>14. \A w \in Windows : Admitted(w)' = Admitted(w) BY <2>1, <2>3, <2>5, <2>7, <2>8 DEF Admitted
  <2>15. AdmittedAreCounted' BY <2>1, <2>14 DEF IntakeInv, AdmittedAreCounted
  <2>16. ConversionsAreReal' /\ OneWorkPerEnquiry' BY <2>1, <2>7 DEF IntakeInv, ConversionsAreReal, OneWorkPerEnquiry
  <2> QED BY <2>6, <2>9, <2>12, <2>13, <2>15, <2>16 DEF IntakeInv
<1>8. ASSUME NEW r \in Requests, FunctionCounts(r) PROVE IntakeInv'
  <2>1. /\ request[r].step = "limit" /\ counted' = [counted EXCEPT ![window] = @ + 1]
        /\ UNCHANGED <<page, used, window, enquiry, reported, works, customers, converting>>
    BY <1>8 DEF FunctionCounts
  <2> DEFINE step == IF AllowedIn(window) THEN "insert" ELSE "refused"
  <2>2. request' = [request EXCEPT ![r].step = step, ![r].window = window] BY <1>8 DEF FunctionCounts
  <2>3. step \in {"refused", "insert"} /\ (step = "insert" => counted[window] + 1 <= WindowLimit) BY DEF AllowedIn
  <2> HIDE DEF step
  <2>4. request[r] \in Calls /\ window \in Windows /\ window \in Nat /\ counted \in [Windows -> Nat]
    BY <1>s DEF IntakeTypes, Windows, IntakeBounds
  <2>5. /\ \A q \in Requests : q # r => request'[q] = request[q]
        /\ request'[r].step = step /\ request'[r].token = request[r].token /\ request'[r].window = window
        /\ request'[r] \in Calls
    BY <1>s, <2>2, <2>3, <2>4 DEF IntakeTypes, Calls
  <2>c. /\ counted' \in [Windows -> Nat] /\ counted'[window] = counted[window] + 1
        /\ \A w \in Windows : w # window => counted'[w] = counted[w]
    BY <2>1, <2>4
  <2>6. IntakeTypes' BY <1>s, <2>1, <2>2, <2>5, <2>c DEF IntakeTypes
  <2>7. \A q : Stored(q)' = Stored(q) BY <2>1 DEF Stored
  <2>8. ~ Stored(r) BY <1>s, <2>1 DEF StoredIsAnswered
  <2>9. StoredIsAnswered' BY <1>s, <2>1, <2>3, <2>5, <2>7, <2>8 DEF StoredIsAnswered
  <2>10. \A q \in Requests : Passed(q)' => Passed(q) /\ request'[q].token = request[q].token
    BY <2>1, <2>5, <2>7 DEF Passed
  <2>11. TokensAreSpent' /\ TokensDiffer' BY <2>1, <2>10 DEF IntakeInv, TokensAreSpent, TokensDiffer
  <2>12. ASSUME NEW w \in Windows
         PROVE  Cardinality(Admitted(w)') <= counted'[w] /\ Cardinality(Admitted(w)') <= WindowLimit
    <3>1. /\ IsFiniteSet(Admitted(w)) /\ Cardinality(Admitted(w)) \in Nat
          /\ Cardinality(Admitted(w)) <= counted[w] /\ Cardinality(Admitted(w)) <= WindowLimit
          /\ counted[w] \in Nat /\ WindowLimit \in Nat
      BY <2>4, AdmittedIsFinite DEF IntakeInv, AdmittedAreCounted, IntakeBounds
    <3>2. CASE w = window /\ step = "insert"
      <4>1. Admitted(w)' = Admitted(w) \cup {r} BY <2>5, <2>7, <3>2 DEF Admitted
      <4>2. r \notin Admitted(w) BY <2>1, <2>8 DEF Admitted
      <4>3. Cardinality(Admitted(w)') = Cardinality(Admitted(w)) + 1 BY <3>1, <4>1, <4>2, FS_AddElement
      <4> QED BY <2>3, <2>c, <3>1, <3>2, <4>3
    <3>3. CASE w # window \/ step = "refused"
      <4>1. Admitted(w)' = Admitted(w) BY <2>1, <2>3, <2>5, <2>7, <2>8, <3>3 DEF Admitted
      <4>2. counted'[w] \in Nat /\ counted[w] <= counted'[w] BY <2>4, <2>c, <3>1
      <4> QED BY <3>1, <4>1, <4>2
    <3> QED BY <2>3, <3>2, <3>3
  <2>13. AdmittedAreCounted' BY <2>12 DEF AdmittedAreCounted, Windows
  <2>14. ConversionsAreReal' /\ OneWorkPerEnquiry' BY <2>1, <2>7 DEF IntakeInv, ConversionsAreReal, OneWorkPerEnquiry
  <2> QED BY <2>6, <2>9, <2>11, <2>13, <2>14 DEF IntakeInv
<1>9. ASSUME NEW r \in Requests, FunctionInserts(r) PROVE IntakeInv'
  <2>1. /\ request[r].step = "insert" /\ enquiry' = [enquiry EXCEPT ![r] = "new"]
        /\ request' = [request EXCEPT ![r].step = "accepted"]
        /\ UNCHANGED <<page, used, window, counted, reported, works, customers, converting>>
    BY <1>9 DEF FunctionInserts, AnswersWith
  <2> QED BY <2>1, CallMoves
<1>10. ASSUME NEW r \in Requests, FunctionFails(r) PROVE IntakeInv'
  <2>1. /\ request[r].step \in {"verify", "limit", "insert"}
        /\ request' = [request EXCEPT ![r].step = "refused"]
        /\ \/ enquiry' = enquiry /\ "refused" = "refused"
           \/ enquiry' = [enquiry EXCEPT ![r] = "new"] /\ request[r].step = "insert"
        /\ UNCHANGED <<page, used, window, counted, reported, works, customers, converting>>
    BY <1>10 DEF FunctionFails, AnswersWith
  <2> QED BY <2>1, CallMoves
<1>11. ASSUME NEW r \in Requests, NEW status \in {"new", "rejected"}, AdminSaves(r, status) PROVE IntakeInv'
  <2>1. /\ Stored(r) /\ enquiry' = [enquiry EXCEPT ![r] = status]
        /\ UNCHANGED <<page, used, request, window, counted, reported, works, customers, converting>>
    BY <1>11 DEF AdminSaves
  <2>2. /\ enquiry' \in [Requests -> {NoEnquiry, "new", "rejected", "converted"}]
        /\ \A q \in Requests : Stored(q)' = Stored(q)
    BY <1>s, <2>1 DEF IntakeTypes, Stored, NoEnquiry
  <2>3. ConversionsAreReal' /\ OneWorkPerEnquiry' BY <2>1, <2>2 DEF IntakeInv, ConversionsAreReal, OneWorkPerEnquiry
  <2> QED BY <2>1, <2>2, <2>3, AdminMoves
<1>12. ASSUME NEW r \in Requests, NEW a \in Admins, ConversionStarts(a, r) PROVE IntakeInv'
  <2>1. /\ Stored(r) /\ UNCHANGED <<page, used, request, window, counted, enquiry, reported, works, customers>>
    BY <1>12 DEF ConversionStarts
  <2>2. PICK customer : converting' = [converting EXCEPT ![a] = [step |-> "open", enquiry |-> r, customer |-> customer]]
    BY <1>12 DEF ConversionStarts
  <2>3. \A q : Stored(q)' = Stored(q) BY <2>1 DEF Stored
  <2>4. enquiry' \in [Requests -> {NoEnquiry, "new", "rejected", "converted"}] BY <1>s, <2>1 DEF IntakeTypes
  <2>5. \A b \in Admins : converting'[b] = converting[b] \/ converting'[b].enquiry = r
    BY <2>2
  <2>6. ConversionsAreReal' BY <2>1, <2>3, <2>5 DEF IntakeInv, ConversionsAreReal
  <2>7. OneWorkPerEnquiry' BY <2>1 DEF IntakeInv, OneWorkPerEnquiry
  <2> QED BY <2>1, <2>3, <2>4, <2>6, <2>7, AdminMoves
<1>13. ASSUME NEW a \in Admins, ConversionCommits(a) PROVE IntakeInv'
  <2> DEFINE c == converting[a]
             work == [enquiry |-> c.enquiry, customer |-> c.customer, by |-> a]
  <2>1. /\ c # NoConversion /\ converting' = [converting EXCEPT ![a] = NoConversion]
        /\ UNCHANGED <<page, used, request, window, counted, reported>>
    BY <1>13 DEF ConversionCommits
  <2>2. c.enquiry \in Requests /\ Stored(c.enquiry) BY <2>1 DEF IntakeInv, ConversionsAreReal
  <2>3. \/ UNCHANGED <<works, customers, enquiry>>
        \/ /\ ~ HasWork(c.enquiry) /\ works' = works \cup {work} /\ customers' = customers \cup {c.customer}
           /\ enquiry' = [enquiry EXCEPT ![c.enquiry] = "converted"]
    BY <1>13 DEF ConversionCommits
  <2>4. /\ enquiry' \in [Requests -> {NoEnquiry, "new", "rejected", "converted"}]
        /\ \A q \in Requests : Stored(q)' = Stored(q)
    BY <1>s, <2>2, <2>3 DEF IntakeTypes, Stored, NoEnquiry
  <2>5. \A b \in Admins : converting'[b] = converting[b] \/ converting'[b] = NoConversion BY <2>1
  <2>6. ConversionsAreReal' BY <2>4, <2>5 DEF IntakeInv, ConversionsAreReal
  <2>7. OneWorkPerEnquiry'
    <3>1. CASE UNCHANGED <<works, customers, enquiry>> BY <3>1 DEF IntakeInv, OneWorkPerEnquiry
    <3>2. CASE ~ HasWork(c.enquiry) /\ works' = works \cup {work} /\ customers' = customers \cup {c.customer}
      <4>1. work.enquiry = c.enquiry /\ work.customer = c.customer OBVIOUS
      <4>2. \A w \in works : w.enquiry # c.enquiry BY <3>2 DEF HasWork
      <4> HIDE DEF work
      <4> QED BY <3>2, <4>1, <4>2 DEF IntakeInv, OneWorkPerEnquiry
    <3> QED BY <2>3, <3>1, <3>2
  <2> QED BY <2>1, <2>4, <2>6, <2>7, AdminMoves
<1>14. CASE UNCHANGED intakeVars
  <2>1. /\ page' = page /\ UNCHANGED <<used, request, window, counted, enquiry, works, customers, converting>>
        /\ reported' = reported
    BY <1>14 DEF intakeVars
  <2> QED BY <1>p, <1>s, <2>1, PageMoves DEF StoredIsAnswered, IntakeTypes
<1> QED BY <1>1, <1>2, <1>3, <1>4, <1>5, <1>6, <1>7, <1>8, <1>9, <1>10, <1>11, <1>12, <1>13, <1>14 DEF IntakeNext

\* A visitor is told of success only for a stored enquiry, one solved
\* verification stores at most one, and no window stores more than its limit,
\* for any number of calls, windows and limit, wherever a call is cut and
\* however late its insert runs.
THEOREM IntakeAlwaysProtected == ASSUME IntakeBounds PROVE IntakeSpec => []IntakeIsProtected
<1>1. IntakeInit => IntakeInv BY IntakeInitially
<1>2. IntakeInv /\ [IntakeNext]_intakeVars => IntakeInv' BY IntakeStep
<1>3. IntakeInv => IntakeIsProtected
  <2> SUFFICES ASSUME IntakeInv PROVE IntakeIsProtected OBVIOUS
  <2>1. \A q, r \in Requests : q # r /\ Stored(q) /\ Stored(r) => request[q].token # request[r].token
    BY DEF IntakeInv, TokensDiffer, Passed
  <2>2. ASSUME NEW w \in Windows
        PROVE  Cardinality({r \in Requests : Stored(r) /\ request[r].window = w}) <= WindowLimit
    <3> DEFINE inWindow == {r \in Requests : Stored(r) /\ request[r].window = w}
    <3>1. inWindow \subseteq Admitted(w) BY DEF Admitted
    <3>2. IsFiniteSet(Admitted(w)) /\ Cardinality(Admitted(w)) \in Nat BY AdmittedIsFinite
    <3>3. IsFiniteSet(inWindow) /\ Cardinality(inWindow) <= Cardinality(Admitted(w)) BY <3>1, <3>2, FS_Subset
    <3>4. Cardinality(inWindow) \in Nat BY <3>3, FS_CardinalityType
    <3>5. Cardinality(Admitted(w)) <= WindowLimit /\ WindowLimit \in Nat
      BY DEF IntakeInv, AdmittedAreCounted, IntakeBounds
    <3> HIDE DEF inWindow
    <3>6. Cardinality(inWindow) <= WindowLimit BY <3>2, <3>3, <3>4, <3>5
    <3> QED BY <3>6 DEF inWindow
  <2> QED BY <2>1, <2>2 DEF IntakeIsProtected, IntakeInv, StoredIsAnswered
<1> QED BY <1>1, <1>2, <1>3, PTL DEF IntakeSpec

\* An enquiry becomes at most one Ad Work, and its customer exists, for any
\* number of administrators who convert at once.
THEOREM OneWorkForAnEnquiry == ASSUME IntakeBounds PROVE IntakeSpec => []OneWorkPerEnquiry
<1>1. IntakeInit => IntakeInv BY IntakeInitially
<1>2. IntakeInv /\ [IntakeNext]_intakeVars => IntakeInv' BY IntakeStep
<1>3. IntakeInv => OneWorkPerEnquiry BY DEF IntakeInv
<1> QED BY <1>1, <1>2, <1>3, PTL DEF IntakeSpec

\* For a start on any day and any number of days, the shared code and the
\* database plan the same days.
THEOREM PlansAlwaysAgree == \A start, n, today \in Int : PlansAgree(start, n, today)
<1> SUFFICES ASSUME NEW start \in Int, NEW n \in Int, NEW today \in Int, start # 0
             PROVE  SharedPlan(start, n) = DatabasePlan(start, n, today)
  BY DEF PlansAgree
<1>1. NormalizePlannedDays(n) = (IF n < 1 THEN 1 ELSE n) /\ NormalizePlannedDays(n) \in Int
  BY DEF NormalizePlannedDays
<1>2. \A i \in 1..NormalizePlannedDays(n) : start + (i - 1) = start + i - 1 BY <1>1
<1>3. start + NormalizePlannedDays(n) - 1 = start + (NormalizePlannedDays(n) - 1) BY <1>1
<1> QED BY <1>1, <1>2, <1>3 DEF SharedPlan, DatabasePlan, PlannedDays

\* Trimming and cleaning only take characters away.
FormText(t) == t.length \in Nat /\ t.trimmed \in 0..t.length /\ t.cleaned \in 0..t.trimmed
IsForm(f) ==
    /\ f.days \in Int /\ FormText(f.companyWebsite) /\ FormText(f.phone)
    /\ \A t \in DOMAIN TextLimits : FormText(f[t])

\* Every form that the page sends, of at most thirty days and with a date of
\* the date field, is one that the function accepts, exactly if what cleaning
\* leaves of its texts is enough; for texts of all lengths.
THEOREM FormsAlwaysAccepted == \A f : IsForm(f) => FormsAreAccepted(f)
<1> SUFFICES ASSUME NEW f, IsForm(f), PageSubmits(f), f.days <= MaxDays, f.date = "iso", f.notice = "current"
             PROVE  FunctionAccepts(f) <=> CleaningKeeps(f)
  BY DEF FormsAreAccepted
<1>1. DOMAIN TextLimits = {"customerName", "businessName", "cityTown", "areasToCover", "advertisementDetails", "notes"}
  BY DEF TextLimits
<1>2. \A t \in DOMAIN TextLimits : TextLimits[t] \in Nat \ {0} BY DEF TextLimits
<1>3. CleanText(f.companyWebsite, 200) = 0
  BY DEF IsForm, FormText, CleanText, PageSubmits, ValidatePublicEnquiry
<1>4. ASSUME NEW t \in Required PROVE CleanText(f[t], TextLimits[t]) > 0 <=> f[t].cleaned > 0
  <2>1. t \in DOMAIN TextLimits BY DEF Required
  <2> QED BY <1>2, <2>1 DEF CleanText, IsForm, FormText
<1>5. CleanText(f.phone, PhoneLimit) = f.phone.cleaned
  BY DEF CleanText, PhoneLimit, IsForm, FormText, PageSubmits, ValidatePublicEnquiry
<1>6. f.phone.others \in {"none", "blanks"} /\ f.days \in 1..MaxDays /\ f.consent
  BY DEF IsForm, PageSubmits, PageFirstStep, ValidatePublicEnquiry, MaxDays
<1> QED BY <1>3, <1>4, <1>5, <1>6 DEF FunctionAccepts, CleaningKeeps

-----------------------------------------------------------------------------
(* RetentionSweep.  A file whose deletion is about to be told to the       *)
(* database is gone, and every candidate of a sweep had expired.           *)

RetentionSpec == RetentionInit /\ [][RetentionNext]_retentionVars

IsSweep == sweep = [step |-> sweep.step, todo |-> sweep.todo, deleted |-> sweep.deleted]
ToldIsGone == sweep.deleted \cap files = {}
OnlyExpiredIsSwept == sweep.todo \cup sweep.deleted \subseteq expired
RetentionInv == IsSweep /\ ToldIsGone /\ OnlyExpiredIsSwept /\ FilesAreNamed /\ OnlyExpiredIsDeleted

LEMMA RetentionInitially == RetentionInit => RetentionInv
  BY DEF RetentionInit, RetentionInv, IsSweep, ToldIsGone, OnlyExpiredIsSwept, FilesAreNamed,
         OnlyExpiredIsDeleted, NoSweep

LEMMA RetentionStep ==
  ASSUME RetentionInv, [RetentionNext]_retentionVars
  PROVE  RetentionInv'
<1> USE DEF RetentionInv, IsSweep, ToldIsGone, OnlyExpiredIsSwept, FilesAreNamed, OnlyExpiredIsDeleted
<1>1. CASE UNCHANGED retentionVars BY <1>1 DEF retentionVars
<1>2. ASSUME NEW p \in Proofs, WorkExpires(p) PROVE RetentionInv' BY <1>2 DEF WorkExpires
<1>3. ASSUME NEW p \in Proofs, FileDeleted(p) PROVE RetentionInv'
  <2>1. PICK ok \in BOOLEAN :
           /\ ok => p \in files
           /\ files' = IF ok THEN files \ {p} ELSE files
           /\ sweep' = [sweep EXCEPT !.todo = @ \ {p}, !.deleted = IF ok THEN @ \cup {p} ELSE @]
    BY <1>3 DEF FileDeleted
  <2>2. /\ sweep'.todo = sweep.todo \ {p}
        /\ sweep'.deleted = IF ok THEN sweep.deleted \cup {p} ELSE sweep.deleted
        /\ IsSweep'
    BY <2>1
  <2> QED BY <1>3, <2>1, <2>2 DEF FileDeleted
<1>4. CASE SweepStarts
  <2>1. PICK todo \in SUBSET (rows \cap expired) : sweep' = [step |-> "deleting", todo |-> todo, deleted |-> {}]
    BY <1>4 DEF SweepStarts
  <2> QED BY <1>4, <2>1 DEF SweepStarts
<1>5. CASE RowsDeleted
  <2>1. rows' = rows \ sweep.deleted /\ files \subseteq rows' BY <1>5 DEF RowsDeleted
  <2> QED BY <1>5, <2>1 DEF RowsDeleted, NoSweep
<1>6. CASE SweepFails BY <1>6 DEF SweepFails, NoSweep
<1> QED BY <1>1, <1>2, <1>3, <1>4, <1>5, <1>6 DEF RetentionNext

\* The inductive invariant holds: what retention-cleanup.mjs is about to tell the
\* database is true.
THEOREM RetentionAlwaysSound == RetentionSpec => []RetentionInv
<1>1. RetentionInit => RetentionInv BY RetentionInitially
<1>2. RetentionInv /\ [RetentionNext]_retentionVars => RetentionInv' BY RetentionStep
<1> QED BY <1>1, <1>2, PTL DEF RetentionSpec

\* No photo is left in the storage without the row that names it, wherever the
\* handler of retention-cleanup.mjs is cut and whatever deletion fails.
THEOREM FilesAreAlwaysNamed == RetentionSpec => []FilesAreNamed
<1>1. RetentionInv => FilesAreNamed BY DEF RetentionInv
<1> QED BY <1>1, RetentionAlwaysSound, PTL

\* No row of a proof goes before its work was closed for twelve months.
THEOREM NothingElseIsDeleted == RetentionSpec => []OnlyExpiredIsDeleted
<1>1. RetentionInv => OnlyExpiredIsDeleted BY DEF RetentionInv
<1> QED BY <1>1, RetentionAlwaysSound, PTL

-----------------------------------------------------------------------------
(* WorkRules: the rules of the pages beside the guards of the functions.   *)

\* What two rules take for granted of a work's needs, and the delivery methods
\* keep: the speaker is the vehicle's, and work that the driver app carries has a
\* driver and its areas.
SpeakerHasVehicle(needs) == needs.speakerRequired => needs.vehicleRequired
DriverAppHasDriver(needs) == needs.executionMode = "driver_app" => needs.driverRequired /\ needs.areasRequired
NeedsFit(needs) == SpeakerHasVehicle(needs) /\ DriverAppHasDriver(needs)

\* Every delivery method sets such needs.
LEMMA EveryMethodFits == \A method \in DOMAIN deliveryMethodTemplates : NeedsFit(deliveryMethodTemplates[method])
<1>1. /\ NeedsFit(Needs("driver_app", TRUE, TRUE, TRUE, TRUE))
      /\ NeedsFit(Needs("driver_app", TRUE, FALSE, FALSE, TRUE))
      /\ NeedsFit(adminManagedDefaults)
      /\ NeedsFit([adminManagedDefaults EXCEPT !.areasRequired = TRUE])
  BY DEF NeedsFit, SpeakerHasVehicle, DriverAppHasDriver, Needs, adminManagedDefaults
<1> DEFINE areas == [adminManagedDefaults EXCEPT !.areasRequired = TRUE]
           announcement == Needs("driver_app", TRUE, TRUE, TRUE, TRUE)
           promotion == Needs("driver_app", TRUE, FALSE, FALSE, TRUE)
           managed == adminManagedDefaults
<1>2. NeedsFit(areas) /\ NeedsFit(announcement) /\ NeedsFit(promotion) /\ NeedsFit(managed) BY <1>1
<1>3. deliveryMethodTemplates =
        [vehicle_announcement |-> announcement, field_promotion |-> promotion,
         print_placement |-> areas, digital_media |-> managed, event_campaign |-> areas, custom |-> managed]
  BY DEF deliveryMethodTemplates
<1> HIDE DEF areas, announcement, promotion, managed
<1>4. \A method \in DOMAIN deliveryMethodTemplates :
         deliveryMethodTemplates[method] \in {areas, announcement, promotion, managed}
  BY <1>3
<1> QED BY <1>2, <1>4

\* The payment form and m28_validate_payment take the same amounts and states,
\* for all amounts.
THEOREM PaymentsAlwaysAgree ==
  \A status \in PaymentStatuses, total, paid \in Int : PaymentsAgree(status, total, paid)
BY DEF PaymentsAgree, validatePaymentDraft, m28ValidatePayment, PaymentStatuses

\* An application the app validates the database accepts if it can hold its texts,
\* for texts of any length; a phone number the app's pattern takes has seven to
\* twenty characters.
THEOREM ApplicationsAlwaysAgree ==
  ASSUME NEW a,
         \A f \in DOMAIN MaxLengths : a[f].trimmed \in Nat /\ a[f].length \in Nat /\ a[f].trimmed <= a[f].length,
         a.ownership \in {"own_vehicle", "hired_vehicle", "driver_only", "unlisted"},
         a.phoneLike => a.mobileNumber.trimmed \in 7..20
  PROVE  ApplicationsAgree(a)
<1> SUFFICES ASSUME validateDriverApplication(a) PROVE AcceptsDriverApplication(a) <=> a.held
  BY DEF ApplicationsAgree
<1>1. DOMAIN MaxLengths = {"driverName", "mobileNumber", "cityTown", "serviceAreas", "vehicleNumber",
                           "preferredWorkingCities", "notes"}
  BY DEF MaxLengths
<1>2. \A f \in DOMAIN MaxLengths : MaxLengths[f] \in Nat BY DEF MaxLengths
<1>3. ASSUME NEW f \in DOMAIN MaxLengths PROVE a[f].trimmed <= MaxLengths[f] /\ a[f].trimmed \in Nat
  <2>1. a[f].length <= MaxLengths[f] BY DEF validateDriverApplication
  <2> QED BY <1>2, <2>1
<1>4. \A f \in {"driverName", "cityTown"} : a[f].trimmed \in 1..MaxLengths[f]
  <2> SUFFICES ASSUME NEW f \in {"driverName", "cityTown"} PROVE a[f].trimmed \in 1..MaxLengths[f] OBVIOUS
  <2>1. a[f].trimmed > 0 BY DEF validateDriverApplication
  <2>2. f \in DOMAIN MaxLengths BY <1>1
  <2> QED BY <1>2, <1>3, <2>1, <2>2
<1>5. \A f \in {"serviceAreas", "vehicleNumber", "preferredWorkingCities", "notes"} : a[f].trimmed <= MaxLengths[f]
  BY <1>1, <1>3
<1> QED BY <1>4, <1>5 DEF validateDriverApplication, AcceptsDriverApplication

\* What the assignment panel submits with every check passed is saved and can be
\* released, and what is saved passed the checks, for any work that asks for a
\* speaker only with a vehicle.
THEOREM AssignmentsAlwaysAgree ==
  ASSUME NEW work, {"needs", "startDate", "areas", "assignmentStatus"} \subseteq DOMAIN work,
         SpeakerHasVehicle(work.needs),
         NEW driver, NEW vehicle
  PROVE  AssignmentsAgree(work, driver, vehicle)
<1> DEFINE assigned == [work EXCEPT !.assignmentStatus = "ready_for_execution"]
           saved == SavesAssignment(work, driver, vehicle, TRUE, TRUE)
           checked == AssignmentChecks(work, driver, vehicle)
<1> SUFFICES ASSUME work.needs.driverRequired, SubmitsAssignment(work, driver, vehicle)
             PROVE  /\ checked => saved
                    /\ (checked /\ work.needs.executionMode = "driver_app") => ReleasesToDriver(assigned, driver, vehicle)
                    /\ (saved /\ SetupComplete(work)) => checked
  BY DEF AssignmentsAgree
<1>1. checked => saved
  BY DEF AssignmentChecks, SavesAssignment, SubmitsAssignment
<1>2. saved /\ SetupComplete(work) => checked
  BY DEF SpeakerHasVehicle, AssignmentChecks, SavesAssignment, SubmitsAssignment, SetupComplete
<1>3. /\ assigned.needs = work.needs /\ assigned.startDate = work.startDate /\ assigned.areas = work.areas
      /\ assigned.assignmentStatus = "ready_for_execution"
  OBVIOUS
<1> HIDE DEF assigned
<1>4. checked /\ work.needs.executionMode = "driver_app" => ReleasesToDriver(assigned, driver, vehicle)
  BY <1>3 DEF AssignmentChecks, ReleasesToDriver, SubmitsAssignment
<1> QED BY <1>1, <1>2, <1>4 DEF assigned

\* The next action that the page names can be done, for any work with a driver
\* and its areas where the driver app carries it, and any states of its days.
THEOREM NextActionAlwaysPossible ==
  ASSUME NEW work, DriverAppHasDriver(work.needs), NEW days, NEW driver, NEW vehicle
  PROVE  NextActionIsPossible(work, days, driver, vehicle)
<1> DEFINE action == deriveAdWorkNextAction(work, days)
           chosen == driverCanBeAssigned(driver) /\ AssignmentChecks(work, driver, vehicle)
<1>1. ASSUME action = "send_to_driver", chosen
      PROVE  /\ ReleasesToDriver(work, driver, vehicle)
             /\ work.needs.vehicleRequired /\ work.packageChosen => buildExecutionReleaseReadiness(work, driver, vehicle)
  <2>1. /\ SetupComplete(work) /\ assignmentReady(work) /\ work.needs.executionMode = "driver_app"
    BY <1>1 DEF deriveAdWorkNextAction
  <2>2. work.needs.driverRequired /\ work.assignmentStatus = "ready_for_execution"
    BY <2>1 DEF DriverAppHasDriver, assignmentReady
  <2>3. ReleasesToDriver(work, driver, vehicle)
    BY <1>1, <2>1, <2>2 DEF ReleasesToDriver, AssignmentChecks
  <2>4. ASSUME work.needs.vehicleRequired, work.packageChosen PROVE buildExecutionReleaseReadiness(work, driver, vehicle)
    BY <1>1, <2>1, <2>2, <2>4
       DEF buildExecutionReleaseReadiness, AssignmentChecks, DriverAppHasDriver, vehicleCanBeAssigned, driverCanBeAssigned
  <2> QED BY <2>3, <2>4
<1>2. ASSUME action \in {"review_proof", "finish_work"}
      PROVE  ClosesWork(work) /\ HardStops(work) \subseteq {"summary", "updates"}
  <2>1. /\ assignmentReady(work)
        /\ ~(work.needs.executionMode = "driver_app" /\ work.releaseStatus # "released_to_driver")
    BY <1>2 DEF deriveAdWorkNextAction
  <2> QED BY <2>1 DEF ClosesWork, HardStops, assignmentReady, DriverAppHasDriver
<1>3. ASSUME action = "finish_work" PROVE BlockingWarnings(work, days) \cap {"days", "issue"} = {}
  <2>1. days = {"completed"} BY <1>3 DEF deriveAdWorkNextAction
  <2> QED BY <2>1 DEF BlockingWarnings
<1>4. ASSUME HardStops(work) = {} PROVE ClosesWork(work)
  <2>1. "assignment" \notin HardStops(work) /\ "release" \notin HardStops(work) BY <1>4
  <2> QED BY <2>1 DEF HardStops, ClosesWork, DriverAppHasDriver
<1> HIDE DEF action
<1> QED BY <1>1, <1>2, <1>3, <1>4 DEF NextActionIsPossible, action

\* The app offers exactly the day actions and photos that the database takes, and
\* the location proof runs only while the day runs, for any work and day.
THEOREM DayActionsAlwaysAgree ==
  ASSUME NEW work, NEW status, NEW action \in DriverActions, NEW note \in BOOLEAN, NEW photo, photo.size \in Int
  PROVE  DayActionsAgree(work, status, action, note, photo)
<1>1. validateDriverExecutionAction(status, action, note) <=> UpdatesWorkDay(status, action, note)
  BY DEF validateDriverExecutionAction, UpdatesWorkDay, canStartWork, canTakeBreak, canResumeWork, canEndWork, DriverActions
<1>2. UpdatesWorkDay(status, action, note) /\ canStartMobileLocationProof(work, DayAfter(status, action))
           => action \in {"start", "resume", "add_proof_note"}
  BY DEF UpdatesWorkDay, canStartMobileLocationProof, DayAfter, DriverActions
<1>3. photo.size > 0 => (validatePhotoProofInput(status, photo) <=> RequestsProofSlot(status, photo))
  <2>1. MaxPhotoBytes = SlotBytes /\ SlotBytes \in Int BY DEF MaxPhotoBytes, SlotBytes
  <2>2. photo.size > 0 => (photo.size <= MaxPhotoBytes <=> photo.size \in 1..SlotBytes) BY <2>1
  <2> QED BY <2>2 DEF validatePhotoProofInput, RequestsProofSlot, canUploadPhotoProof
<1>4. RequestsProofSlot(status, photo) => UpdatesWorkDay(status, "end", TRUE)
  BY DEF RequestsProofSlot, UpdatesWorkDay
<1> QED BY <1>1, <1>2, <1>3, <1>4 DEF DayActionsAgree

\* A set of numbers has a least one, and one that is bounded has a greatest.
LEMMA LeastOf == ASSUME NEW T \in SUBSET Nat, T # {} PROVE \E m \in T : \A v \in T : m <= v
<1>1. PICK m \in T : \A v \in T : <<v, m>> \notin OpToRel(<, Nat)
  BY WFMin, NatLessThanWellFounded, Zenon
<1>2. ASSUME NEW v \in T PROVE ~ (v < m)
  <2>1. <<v, m>> \notin OpToRel(<, Nat) /\ v \in Nat /\ m \in Nat BY <1>1
  <2> QED BY <2>1, Zenon DEF OpToRel
<1> QED BY <1>2

LEMMA GreatestOf ==
  ASSUME NEW n \in Nat, NEW T \in SUBSET (0..n), T # {} PROVE \E m \in T : \A v \in T : v <= m
<1> DEFINE below == {n - v : v \in T}
<1>1. below \in SUBSET Nat /\ below # {}
  <2>1. \A v \in T : n - v \in Nat OBVIOUS
  <2>2. PICK v \in T : TRUE OBVIOUS
  <2>3. n - v \in below OBVIOUS
  <2> QED BY <2>1, <2>3
<1>2. PICK b \in below : \A c \in below : b <= c BY <1>1, LeastOf
<1>3. PICK m \in T : b = n - m BY <1>2
<1>4. \A v \in T : n - m <= n - v BY <1>2, <1>3
<1> QED BY <1>4

\* Every page of the history passes the shown page's guard, continues without a
\* hole and says whether it is the last, for any history, cursor and limit.
THEOREM HistoryPagesAlwaysAgree ==
  \A total, before \in Nat, limit \in 1..100 : HistoryPagesAgree(total, before, limit)
<1> SUFFICES ASSUME NEW total \in Nat, NEW before \in Nat, NEW limit \in 1..100
             PROVE  HistoryPagesAgree(total, before, limit)
  OBVIOUS
<1> DEFINE older == Versions(total, before)
           newer(v) == {w \in older : w > v}
           found == {v \in older : Cardinality(newer(v)) < limit}
           last == CHOOSE v \in found : \A w \in found : v <= w
           more == found # {} /\ Versions(total, last) # {}
<1>o. \A v, b : v \in Versions(total, b) <=> v \in 1..total /\ (b = 0 \/ v < b) BY DEF Versions
<1>n. \A v, w : w \in newer(v) <=> w \in older /\ w > v OBVIOUS
<1>f. \A v : v \in found <=> v \in older /\ Cardinality(newer(v)) < limit OBVIOUS
<1>1. /\ older \subseteq 1..total /\ older \in SUBSET (0..total) /\ IsFiniteSet(older)
      /\ \A v \in older : v \in Nat
  <2>1. IsFiniteSet(1..total) BY FS_Interval
  <2>2. older \subseteq 1..total BY DEF Versions
  <2> QED BY <2>1, <2>2, FS_Subset
<1>2. \A v \in older : IsFiniteSet(newer(v)) /\ Cardinality(newer(v)) \in Nat
  <2> SUFFICES ASSUME NEW v \in older PROVE IsFiniteSet(newer(v)) /\ Cardinality(newer(v)) \in Nat OBVIOUS
  <2>1. newer(v) \subseteq older OBVIOUS
  <2> QED BY <1>1, <2>1, FS_Subset, FS_CardinalityType
<1>3. ASSUME NEW v \in older, NEW w \in found, v >= w PROVE v \in found
  <2>1. newer(v) \subseteq newer(w) BY <1>1, <1>3
  <2>2. Cardinality(newer(v)) <= Cardinality(newer(w)) BY <1>2, <2>1, FS_Subset
  <2>3. Cardinality(newer(w)) < limit /\ w \in older OBVIOUS
  <2>4. Cardinality(newer(v)) < limit BY <1>2, <2>2, <2>3
  <2> QED BY <2>4
<1>4. found # {} => last \in found /\ \A w \in found : last <= w
  <2> SUFFICES ASSUME found # {} PROVE last \in found /\ \A w \in found : last <= w OBVIOUS
  <2>1. found \in SUBSET Nat BY <1>1
  <2>2. \E v \in found : \A w \in found : v <= w BY <2>1, LeastOf
  <2> QED BY <2>2
<1>5. older # {} => found # {}
  <2> SUFFICES ASSUME older # {} PROVE found # {} OBVIOUS
  <2>1. PICK m \in older : \A v \in older : v <= m BY <1>1, GreatestOf
  <2>2. newer(m) = {} BY <1>1, <2>1
  <2>3. Cardinality(newer(m)) = 0 BY <2>2, FS_EmptySet
  <2>4. m \in found BY <2>3
  <2> QED BY <2>4
<1>6. IsFiniteSet(found) /\ Cardinality(found) \in 0..limit
  <2>0. found \subseteq older OBVIOUS
  <2>1. IsFiniteSet(found) /\ Cardinality(found) \in Nat BY <1>1, <2>0, FS_Subset, FS_CardinalityType
  <2>2. CASE found = {}
    <3>1. Cardinality(found) = 0 BY <2>2, FS_EmptySet
    <3> QED BY <2>1, <3>1
  <2>3. CASE found # {}
    <3>1. last \in older /\ Cardinality(newer(last)) < limit BY <1>4, <2>3
    <3>2. found \subseteq newer(last) \cup {last}
      <4> SUFFICES ASSUME NEW w \in found PROVE w \in newer(last) \/ w = last OBVIOUS
      <4>1. w \in older /\ last <= w /\ w \in Nat /\ last \in Nat BY <1>1, <1>4, <1>f, <2>3
      <4> HIDE DEF older, newer, found, last
      <4> QED BY <1>n, <4>1
    <3>3. last \notin newer(last) BY <1>1, <3>1
    <3>4. /\ IsFiniteSet(newer(last) \cup {last})
          /\ Cardinality(newer(last) \cup {last}) = Cardinality(newer(last)) + 1
      BY <1>2, <3>1, <3>3, FS_AddElement
    <3>5. Cardinality(found) <= Cardinality(newer(last) \cup {last}) BY <3>2, <3>4, FS_Subset
    <3>6. Cardinality(newer(last)) \in Nat BY <1>2, <3>1
    <3> QED BY <2>1, <3>1, <3>4, <3>5, <3>6
  <2> QED BY <2>2, <2>3
<1>7. found # {} => found \cup Versions(total, last) = older
  <2> SUFFICES ASSUME found # {} PROVE found \cup Versions(total, last) = older OBVIOUS
  <2> HIDE DEF newer, found, last
  <2>1. last \in older /\ last \in 1..total BY <1>1, <1>4, <1>f
  <2>2. ASSUME NEW v \in Versions(total, last) PROVE v \in older
    <3>1. v \in 1..total /\ v < last BY <1>o, <2>1
    <3>2. before = 0 \/ last < before BY <1>o, <2>1
    <3>3. before = 0 \/ v < before BY <2>1, <3>1, <3>2
    <3> QED BY <1>o, <3>1, <3>3
  <2>3. ASSUME NEW v \in older, v \notin found PROVE v \in Versions(total, last)
    <3>1. ~ (v >= last) BY <1>3, <1>4, <2>3
    <3>2. v \in 1..total BY <1>1
    <3>3. v < last BY <2>1, <3>1, <3>2
    <3> QED BY <1>o, <3>2, <3>3
  <2>4. found \subseteq older BY <1>f
  <2> HIDE DEF older
  <2> QED BY <2>2, <2>3, <2>4
<1>8. more => last > 0 BY <1>1, <1>4
<1>9. ~more => found = older
  <2> SUFFICES ASSUME ~more PROVE found = older OBVIOUS
  <2>1. CASE found = {} BY <1>5, <2>1
  <2>2. CASE found # {}
    <3>1. Versions(total, last) = {} BY <2>2
    <3> QED BY <1>7, <2>2, <3>1
  <2> QED BY <2>1, <2>2
<1>10. more \in BOOLEAN OBVIOUS
<1>11. more => last \in Nat BY <1>1, <1>4
<1> HIDE DEF older, newer, found, last, more
<1> DEFINE shownPage == [events |-> found, limit |-> limit, returned |-> Cardinality(found), hasMore |-> more,
                    nextBeforeVersion |-> IF more THEN last ELSE 0]
<1>12. HistoryPage(total, before, limit) = shownPage BY DEF HistoryPage, older, newer, found, last, more
<1>13. validateCommercialHistoryPage(shownPage)
  BY <1>6, <1>8, <1>11 DEF validateCommercialHistoryPage, isCommercialEventPageMetadata
<1>14. more => shownPage.events \cup Versions(total, shownPage.nextBeforeVersion) = older
  BY <1>7 DEF more
<1>15. ~more => shownPage.events = older BY <1>9
<1> QED BY <1>12, <1>13, <1>14, <1>15 DEF HistoryPagesAgree, older

-----------------------------------------------------------------------------
(* ReleaseRules: exports and environments.                                *)

\* What is between the ends of an interval is in it.
LEMMA InInterval == \A a, b, n \in Int : a <= n /\ n <= b => n \in a..b
  OBVIOUS

\* Whatever limit is asked for, the export's answer passes the page's check and
\* says that it is cut exactly when it is, for any number of matching rows.
THEOREM ExportsAlwaysBounded ==
  ASSUME NEW value, value.whole => value.n \in Int, NEW S, NEW matching \in Seq(S)
  PROVE  ExportsAreBounded(value, matching)
<1> DEFINE limit == normalizeOperationsExportLimit(value)
           fetched == SubSeq(matching, 1, IF Len(matching) > limit THEN limit + 1 ELSE Len(matching))
           answer == ExportedRows(matching, limit)
           envelope == [rows |-> answer.rows, rowCount |-> Len(answer.rows)]
<1>1. limit \in Nat /\ limit >= 1 /\ limit <= 500
  <2>1. CASE ~value.whole BY <2>1 DEF normalizeOperationsExportLimit
  <2>2. CASE value.whole BY <2>2 DEF normalizeOperationsExportLimit
  <2> QED BY <2>1, <2>2
<1> HIDE DEF limit
<1>2. Len(matching) \in Nat OBVIOUS
<1>f. answer.rows = (IF Len(fetched) > limit THEN SubSeq(fetched, 1, limit) ELSE fetched) BY DEF ExportedRows
<1>t. answer.truncated <=> Len(fetched) > limit
  <2> DEFINE kept == IF Len(fetched) > limit THEN SubSeq(fetched, 1, limit) ELSE fetched
             cut == Len(fetched) > limit
  <2>1. answer = [rows |-> kept, truncated |-> cut] BY DEF ExportedRows
  <2>2. cut \in BOOLEAN OBVIOUS
  <2> HIDE DEF kept, cut, answer
  <2>3. answer.truncated = cut BY <2>1
  <2> QED BY <2>2, <2>3 DEF cut
<1> HIDE DEF answer
<1>3. /\ Len(answer.rows) \in Nat /\ Len(answer.rows) <= 500
      /\ answer.truncated <=> Len(answer.rows) < Len(matching)
  <2>1. CASE Len(matching) > limit
    <3>1. fetched \in Seq(S) /\ Len(fetched) = limit + 1 BY <1>1, <1>2, <2>1
    <3> HIDE DEF fetched
    <3>2. SubSeq(fetched, 1, limit) \in Seq(S) /\ Len(SubSeq(fetched, 1, limit)) = limit BY <1>1, <3>1
    <3>3. answer.rows = SubSeq(fetched, 1, limit) /\ answer.truncated BY <1>1, <1>f, <1>t, <3>1
    <3> QED BY <1>1, <1>2, <2>1, <3>2, <3>3
  <2>2. CASE ~(Len(matching) > limit)
    <3>1. fetched \in Seq(S) /\ Len(fetched) = Len(matching) BY <1>1, <1>2, <2>2
    <3> HIDE DEF fetched
    <3>2. answer.rows = fetched /\ ~answer.truncated BY <1>1, <1>2, <1>f, <1>t, <2>2, <3>1
    <3> QED BY <1>1, <1>2, <2>2, <3>1, <3>2
  <2> QED BY <2>1, <2>2
<1>c. envelope.rows = answer.rows /\ envelope.rowCount = Len(answer.rows) OBVIOUS
<1> HIDE DEF envelope
<1>e. Len(answer.rows) \in Nat /\ Len(answer.rows) <= 500 BY <1>3
<1>b. envelope.rowCount \in 0..500
  <2>1. envelope.rowCount \in Int /\ 0 <= envelope.rowCount /\ envelope.rowCount <= 500 BY <1>c, <1>e
  <2>2. 0 \in Int /\ 500 \in Int OBVIOUS
  <2> QED BY <2>1, <2>2, InInterval, Zenon
<1>4. validateOperationsExportEnvelope(envelope) BY <1>b, <1>c DEF validateOperationsExportEnvelope
<1> QED BY <1>3, <1>4 DEF ExportsAreBounded, answer, limit, envelope

(***************************************************************************)
(* The file of an export, read back.  First, what is computed step by step: *)
(* what holds at the start and after every step holds at the end, and the   *)
(* steps can be taken.                                                      *)
(***************************************************************************)
LEMMA StepByStep ==
  ASSUME NEW m \in Nat, NEW T, 0 \in T, \A n \in 1..m : n - 1 \in T => n \in T
  PROVE  \A n \in 0..m : n \in T
<1> DEFINE missed == {n \in 0..m : n \notin T}
<1> SUFFICES ASSUME missed # {} PROVE FALSE OBVIOUS
<1>1. missed \in SUBSET Nat OBVIOUS
<1>2. PICK n \in missed : \A v \in missed : n <= v
  <2> HIDE DEF missed
  <2> QED BY <1>1, LeastOf
<1>3. n \in 1..m /\ n - 1 \in 0..m /\ ~ (n <= n - 1) OBVIOUS
<1> QED BY <1>2, <1>3

\* The states g after each of the m steps F, from the state s.
Stepped(g, S, s, m, F) == g \in [0..m -> S] /\ g[0] = s /\ \A n \in 1..m : g[n] = F[n][g[n - 1]]

LEMMA StepsExist ==
  ASSUME NEW S, NEW s \in S, NEW m \in Nat, NEW F \in [1..m -> [S -> S]]
  PROVE  \E g : Stepped(g, S, s, m, F)
<1> DEFINE Runs(g, k) == g \in [0..k -> S] /\ g[0] = s /\ \A n \in 1..k : g[n] = F[n][g[n - 1]]
           T == {k \in 0..m : \E g : Runs(g, k)}
<1>1. 0 \in T
  <2> DEFINE f == [n \in 0..0 |-> s]
  <2>1. f \in [0..0 -> S] /\ f[0] = s /\ 0 \in 0..m OBVIOUS
  <2> HIDE DEF f
  <2> QED BY <2>1
<1>2. ASSUME NEW k \in 1..m, k - 1 \in T PROVE k \in T
  <2>1. PICK g : Runs(g, k - 1) BY <1>2
  <2> DEFINE h == [n \in 0..k |-> IF n = k THEN F[k][g[k - 1]] ELSE g[n]]
  <2>2. /\ k \in Nat /\ k # 0 /\ k - 1 \in 0..(k - 1) /\ k \in 0..m /\ k \in 0..k /\ 0 \in 0..k
        /\ \A n \in 0..k : n # k => n \in 0..(k - 1)
        /\ \A n \in 1..k : n - 1 \in 0..k /\ n - 1 # k /\ n \in 0..k /\ (n # k => n \in 1..(k - 1))
    OBVIOUS
  <2>3. F[k] \in [S -> S] OBVIOUS
  <2>4. g[k - 1] \in S BY <2>1, <2>2
  <2>5. h \in [0..k -> S] BY <2>1, <2>2, <2>3, <2>4
  <2>6. h[0] = s BY <2>1, <2>2
  <2>7. ASSUME NEW n \in 1..k PROVE h[n] = F[n][h[n - 1]]
    <3>1. h[n - 1] = g[n - 1] BY <2>2
    <3>2. n # k => h[n] = g[n] BY <2>2
    <3>3. n = k => h[n] = F[k][g[k - 1]] BY <2>2
    <3>4. n # k => g[n] = F[n][g[n - 1]] BY <2>1, <2>2
    <3> QED BY <3>1, <3>2, <3>3, <3>4
  <2>8. Runs(h, k) BY <2>5, <2>6, <2>7
  <2> QED BY <2>2, <2>8
<1> HIDE DEF T
<1>3. \A n \in 1..m : n - 1 \in T => n \in T BY <1>2
<1>4. \A n \in 0..m : n \in T BY <1>1, <1>3, StepByStep, Zenon
<1>5. m \in T BY <1>4
<1> QED BY <1>5 DEF T, Stepped

\* The first n elements of a sequence.
Upto(s, n) == [i \in 1..n |-> s[i]]

LEMMA UptoSteps ==
  ASSUME NEW S, NEW s \in Seq(S)
  PROVE  /\ Upto(s, 0) = <<>> /\ Upto(s, Len(s)) = s
         /\ \A n \in 0..Len(s) : Upto(s, n) \in Seq(S)
         /\ \A n \in 1..Len(s) : Upto(s, n) = Append(Upto(s, n - 1), s[n])
<1>1. Upto(s, 0) = <<>> BY DEF Upto
<1>2. Upto(s, Len(s)) = s BY DEF Upto
<1>3. \A n \in 0..Len(s) : Upto(s, n) \in Seq(S) /\ Len(Upto(s, n)) = n BY DEF Upto
<1>4. ASSUME NEW n \in 1..Len(s) PROVE Upto(s, n) = Append(Upto(s, n - 1), s[n])
  <2>1. n \in 0..Len(s) /\ n - 1 \in 0..Len(s) /\ s[n] \in S OBVIOUS
  <2>2. /\ Upto(s, n) \in Seq(S) /\ Len(Upto(s, n)) = n
        /\ Upto(s, n - 1) \in Seq(S) /\ Len(Upto(s, n - 1)) = n - 1 BY <1>3, <2>1
  <2>3. Append(Upto(s, n - 1), s[n]) \in Seq(S) /\ Len(Append(Upto(s, n - 1), s[n])) = n BY <2>1, <2>2
  <2>4. \A i \in 1..n : Append(Upto(s, n - 1), s[n])[i] = IF i = n THEN s[n] ELSE Upto(s, n - 1)[i] BY <2>1, <2>2
  <2>5. \A i \in 1..n : Upto(s, n)[i] = s[i] BY DEF Upto
  <2>6. \A i \in 1..n : i # n => Upto(s, n - 1)[i] = s[i] BY DEF Upto
  <2> QED BY <2>2, <2>3, <2>4, <2>5, <2>6
<1> QED BY <1>1, <1>2, <1>3, <1>4

(***************************************************************************)
(* Reading a file from any state.                                          *)
(***************************************************************************)
Readings(C) == [rows : Seq(Seq(Seq(C))), row : Seq(Seq(C)), cell : Seq(C), state : {"open", "quoted", "after"}]
At(lines, row, cell, state) == [rows |-> lines, row |-> row, cell |-> cell, state |-> state]

\* Readings are records of sequences, whatever is read.
LEMMA ReadingStays ==
  ASSUME NEW C, NEW r \in Readings(C), NEW c \in C
  PROVE  ReadCharacter(r, c) \in Readings(C)
<1>1. /\ r.rows \in Seq(Seq(Seq(C))) /\ r.row \in Seq(Seq(C)) /\ r.cell \in Seq(C) /\ r.state \in {"open", "quoted", "after"}
      /\ r = At(r.rows, r.row, r.cell, r.state)
  BY DEF Readings, At
<1>2. /\ Append(r.row, r.cell) \in Seq(Seq(C)) /\ <<>> \in Seq(Seq(C)) /\ <<>> \in Seq(C)
      /\ Append(r.cell, c) \in Seq(C)
  BY <1>1
<1>3. Append(r.rows, Append(r.row, r.cell)) \in Seq(Seq(Seq(C))) BY <1>1, <1>2
<1> DEFINE x == ReadCharacter(r, c)
<1>4. \/ x = r \/ x = [r EXCEPT !.state = "after"] \/ x = [r EXCEPT !.cell = Append(@, c)]
      \/ x = [r EXCEPT !.state = "quoted", !.cell = Append(@, c)] \/ x = [r EXCEPT !.state = "quoted"]
      \/ x = [r EXCEPT !.state = "open", !.row = Append(r.row, r.cell), !.cell = <<>>]
      \/ x = [rows |-> Append(r.rows, Append(r.row, r.cell)), row |-> <<>>, cell |-> <<>>, state |-> "open"]
  BY DEF ReadCharacter
<1> HIDE DEF x
<1>5. CASE x = [rows |-> Append(r.rows, Append(r.row, r.cell)), row |-> <<>>, cell |-> <<>>, state |-> "open"]
  BY <1>2, <1>3, <1>5 DEF Readings, x
<1>6. CASE x # [rows |-> Append(r.rows, Append(r.row, r.cell)), row |-> <<>>, cell |-> <<>>, state |-> "open"]
  BY <1>1, <1>2, <1>4, <1>6 DEF Readings, x
<1> QED BY <1>5, <1>6

\* Whatever is computed character by character as a spreadsheet reads is what ReadFrom computes.
LEMMA ReadIs ==
  ASSUME NEW r, NEW file, Len(file) \in Nat, NEW g, g[0] = r,
         \A n \in 1..Len(file) : g[n] = ReadCharacter(g[n - 1], file[n])
  PROVE  ReadFrom(r, file) = g[Len(file)]
<1> DEFINE m == Len(file)
           Reads(h) == h = [n \in 0..m |-> IF n = 0 THEN r ELSE ReadCharacter(h[n - 1], file[n])]
           after == CHOOSE h : Reads(h)
           run == [n \in 0..m |-> g[n]]
<1>1. ReadFrom(r, file) = after[m] BY DEF ReadFrom
<1>2. Reads(run)
  <2>1. ASSUME NEW n \in 0..m PROVE run[n] = IF n = 0 THEN r ELSE ReadCharacter(run[n - 1], file[n])
    <3>1. n # 0 => n \in 1..m /\ n - 1 \in 0..m OBVIOUS
    <3>2. n # 0 => run[n - 1] = g[n - 1] BY <3>1
    <3> QED BY <3>1, <3>2
  <2> QED BY <2>1
<1>3. Reads(after) BY <1>2
<1> HIDE DEF after, run
<1> DEFINE T == {n \in 0..m : after[n] = g[n]}
<1>4. after[0] = r BY <1>3
<1>5. \A n \in 1..m : after[n] = ReadCharacter(after[n - 1], file[n]) BY <1>3
<1>6. 0 \in T BY <1>4
<1>7. \A n \in 1..m : n - 1 \in T => n \in T BY <1>5
<1> HIDE DEF T
<1>8. \A n \in 0..m : n \in T BY <1>6, <1>7, StepByStep, Zenon
<1>9. m \in T BY <1>8
<1> QED BY <1>1, <1>9 DEF T

\* The readings g after each character of the file, from the reading r.
Reading(g, C, r, file) ==
    /\ g \in [0..Len(file) -> Readings(C)] /\ g[0] = r
    /\ \A n \in 1..Len(file) : g[n] = ReadCharacter(g[n - 1], file[n])

LEMMA ReadRuns ==
  ASSUME NEW C, NEW r \in Readings(C), NEW file \in Seq(C)
  PROVE  \E g : Reading(g, C, r, file)
<1> DEFINE m == Len(file)
           S == Readings(C)
           F == [n \in 1..m |-> [x \in S |-> ReadCharacter(x, file[n])]]
<1>1. m \in Nat /\ \A n \in 1..m : file[n] \in C OBVIOUS
<1>2. F \in [1..m -> [S -> S]] BY <1>1, ReadingStays
<1>3. \A n \in 1..m, x \in S : F[n][x] = ReadCharacter(x, file[n]) OBVIOUS
<1> HIDE DEF F, S
<1>4. PICK g \in [0..m -> S] : g[0] = r /\ \A n \in 1..m : g[n] = F[n][g[n - 1]]
  <2> HIDE DEF m
  <2>1. m \in Nat /\ r \in S BY <1>1 DEF S
  <2>2. \E g : Stepped(g, S, r, m, F) BY <1>2, <2>1, StepsExist, Zenon
  <2> QED BY <2>2 DEF Stepped
<1>5. \A n \in 1..m : g[n - 1] \in S BY <1>1, <1>4
<1>6. \A n \in 1..m : g[n] = ReadCharacter(g[n - 1], file[n]) BY <1>3, <1>4, <1>5
<1> QED BY <1>4, <1>6 DEF S, Reading

\* What is read of a file is read in parts, one after another, down to single characters.
LEMMA ReadOn ==
  ASSUME NEW C, NEW r \in Readings(C), NEW a \in Seq(C), NEW b \in Seq(C)
  PROVE  ReadFrom(r, a \o b) = ReadFrom(ReadFrom(r, a), b)
<1> DEFINE m == Len(a)
<1>1. /\ a \o b \in Seq(C) /\ Len(a \o b) = m + Len(b) /\ m \in Nat /\ Len(b) \in Nat
      /\ \A n \in 1..m : (a \o b)[n] = a[n]
      /\ \A n \in 1..Len(b) : (a \o b)[m + n] = b[n]
  OBVIOUS
<1>2. PICK g \in [0..(m + Len(b)) -> Readings(C)] :
          g[0] = r /\ \A n \in 1..(m + Len(b)) : g[n] = ReadCharacter(g[n - 1], (a \o b)[n])
  <2> DEFINE file == a \o b
  <2>1. file \in Seq(C) /\ Len(file) = m + Len(b) BY <1>1
  <2> HIDE DEF file
  <2>2. \E g : Reading(g, C, r, file) BY <2>1, ReadRuns, Zenon
  <2> QED BY <2>1, <2>2 DEF file, Reading
<1>3. ReadFrom(r, a \o b) = g[m + Len(b)]
  <2> DEFINE file == a \o b
  <2>1. Len(file) = m + Len(b) /\ Len(file) \in Nat /\ \A n \in 1..Len(file) : g[n] = ReadCharacter(g[n - 1], file[n])
    BY <1>1, <1>2
  <2> HIDE DEF file
  <2>2. ReadFrom(r, file) = g[Len(file)] BY <1>2, <2>1, ReadIs
  <2> QED BY <2>1, <2>2 DEF file
<1>4. ReadFrom(r, a) = g[m]
  <2>1. \A n \in 1..m : g[n] = ReadCharacter(g[n - 1], a[n]) BY <1>1, <1>2
  <2> QED BY <1>1, <1>2, <2>1, ReadIs, SMTT(60)
<1> DEFINE k == [n \in 0..Len(b) |-> g[m + n]]
<1>5. k[0] = g[m] /\ k[Len(b)] = g[m + Len(b)] BY <1>1
<1>6. ASSUME NEW n \in 1..Len(b) PROVE k[n] = ReadCharacter(k[n - 1], b[n])
  <2>1. m + n \in 1..(m + Len(b)) /\ n - 1 \in 0..Len(b) /\ n \in 0..Len(b) /\ (m + n) - 1 = m + (n - 1) BY <1>1
  <2>2. g[m + n] = ReadCharacter(g[m + (n - 1)], b[n]) BY <1>1, <1>2, <2>1
  <2> QED BY <2>1, <2>2
<1> HIDE DEF k
<1>7. ReadFrom(g[m], b) = k[Len(b)] BY <1>1, <1>5, <1>6, ReadIs
<1> QED BY <1>3, <1>4, <1>5, <1>7

Single(c) == <<c>>

LEMMA ReadOne == \A r, c : ReadFrom(r, <<>>) = r /\ ReadFrom(r, Single(c)) = ReadCharacter(r, c)
<1> SUFFICES ASSUME NEW r, NEW c PROVE ReadFrom(r, <<>>) = r /\ ReadFrom(r, Single(c)) = ReadCharacter(r, c)
  BY Zenon
<1> DEFINE g == [n \in 0..1 |-> IF n = 0 THEN r ELSE ReadCharacter(r, c)]
<1>1. g[0] = r /\ g[1] = ReadCharacter(r, c) OBVIOUS
<1>2. Len(<<>>) = 0 /\ Len(<<c>>) = 1 /\ <<c>>[1] = c OBVIOUS
<1> HIDE DEF g
<1>3. ReadFrom(r, <<>>) = g[0] BY <1>1, <1>2, ReadIs
<1>4. ReadFrom(r, <<c>>) = g[1]
  <2> DEFINE file == <<c>>
  <2>1. Len(file) = 1 /\ Len(file) \in Nat /\ \A n \in 1..Len(file) : g[n] = ReadCharacter(g[n - 1], file[n])
    BY <1>1, <1>2
  <2> HIDE DEF file
  <2>2. ReadFrom(r, file) = g[Len(file)] BY <1>1, <2>1, ReadIs
  <2> QED BY <2>1, <2>2 DEF file
<1> QED BY <1>1, <1>3, <1>4 DEF Single

\* What a character does to the cell that is read: inside the quotation
\* marks, outside them, and at its end.
LEMMA ReadInside ==
  ASSUME NEW lines, NEW row, NEW cell, NEW c
  PROVE  ReadCharacter(At(lines, row, cell, "quoted"), c)
         = IF c = "quote" THEN At(lines, row, cell, "after") ELSE At(lines, row, Append(cell, c), "quoted")
<1> DEFINE r == At(lines, row, cell, "quoted")
<1>1. r.state = "quoted" /\ r.cell = cell BY DEF At
<1>2. [r EXCEPT !.state = "after"] = At(lines, row, cell, "after") BY DEF At
<1>3. [r EXCEPT !.cell = Append(cell, c)] = At(lines, row, Append(cell, c), "quoted") BY DEF At
<1> HIDE DEF r
<1>4. ReadCharacter(r, c) = IF c = "quote" THEN [r EXCEPT !.state = "after"] ELSE [r EXCEPT !.cell = Append(cell, c)]
  BY <1>1 DEF ReadCharacter
<1> QED BY <1>2, <1>3, <1>4 DEF r

LEMMA ReadDoubled ==
  ASSUME NEW lines, NEW row, NEW cell
  PROVE  ReadCharacter(At(lines, row, cell, "after"), "quote") = At(lines, row, Append(cell, "quote"), "quoted")
<1> DEFINE r == At(lines, row, cell, "after")
<1>1. r.state = "after" /\ r.cell = cell BY DEF At
<1>2. [r EXCEPT !.state = "quoted", !.cell = Append(cell, "quote")] = At(lines, row, Append(cell, "quote"), "quoted")
  <2>1. [r EXCEPT !.state = "quoted"] = At(lines, row, cell, "quoted") BY DEF At
  <2>2. [At(lines, row, cell, "quoted") EXCEPT !.cell = Append(cell, "quote")] = At(lines, row, Append(cell, "quote"), "quoted")
    BY DEF At
  <2>3. [r EXCEPT !.state = "quoted", !.cell = Append(cell, "quote")]
        = [[r EXCEPT !.state = "quoted"] EXCEPT !.cell = Append(cell, "quote")]
    OBVIOUS
  <2> QED BY <2>1, <2>2, <2>3
<1> HIDE DEF r
<1>3. ReadCharacter(r, "quote") = [r EXCEPT !.state = "quoted", !.cell = Append(cell, "quote")]
  BY <1>1 DEF ReadCharacter
<1> QED BY <1>2, <1>3 DEF r

LEMMA ReadOutside ==
  ASSUME NEW lines, NEW row, NEW cell, NEW c, c \notin {"quote", "comma", "lf", "cr", "bom"}
  PROVE  ReadCharacter(At(lines, row, cell, "open"), c) = At(lines, row, Append(cell, c), "open")
<1> DEFINE r == At(lines, row, cell, "open")
<1>1. r.state = "open" /\ r.cell = cell BY DEF At
<1>2. [r EXCEPT !.cell = Append(cell, c)] = At(lines, row, Append(cell, c), "open") BY DEF At
<1> HIDE DEF r
<1>3. ReadCharacter(r, c) = [r EXCEPT !.cell = Append(cell, c)] BY <1>1 DEF ReadCharacter
<1> QED BY <1>2, <1>3 DEF r

LEMMA ReadOpening ==
  ASSUME NEW lines, NEW row
  PROVE  ReadCharacter(At(lines, row, <<>>, "open"), "quote") = At(lines, row, <<>>, "quoted")
<1> DEFINE r == At(lines, row, <<>>, "open")
<1>1. r.state = "open" /\ r.cell = <<>> BY DEF At
<1>2. [r EXCEPT !.state = "quoted"] = At(lines, row, <<>>, "quoted") BY DEF At
<1> HIDE DEF r
<1>3. ReadCharacter(r, "quote") = [r EXCEPT !.state = "quoted"] BY <1>1 DEF ReadCharacter
<1> QED BY <1>2, <1>3 DEF r

LEMMA ReadSeparator ==
  ASSUME NEW lines, NEW row, NEW cell, NEW state, state # "quoted"
  PROVE  /\ ReadCharacter(At(lines, row, cell, state), "comma") = At(lines, Append(row, cell), <<>>, "open")
         /\ ReadCharacter(At(lines, row, cell, state), "cr") = At(lines, row, cell, state)
         /\ ReadCharacter(At(lines, row, cell, state), "lf") = At(Append(lines, Append(row, cell)), <<>>, <<>>, "open")
<1> DEFINE r == At(lines, row, cell, state)
<1>1. r.state = state /\ r.cell = cell /\ r.row = row /\ r.rows = lines BY DEF At
<1>2. [r EXCEPT !.state = "open", !.row = Append(row, cell), !.cell = <<>>] = At(lines, Append(row, cell), <<>>, "open")
  <2>1. [r EXCEPT !.state = "open"] = At(lines, row, cell, "open") BY DEF At
  <2>2. [At(lines, row, cell, "open") EXCEPT !.row = Append(row, cell)] = At(lines, Append(row, cell), cell, "open") BY DEF At
  <2>3. [At(lines, Append(row, cell), cell, "open") EXCEPT !.cell = <<>>] = At(lines, Append(row, cell), <<>>, "open")
    BY DEF At
  <2>4. [r EXCEPT !.state = "open", !.row = Append(row, cell), !.cell = <<>>]
        = [[[r EXCEPT !.state = "open"] EXCEPT !.row = Append(row, cell)] EXCEPT !.cell = <<>>]
    OBVIOUS
  <2> QED BY <2>1, <2>2, <2>3, <2>4
<1>3. \A x : [rows |-> x, row |-> <<>>, cell |-> <<>>, state |-> "open"] = At(x, <<>>, <<>>, "open") BY DEF At
<1> HIDE DEF r
<1>4. ReadCharacter(r, "comma") = [r EXCEPT !.state = "open", !.row = Append(row, cell), !.cell = <<>>]
  BY <1>1 DEF ReadCharacter
<1>5. ReadCharacter(r, "cr") = r BY <1>1 DEF ReadCharacter
<1>6. ReadCharacter(r, "lf") = [rows |-> Append(lines, Append(row, cell)), row |-> <<>>, cell |-> <<>>, state |-> "open"]
  BY <1>1 DEF ReadCharacter
<1> QED BY <1>2, <1>3, <1>4, <1>5, <1>6 DEF r

Marks == {"quote", "comma", "cr", "lf", "bom", "apostrophe"}

\* A text doubled and parts joined, after each of their elements.
Pair(c) == IF c = "quote" THEN Single("quote") \o Single("quote") ELSE Single(c)

LEMMA PairIs == \A c : Pair(c) = IF c = "quote" THEN <<"quote", "quote">> ELSE <<c>>
<1>1. <<"quote">> \o <<"quote">> = <<"quote", "quote">>
  <2> DEFINE x == <<"quote">> \o <<"quote">>
             y == <<"quote", "quote">>
  <2>1. x \in Seq({"quote"}) /\ y \in Seq({"quote"}) /\ Len(x) = 2 /\ Len(y) = 2 OBVIOUS
  <2> HIDE DEF x, y
  <2>2. \A n \in 1..2 : x[n] \in {"quote"} /\ y[n] \in {"quote"} BY <2>1
  <2>3. x = y BY <2>1, <2>2
  <2> QED BY <2>3 DEF x, y
<1> QED BY <1>1 DEF Pair, Single

Doubling(D, C, text) ==
    /\ D \in [0..Len(text) -> Seq(C)] /\ D[0] = <<>> /\ D[Len(text)] = Doubled(text)
    /\ \A n \in 1..Len(text) : D[n] = D[n - 1] \o Pair(text[n])

LEMMA DoublingRuns == ASSUME NEW C, Marks \subseteq C, NEW text \in Seq(C) PROVE \E D : Doubling(D, C, text)
<1> DEFINE m == Len(text)
           S == Seq(C)
           F == [n \in 1..m |-> [x \in S |-> x \o Pair(text[n])]]
           Doubles(h) == h = [n \in 0..m |-> IF n = 0 THEN <<>> ELSE
                                 h[n - 1] \o (IF text[n] = "quote" THEN <<"quote", "quote">> ELSE <<text[n]>>)]
           upto == CHOOSE h : Doubles(h)
<1>1. m \in Nat /\ <<>> \in S /\ \A n \in 1..m : Pair(text[n]) \in S
  <2>1. <<"quote", "quote">> \in S /\ \A c \in C : <<c>> \in S BY DEF Marks
  <2> HIDE DEF S
  <2>2. \A c \in C : Pair(c) \in S BY <2>1, PairIs, Zenon
  <2>3. \A n \in 1..m : text[n] \in C OBVIOUS
  <2> QED BY <2>2, <2>3 DEF S
<1>2. F \in [1..m -> [S -> S]]
  <2>1. \A n \in 1..m, x \in S : x \o Pair(text[n]) \in S BY <1>1
  <2> QED BY <2>1
<1>3. \A n \in 1..m, x \in S : F[n][x] = x \o Pair(text[n]) OBVIOUS
<1> HIDE DEF F, S
<1>4. PICK g : Stepped(g, S, <<>>, m, F)
  <2> HIDE DEF m
  <2> QED BY <1>1, <1>2, StepsExist, Zenon
<1>5. \A n \in 0..m : g[n] \in S BY <1>4 DEF Stepped
<1>6. g[0] = <<>> /\ \A n \in 1..m : g[n] = g[n - 1] \o Pair(text[n])
  <2>1. \A n \in 1..m : n - 1 \in 0..m OBVIOUS
  <2> QED BY <1>3, <1>4, <1>5, <2>1 DEF Stepped
<1>7. Doubles(g) 
  <2>1. ASSUME NEW n \in 0..m
        PROVE  g[n] = IF n = 0 THEN <<>> ELSE
                          g[n - 1] \o (IF text[n] = "quote" THEN <<"quote", "quote">> ELSE <<text[n]>>)
    <3>1. n # 0 => n \in 1..m OBVIOUS
    <3> QED BY <1>6, <3>1, PairIs, Zenon
  <2>2. g = [n \in 0..m |-> g[n]] BY <1>4 DEF Stepped
  <2> QED BY <2>1, <2>2
<1>8. Doubles(upto) BY <1>7
<1>9. Doubled(text) = upto[m] BY DEF Doubled
<1> HIDE DEF upto
<1>10. upto[0] = <<>> BY <1>8
<1>11. ASSUME NEW n \in 1..m PROVE upto[n] = upto[n - 1] \o Pair(text[n])
  <2>1. n \in 0..m /\ n # 0 OBVIOUS
  <2>2. upto[n] = [k \in 0..m |-> IF k = 0 THEN <<>> ELSE upto[k - 1]
                 \o (IF text[k] = "quote" THEN <<"quote", "quote">> ELSE <<text[k]>>)][n]
    BY <1>8, Zenon
  <2> QED BY <2>1, <2>2, PairIs, Zenon
<1> DEFINE T == {n \in 0..m : upto[n] = g[n]}
<1>12. 0 \in T BY <1>6, <1>10
<1>13. ASSUME NEW n \in 1..m, n - 1 \in T PROVE n \in T
  <2>1. upto[n - 1] = g[n - 1] /\ n \in 0..m BY <1>13
  <2>2. upto[n] = g[n] BY <1>6, <1>11, <2>1, Zenon
  <2> QED BY <2>1, <2>2
<1> HIDE DEF T
<1>14. \A n \in 0..m : n \in T
  <2> HIDE DEF m
  <2> QED BY <1>1, <1>12, <1>13, StepByStep, Zenon
<1>15. m \in T BY <1>14
<1>16. g[m] = Doubled(text) BY <1>9, <1>15 DEF T
<1>17. g \in [0..m -> S] BY <1>4 DEF Stepped
<1> QED BY <1>6, <1>16, <1>17 DEF Doubling, S

Separator(n, separator) == IF n = 1 THEN <<>> ELSE separator
Joining(J, C, parts, separator) ==
    /\ J \in [0..Len(parts) -> Seq(C)] /\ J[0] = <<>> /\ J[Len(parts)] = Joined(parts, separator)
    /\ \A n \in 1..Len(parts) : J[n] = (J[n - 1] \o Separator(n, separator)) \o parts[n]

LEMMA JoiningRuns ==
  ASSUME NEW C, NEW parts \in Seq(Seq(C)), NEW separator \in Seq(C)
  PROVE  \E J : Joining(J, C, parts, separator)
<1> DEFINE m == Len(parts)
           S == Seq(C)
           F == [n \in 1..m |-> [x \in S |-> (x \o Separator(n, separator)) \o parts[n]]]
           Joins(h) == h = [n \in 0..m |-> IF n = 0 THEN <<>> ELSE
                               h[n - 1] \o (IF n = 1 THEN <<>> ELSE separator) \o parts[n]]
           upto == CHOOSE h : Joins(h)
<1>1. m \in Nat /\ <<>> \in S /\ \A n \in 1..m : parts[n] \in S /\ Separator(n, separator) \in S BY DEF Separator
<1>2. F \in [1..m -> [S -> S]]
  <2>1. \A n \in 1..m, x \in S : (x \o Separator(n, separator)) \o parts[n] \in S BY <1>1
  <2> QED BY <2>1
<1>3. \A n \in 1..m, x \in S : F[n][x] = (x \o Separator(n, separator)) \o parts[n] OBVIOUS
<1> HIDE DEF F, S
<1>4. PICK g : Stepped(g, S, <<>>, m, F)
  <2> HIDE DEF m
  <2> QED BY <1>1, <1>2, StepsExist, Zenon
<1>5. \A n \in 0..m : g[n] \in S BY <1>4 DEF Stepped
<1>6. g[0] = <<>> /\ \A n \in 1..m : g[n] = (g[n - 1] \o Separator(n, separator)) \o parts[n]
  <2>1. \A n \in 1..m : n - 1 \in 0..m OBVIOUS
  <2> QED BY <1>3, <1>4, <1>5, <2>1 DEF Stepped
<1>7. Joins(g)
  <2>1. ASSUME NEW n \in 0..m
        PROVE  g[n] = IF n = 0 THEN <<>> ELSE
                          g[n - 1] \o (IF n = 1 THEN <<>> ELSE separator) \o parts[n]
    <3>1. n # 0 => n \in 1..m OBVIOUS
    <3> QED BY <1>6, <3>1, Zenon DEF Separator
  <2>2. g = [n \in 0..m |-> g[n]] BY <1>4 DEF Stepped
  <2> QED BY <2>1, <2>2
<1>8. Joins(upto) BY <1>7
<1>9. Joined(parts, separator) = upto[m] BY DEF Joined
<1> HIDE DEF upto
<1>10. upto[0] = <<>> BY <1>8
<1>11. ASSUME NEW n \in 1..m PROVE upto[n] = (upto[n - 1] \o Separator(n, separator)) \o parts[n]
  <2>1. n \in 0..m /\ n # 0 OBVIOUS
  <2>2. upto[n] = [k \in 0..m |-> IF k = 0 THEN <<>> ELSE upto[k - 1]
                 \o (IF k = 1 THEN <<>> ELSE separator) \o parts[k]][n]
    BY <1>8, Zenon
  <2> QED BY <2>1, <2>2, Zenon DEF Separator
<1> DEFINE T == {n \in 0..m : upto[n] = g[n]}
<1>12. 0 \in T BY <1>6, <1>10
<1>13. ASSUME NEW n \in 1..m, n - 1 \in T PROVE n \in T
  <2>1. upto[n - 1] = g[n - 1] /\ n \in 0..m BY <1>13
  <2>2. upto[n] = g[n] BY <1>6, <1>11, <2>1, Zenon
  <2> QED BY <2>1, <2>2
<1> HIDE DEF T
<1>14. \A n \in 0..m : n \in T
  <2> HIDE DEF m
  <2> QED BY <1>1, <1>12, <1>13, StepByStep, Zenon
<1>15. m \in T BY <1>14
<1>16. g[m] = Joined(parts, separator) BY <1>9, <1>15 DEF T
<1>17. g \in [0..m -> S] BY <1>4 DEF Stepped
<1> QED BY <1>6, <1>16, <1>17 DEF Joining, S
\* The cells an export can be asked to write: any but those with the mark that begins the file.
Texts(C) == Seq(C \ {"bom"})

\* A text is read back between quotation marks, and without them when it has no character that needs them.
LEMMA ReadQuoted ==
  ASSUME NEW C, Marks \subseteq C, NEW lines \in Seq(Seq(Seq(C))), NEW row \in Seq(Seq(C)), NEW text \in Seq(C)
  PROVE  /\ Doubled(text) \in Seq(C)
         /\ ReadFrom(At(lines, row, <<>>, "quoted"), Doubled(text)) = At(lines, row, text, "quoted")
<1> DEFINE m == Len(text)
           Q(cell) == At(lines, row, cell, "quoted")
<1>1. PICK D : Doubling(D, C, text) BY DoublingRuns, Zenon
<1>2. /\ m \in Nat /\ \A n \in 0..m : D[n] \in Seq(C)
      /\ D[0] = <<>> /\ D[m] = Doubled(text)
      /\ \A n \in 1..m : D[n] = D[n - 1] \o Pair(text[n])
  <2>1. m \in Nat /\ 0 \in 0..m OBVIOUS
  <2>2. D \in [0..m -> Seq(C)] BY <1>1 DEF Doubling
  <2> QED BY <1>1, <2>1, <2>2 DEF Doubling
<1>3. \A cell \in Seq(C) : Q(cell) \in Readings(C) BY DEF At, Readings
<1> DEFINE T == {n \in 0..m : ReadFrom(Q(<<>>), D[n]) = Q(Upto(text, n))}
<1>4. 0 \in T
  <2>1. ReadFrom(Q(<<>>), <<>>) = Q(<<>>) BY ReadOne, Zenon
  <2>2. Upto(text, 0) = <<>> BY UptoSteps
  <2> QED BY <1>2, <2>1, <2>2
<1>5. ASSUME NEW n \in 1..m, n - 1 \in T PROVE n \in T
  <2> DEFINE before == Upto(text, n - 1)
             c == text[n]
  <2>1. n \in 0..m /\ n - 1 \in 0..m /\ c \in C OBVIOUS
  <2>2. before \in Seq(C) /\ Upto(text, n) = Append(before, c) BY <2>1, UptoSteps
  <2>3. Pair(c) \in Seq(C) /\ Single("quote") \in Seq(C)
    <3>1. Single("quote") \in Seq(C) /\ Single(c) \in Seq(C) BY <2>1 DEF Single, Marks
    <3>2. Single("quote") \o Single("quote") \in Seq(C) BY <3>1
    <3> QED BY <3>1, <3>2 DEF Pair
  <2> HIDE DEF before, c
  <2>4. ReadFrom(Q(<<>>), D[n - 1]) = Q(before) BY <1>5 DEF before
  <2>5. <<>> \in Seq(C) OBVIOUS
  <2>6. ReadFrom(Q(<<>>), D[n - 1] \o Pair(c)) = ReadFrom(Q(before), Pair(c))
    <3>1. Q(<<>>) \in Readings(C) /\ D[n - 1] \in Seq(C) BY <1>2, <1>3, <2>1, <2>5
    <3>2. ReadFrom(Q(<<>>), D[n - 1] \o Pair(c)) = ReadFrom(ReadFrom(Q(<<>>), D[n - 1]), Pair(c))
      BY <2>3, <3>1, ReadOn
    <3> QED BY <2>4, <3>2
  <2>7. ReadFrom(Q(before), Pair(c)) = Q(Append(before, c))
    <3>1. CASE c = "quote"
      <4>1. Pair(c) = Single("quote") \o Single("quote") BY <3>1 DEF Pair
      <4>2. ReadFrom(Q(before), Single("quote") \o Single("quote")) = ReadFrom(ReadFrom(Q(before), Single("quote")), Single("quote"))
        <5>1. Q(before) \in Readings(C) BY <1>3, <2>2
        <5> QED BY <2>3, <5>1, ReadOn
      <4>3. ReadFrom(Q(before), Single("quote")) = At(lines, row, before, "after") BY ReadOne, ReadInside
      <4>4. ReadFrom(At(lines, row, before, "after"), Single("quote")) = Q(Append(before, "quote")) BY ReadOne, ReadDoubled
      <4> QED BY <3>1, <4>1, <4>2, <4>3, <4>4
    <3>2. CASE c # "quote"
      <4>1. Pair(c) = Single(c) BY <3>2 DEF Pair
      <4>2. ReadCharacter(Q(before), c) = Q(Append(before, c))
        BY <3>2, ReadInside
      <4> QED BY <4>1, <4>2, ReadOne
    <3> QED BY <3>1, <3>2
  <2>8. ReadFrom(Q(<<>>), D[n]) = Q(Upto(text, n)) BY <1>2, <2>2, <2>6, <2>7 DEF c
  <2> QED BY <2>1, <2>8
<1> HIDE DEF T
<1>6. \A n \in 0..m : n \in T
  <2> HIDE DEF m
  <2> QED BY <1>2, <1>4, <1>5, StepByStep, Zenon
<1>7. m \in T BY <1>6
<1>8. Upto(text, m) = text BY UptoSteps
<1> QED BY <1>2, <1>7, <1>8 DEF T

LEMMA ReadUnquoted ==
  ASSUME NEW C, Marks \subseteq C, NEW lines \in Seq(Seq(Seq(C))), NEW row \in Seq(Seq(C)), NEW text \in Texts(C),
         \A i \in 1..Len(text) : text[i] \notin Quoted
  PROVE  ReadFrom(At(lines, row, <<>>, "open"), text) = At(lines, row, text, "open")
<1> DEFINE m == Len(text)
           Q(cell) == At(lines, row, cell, "open")
<1>1. /\ m \in Nat /\ text \in Seq(C)
      /\ \A n \in 1..m : text[n] \in C /\ text[n] \notin {"quote", "comma", "lf", "cr", "bom"}
  BY DEF Texts, Quoted
<1>2. \A cell \in Seq(C) : Q(cell) \in Readings(C) BY DEF At, Readings
<1> DEFINE T == {n \in 0..m : ReadFrom(Q(<<>>), Upto(text, n)) = Q(Upto(text, n))}
<1>3. 0 \in T
  <2>1. ReadFrom(Q(<<>>), <<>>) = Q(<<>>) BY ReadOne, Zenon
  <2>2. Upto(text, 0) = <<>> BY <1>1, UptoSteps
  <2> QED BY <1>1, <2>1, <2>2
<1>4. ASSUME NEW n \in 1..m, n - 1 \in T PROVE n \in T
  <2> DEFINE before == Upto(text, n - 1)
             c == text[n]
  <2>1. n \in 0..m /\ n - 1 \in 0..m /\ c \in C BY <1>1
  <2>2. before \in Seq(C) /\ Upto(text, n) = Append(before, c) BY <1>1, <2>1, UptoSteps
  <2>3. c \notin {"quote", "comma", "lf", "cr", "bom"} BY <1>1
  <2> HIDE DEF before, c
  <2>4. ReadFrom(Q(<<>>), before) = Q(before) BY <1>4 DEF before
  <2>5. <<>> \in Seq(C) /\ Single(c) \in Seq(C) /\ Append(before, c) = before \o Single(c) BY <2>1, <2>2 DEF Single
  <2>6. ReadFrom(Q(<<>>), before \o Single(c)) = ReadFrom(Q(before), Single(c))
    <3>1. Q(<<>>) \in Readings(C) BY <1>2, <2>5
    <3>2. ReadFrom(Q(<<>>), before \o Single(c)) = ReadFrom(ReadFrom(Q(<<>>), before), Single(c))
      BY <2>2, <2>5, <3>1, ReadOn
    <3> QED BY <2>4, <3>2
  <2>7. ReadCharacter(Q(before), c) = Q(Append(before, c)) BY <2>3, ReadOutside
  <2>8. ReadFrom(Q(<<>>), Upto(text, n)) = Q(Upto(text, n)) BY <2>2, <2>5, <2>6, <2>7, ReadOne
  <2> QED BY <2>1, <2>8
<1> HIDE DEF T
<1>5. \A n \in 0..m : n \in T
  <2> HIDE DEF m
  <2> QED BY <1>1, <1>3, <1>4, StepByStep, Zenon
<1>6. m \in T BY <1>1, <1>5
<1>7. Upto(text, m) = text BY <1>1, UptoSteps
<1> QED BY <1>6, <1>7 DEF T

\* A cell is written so that it is read back, and never begins as a formula.
LEMMA NeutralTexts ==
  ASSUME NEW C, Marks \subseteq C, NEW cell \in Texts(C)
  PROVE  /\ neutralizeSpreadsheetFormula(cell) \in Texts(C)
         /\ neutralizeSpreadsheetFormula(cell) # <<>> => Head(neutralizeSpreadsheetFormula(cell)) \notin Formula
<1>1. "apostrophe" \in C \ {"bom"} BY DEF Marks
<1>2. CASE cell # <<>> /\ Head(cell) \in Formula
  <2>1. neutralizeSpreadsheetFormula(cell) = <<"apostrophe">> \o cell BY <1>2 DEF neutralizeSpreadsheetFormula
  <2>2. <<"apostrophe">> \o cell \in Seq(C \ {"bom"}) BY <1>1 DEF Texts
  <2>3. Head(<<"apostrophe">> \o cell) = "apostrophe" BY <1>1 DEF Texts
  <2> QED BY <2>1, <2>2, <2>3 DEF Texts, Formula
<1>3. CASE ~ (cell # <<>> /\ Head(cell) \in Formula)
  BY <1>3 DEF neutralizeSpreadsheetFormula
<1> QED BY <1>2, <1>3

LEMMA ReadCell ==
  ASSUME NEW C, Marks \subseteq C, NEW lines \in Seq(Seq(Seq(C))), NEW row \in Seq(Seq(C)), NEW cell \in Texts(C)
  PROVE  /\ escapeCsvCell(cell) \in Seq(C)
         /\ \E state \in {"open", "after"} :
               ReadFrom(At(lines, row, <<>>, "open"), escapeCsvCell(cell))
               = At(lines, row, neutralizeSpreadsheetFormula(cell), state)
<1> DEFINE text == neutralizeSpreadsheetFormula(cell)
<1>1. text \in Texts(C) BY NeutralTexts
<1>2. text \in Seq(C) BY <1>1 DEF Texts
<1>3. At(lines, row, <<>>, "open") \in Readings(C) BY DEF At, Readings
<1>4. escapeCsvCell(cell) = IF ToSet(text) \cap Quoted = {} THEN text
                            ELSE (Single("quote") \o Doubled(text)) \o Single("quote")
  BY DEF escapeCsvCell, Single
<1> HIDE DEF text
<1>5. CASE ToSet(text) \cap Quoted = {}
  <2>1. \A i \in 1..Len(text) : text[i] \notin Quoted BY <1>2, <1>5 DEF ToSet
  <2>2. ReadFrom(At(lines, row, <<>>, "open"), text) = At(lines, row, text, "open") BY <1>1, <2>1, ReadUnquoted
  <2> QED BY <1>2, <1>4, <1>5, <2>2 DEF text
<1>6. CASE ToSet(text) \cap Quoted # {}
  <2>1. Doubled(text) \in Seq(C) /\ ReadFrom(At(lines, row, <<>>, "quoted"), Doubled(text)) = At(lines, row, text, "quoted")
    BY <1>2, ReadQuoted
  <2>2. Single("quote") \in Seq(C) BY DEF Marks, Single
  <2>3. Single("quote") \o Doubled(text) \in Seq(C) /\ (Single("quote") \o Doubled(text)) \o Single("quote") \in Seq(C)
    BY <2>1, <2>2
  <2>4. ReadFrom(At(lines, row, <<>>, "open"), Single("quote")) = At(lines, row, <<>>, "quoted") BY ReadOne, ReadOpening
  <2>5. ReadFrom(At(lines, row, <<>>, "open"), Single("quote") \o Doubled(text)) = At(lines, row, text, "quoted")
    <3>1. ReadFrom(At(lines, row, <<>>, "open"), Single("quote") \o Doubled(text))
          = ReadFrom(ReadFrom(At(lines, row, <<>>, "open"), Single("quote")), Doubled(text))
      BY <1>3, <2>1, <2>2, ReadOn
    <3> QED BY <2>1, <2>4, <3>1
  <2>6. ReadFrom(At(lines, row, <<>>, "open"), (Single("quote") \o Doubled(text)) \o Single("quote"))
        = ReadFrom(At(lines, row, text, "quoted"), Single("quote"))
    <3>1. ReadFrom(At(lines, row, <<>>, "open"), (Single("quote") \o Doubled(text)) \o Single("quote"))
          = ReadFrom(ReadFrom(At(lines, row, <<>>, "open"), Single("quote") \o Doubled(text)), Single("quote"))
      <4> DEFINE opened == Single("quote") \o Doubled(text)
      <4>1. opened \in Seq(C) BY <2>3
      <4> HIDE DEF opened
      <4>2. ReadFrom(At(lines, row, <<>>, "open"), opened \o Single("quote"))
            = ReadFrom(ReadFrom(At(lines, row, <<>>, "open"), opened), Single("quote"))
        BY <1>3, <2>2, <4>1, ReadOn
      <4> QED BY <4>2 DEF opened
    <3> QED BY <2>5, <3>1
  <2>7. ReadFrom(At(lines, row, text, "quoted"), Single("quote")) = At(lines, row, text, "after") BY ReadOne, ReadInside
  <2> QED BY <1>4, <1>6, <2>3, <2>6, <2>7 DEF text
<1> QED BY <1>5, <1>6

(***************************************************************************)
(* Lines and files.                                                        *)
(***************************************************************************)
Neutral(row) == [j \in DOMAIN row |-> neutralizeSpreadsheetFormula(row[j])]
LineBreak == <<"cr", "lf">>

LEMMA ReadBreak ==
  ASSUME NEW C, Marks \subseteq C, NEW lines \in Seq(Seq(Seq(C))), NEW row \in Seq(Seq(C)), NEW cell \in Seq(C),
         NEW state \in {"open", "after"}
  PROVE  ReadFrom(At(lines, row, cell, state), LineBreak) = At(Append(lines, Append(row, cell)), <<>>, <<>>, "open")
<1> DEFINE r == At(lines, row, cell, state)
<1>1. LineBreak = Single("cr") \o Single("lf")
  <2> DEFINE y == <<"cr">> \o <<"lf">>
  <2>1. LineBreak \in Seq({"cr", "lf"}) /\ Len(LineBreak) = 2 /\ LineBreak[1] = "cr" /\ LineBreak[2] = "lf"
    BY DEF LineBreak
  <2>2. y \in Seq({"cr", "lf"}) /\ Len(y) = 2 /\ y[1] = "cr" /\ y[2] = "lf" OBVIOUS
  <2> HIDE DEF y
  <2>3. \A n \in 1..2 : LineBreak[n] = y[n] BY <2>1, <2>2
  <2>4. LineBreak \in [1..2 -> {"cr", "lf"}] /\ y \in [1..2 -> {"cr", "lf"}] BY <2>1, <2>2
  <2>5. LineBreak = y BY <2>3, <2>4
  <2> QED BY <2>5 DEF y, Single
<1>2. Single("cr") \in Seq(C) /\ Single("lf") \in Seq(C) BY DEF Single, Marks
<1>3. r \in Readings(C) BY DEF At, Readings
<1> HIDE DEF r
<1>4. ReadFrom(r, Single("cr") \o Single("lf")) = ReadFrom(ReadFrom(r, Single("cr")), Single("lf"))
  BY <1>2, <1>3, ReadOn
<1>5. ReadFrom(r, Single("cr")) = r BY ReadOne, ReadSeparator DEF r
<1>6. ReadFrom(r, Single("lf")) = At(Append(lines, Append(row, cell)), <<>>, <<>>, "open")
  <2>1. ReadCharacter(r, "lf") = At(Append(lines, Append(row, cell)), <<>>, <<>>, "open") BY ReadSeparator DEF r
  <2> QED BY <2>1, ReadOne, Zenon
<1> QED BY <1>1, <1>4, <1>5, <1>6 DEF r

\* A line is read back cell by cell; then a file line by line.
LEMMA ReadLine ==
  ASSUME NEW C, Marks \subseteq C, NEW lines \in Seq(Seq(Seq(C))), NEW row \in Seq(Texts(C)), row # <<>>
  PROVE  /\ CsvLine(row) \in Seq(C) /\ Neutral(row) \in Seq(Seq(C))
         /\ ReadFrom(ReadFrom(At(lines, <<>>, <<>>, "open"), CsvLine(row)), LineBreak)
            = At(Append(lines, Neutral(row)), <<>>, <<>>, "open")
<1> DEFINE m == Len(row)
           start == At(lines, <<>>, <<>>, "open")
           read == Neutral(row)
           parts == [i \in DOMAIN row |-> escapeCsvCell(row[i])]
           comma == Single("comma")
<1>1. m \in Nat /\ m # 0 /\ \A n \in 1..m : row[n] \in Texts(C) OBVIOUS
<1>2. \A n \in 1..m : escapeCsvCell(row[n]) \in Seq(C)
  <2>1. <<>> \in Seq(Seq(C)) OBVIOUS
  <2> QED BY <1>1, <2>1, ReadCell
<1>3. parts \in Seq(Seq(C)) /\ Len(parts) = m /\ \A n \in 1..m : parts[n] = escapeCsvCell(row[n]) BY <1>1, <1>2
<1>4. \A n \in 1..m : neutralizeSpreadsheetFormula(row[n]) \in Seq(C)
  <2>1. \A cell \in Texts(C) : neutralizeSpreadsheetFormula(cell) \in Texts(C) BY NeutralTexts
  <2>2. \A cell \in Texts(C) : cell \in Seq(C) BY DEF Texts
  <2> QED BY <1>1, <2>1, <2>2
<1>5. /\ read \in Seq(Seq(C)) /\ Len(read) = m
      /\ \A n \in 1..m : read[n] = neutralizeSpreadsheetFormula(row[n]) /\ read[n] \in Seq(C)
  BY <1>1, <1>4 DEF Neutral
<1>6. comma \in Seq(C) BY DEF Single, Marks
<1>7. start \in Readings(C) BY DEF At, Readings
<1>8. CsvLine(row) = Joined(parts, comma) BY DEF CsvLine, Single
<1> HIDE DEF parts, read, comma, start
<1>9. PICK J : Joining(J, C, parts, comma) BY <1>3, <1>6, JoiningRuns, Zenon
<1>10. /\ \A n \in 0..m : J[n] \in Seq(C)
       /\ J[0] = <<>> /\ J[m] = CsvLine(row)
       /\ \A n \in 1..m : J[n] = (J[n - 1] \o Separator(n, comma)) \o parts[n]
  BY <1>3, <1>8, <1>9 DEF Joining
<1> DEFINE T == {n \in 0..m : n = 0 \/ \E state \in {"open", "after"} :
                                          ReadFrom(start, J[n]) = At(lines, Upto(read, n - 1), read[n], state)}
<1>11. 0 \in T BY <1>1
<1>12. ASSUME NEW n \in 1..m, n - 1 \in T PROVE n \in T
  <2>1. n \in 0..m /\ n - 1 \in 0..m /\ (n # 1 => n - 1 \in 1..m) /\ (n - 1 = 0 <=> n = 1) BY <1>1
  <2>2. Upto(read, n - 1) \in Seq(Seq(C)) BY <1>5, <2>1, UptoSteps
  <2>3. PICK state \in {"open", "after"} :
            ReadFrom(At(lines, Upto(read, n - 1), <<>>, "open"), parts[n]) = At(lines, Upto(read, n - 1), read[n], state)
    <3> DEFINE cell == row[n]
               before == Upto(read, n - 1)
    <3>1. cell \in Texts(C) BY <1>1
    <3> HIDE DEF cell, before
    <3>2. \E state \in {"open", "after"} :
              ReadFrom(At(lines, before, <<>>, "open"), escapeCsvCell(cell))
              = At(lines, before, neutralizeSpreadsheetFormula(cell), state)
      BY <2>2, <3>1, ReadCell DEF before
    <3> QED BY <1>3, <1>5, <3>2 DEF before, cell
  <2>4. ReadFrom(start, J[n]) = ReadFrom(At(lines, Upto(read, n - 1), <<>>, "open"), parts[n])
    <3>1. CASE n = 1
      <4>1. J[1] = (<<>> \o <<>>) \o parts[1] BY <1>10, <2>1, <3>1, Zenon DEF Separator
      <4>2. (<<>> \o <<>>) \o parts[1] = parts[1] BY <1>3, <2>1, <3>1
      <4>3. Upto(read, n - 1) = <<>> BY <1>5, <3>1, UptoSteps
      <4> QED BY <3>1, <4>1, <4>2, <4>3 DEF start
    <3>2. CASE n # 1
      <4> DEFINE before == Upto(read, n - 2)
      <4>1. n - 1 \in 1..m /\ n - 2 \in 0..m /\ (n - 1) - 1 = n - 2 BY <1>1, <3>2
      <4>2. before \in Seq(Seq(C)) /\ Upto(read, n - 1) = Append(before, read[n - 1]) BY <1>5, <4>1, UptoSteps
      <4>3. PICK last \in {"open", "after"} : ReadFrom(start, J[n - 1]) = At(lines, before, read[n - 1], last)
        BY <1>12, <2>1, <3>2, <4>1
      <4> HIDE DEF before
      <4>4. J[n] = (J[n - 1] \o comma) \o parts[n] BY <1>10, <3>2, Zenon DEF Separator
      <4>5. J[n - 1] \in Seq(C) /\ parts[n] \in Seq(C) /\ J[n - 1] \o comma \in Seq(C) BY <1>3, <1>6, <1>10, <2>1
      <4>6. ReadFrom(start, J[n - 1] \o comma) = ReadFrom(ReadFrom(start, J[n - 1]), comma)
        BY <1>6, <1>7, <4>5, ReadOn
      <4>7. ReadFrom(At(lines, before, read[n - 1], last), comma) = At(lines, Append(before, read[n - 1]), <<>>, "open")
        <5>1. ReadCharacter(At(lines, before, read[n - 1], last), "comma")
              = At(lines, Append(before, read[n - 1]), <<>>, "open")
          BY ReadSeparator
        <5> QED BY <5>1, ReadOne, Zenon DEF comma
      <4> DEFINE a == J[n - 1] \o comma
      <4>8. a \in Seq(C) /\ ReadFrom(start, a) = At(lines, Upto(read, n - 1), <<>>, "open")
        BY <4>2, <4>3, <4>5, <4>6, <4>7
      <4> HIDE DEF a
      <4>9. ReadFrom(start, a \o parts[n]) = ReadFrom(ReadFrom(start, a), parts[n]) BY <1>7, <4>5, <4>8, ReadOn
      <4> QED BY <4>4, <4>8, <4>9 DEF a
    <3> QED BY <3>1, <3>2
  <2> QED BY <2>1, <2>3, <2>4
<1> HIDE DEF T
<1>13. \A n \in 0..m : n \in T
  <2> HIDE DEF m
  <2> QED BY <1>1, <1>11, <1>12, StepByStep, Zenon
<1>14. m \in T /\ m \in 1..m /\ m - 1 \in 0..m BY <1>1, <1>13
<1>15. PICK state \in {"open", "after"} : ReadFrom(start, J[m]) = At(lines, Upto(read, m - 1), read[m], state)
  BY <1>1, <1>14 DEF T
<1>16. Upto(read, m - 1) \in Seq(Seq(C)) /\ Append(Upto(read, m - 1), read[m]) = read BY <1>5, <1>14, UptoSteps
<1>17. ReadFrom(At(lines, Upto(read, m - 1), read[m], state), LineBreak) = At(Append(lines, read), <<>>, <<>>, "open")
  <2> DEFINE before == Upto(read, m - 1)
             cell == read[m]
  <2>1. cell \in Seq(C) /\ before \in Seq(Seq(C)) /\ Append(before, cell) = read BY <1>5, <1>14, <1>16
  <2> HIDE DEF before, cell
  <2>2. ReadFrom(At(lines, before, cell, state), LineBreak) = At(Append(lines, Append(before, cell)), <<>>, <<>>, "open")
    BY <2>1, ReadBreak
  <2> QED BY <2>1, <2>2 DEF before, cell
<1>18. CsvLine(row) \in Seq(C) BY <1>1, <1>10
<1> QED BY <1>5, <1>10, <1>15, <1>17, <1>18 DEF read, start

\* A spreadsheet reads back every export: a header and rows, none empty, of
\* cells of any length of any characters but the mark that begins the file
\* (serializeOperationsCsv).
THEOREM ExportsAlwaysReadBack ==
  ASSUME NEW Characters, NEW lines \in Seq(Seq(Texts(Characters)) \ {<<>>}), lines # <<>>
  PROVE  ExportsReadBack(lines)
<1> DEFINE C == Characters \cup Marks
           m == Len(lines)
           start == At(<<>>, <<>>, <<>>, "open")
           read == [i \in DOMAIN lines |-> Neutral(lines[i])]
           parts == [i \in DOMAIN lines |-> CsvLine(lines[i])]
<1>1. Marks \subseteq C OBVIOUS
<1>2. m \in Nat /\ m # 0 /\ \A n \in 1..m : lines[n] \in Seq(Texts(C)) /\ lines[n] # <<>>
  <2>1. Characters \ {"bom"} \subseteq C \ {"bom"} OBVIOUS
  <2>2. Texts(Characters) \subseteq Texts(C)
    <3> SUFFICES ASSUME NEW text \in Texts(Characters) PROVE text \in Texts(C) OBVIOUS
    <3> HIDE DEF C
    <3> QED BY <2>1 DEF Texts
  <2>3. ASSUME NEW row \in Seq(Texts(Characters)) PROVE row \in Seq(Texts(C))
    <3> HIDE DEF C
    <3> QED BY <2>2
  <2>4. m \in Nat /\ m # 0 /\ \A n \in 1..m : lines[n] \in Seq(Texts(Characters)) /\ lines[n] # <<>> OBVIOUS
  <2> QED BY <2>3, <2>4
<1> HIDE DEF C
<1>3. \A n \in 1..m : CsvLine(lines[n]) \in Seq(C) /\ Neutral(lines[n]) \in Seq(Seq(C))
  <2>1. <<>> \in Seq(Seq(Seq(C))) OBVIOUS
  <2> QED BY <1>1, <1>2, <2>1, ReadLine
<1>4. parts \in Seq(Seq(C)) /\ Len(parts) = m /\ \A n \in 1..m : parts[n] = CsvLine(lines[n])
  <2> DEFINE S == Seq(C)
  <2>1. \A n \in 1..m : CsvLine(lines[n]) \in S BY <1>3
  <2>2. DOMAIN lines = 1..m OBVIOUS
  <2> HIDE DEF S, m
  <2>3. parts \in Seq(S) /\ Len(parts) = m /\ \A n \in 1..m : parts[n] = CsvLine(lines[n]) BY <1>2, <2>1, <2>2
  <2> QED BY <2>3 DEF S
<1>5. read \in Seq(Seq(Seq(C))) /\ Len(read) = m /\ \A n \in 1..m : read[n] = Neutral(lines[n])
  <2> DEFINE S == Seq(Seq(C))
  <2>1. \A n \in 1..m : Neutral(lines[n]) \in S BY <1>3
  <2>2. DOMAIN lines = 1..m OBVIOUS
  <2> HIDE DEF S, m
  <2>3. read \in Seq(S) /\ Len(read) = m /\ \A n \in 1..m : read[n] = Neutral(lines[n]) BY <1>2, <2>1, <2>2
  <2> QED BY <2>3 DEF S
<1>6. LineBreak \in Seq(C) /\ Single("bom") \in Seq(C) BY <1>1 DEF LineBreak, Single, Marks
<1>7. start \in Readings(C) BY DEF At, Readings
<1>8. serializeOperationsCsv(lines) = (Single("bom") \o Joined(parts, LineBreak)) \o LineBreak
  BY Zenon DEF serializeOperationsCsv, LineBreak, Single
<1> HIDE DEF parts, read, start
<1>9. PICK J : Joining(J, C, parts, LineBreak) BY <1>4, <1>6, JoiningRuns, Zenon
<1>10. /\ \A n \in 0..m : J[n] \in Seq(C)
       /\ J[0] = <<>> /\ J[m] = Joined(parts, LineBreak)
       /\ \A n \in 1..m : J[n] = (J[n - 1] \o Separator(n, LineBreak)) \o parts[n]
  BY <1>4, <1>9 DEF Joining
<1> DEFINE T == {n \in 0..m : n = 0 \/ ReadFrom(ReadFrom(start, J[n]), LineBreak)
                                        = At(Upto(read, n), <<>>, <<>>, "open")}
<1>11. 0 \in T BY <1>2
<1>12. ASSUME NEW n \in 1..m, n - 1 \in T PROVE n \in T
  <2>1. n \in 0..m /\ n - 1 \in 0..m /\ (n - 1 = 0 <=> n = 1) BY <1>2
  <2>2. Upto(read, n - 1) \in Seq(Seq(Seq(C))) /\ Upto(read, n) = Append(Upto(read, n - 1), read[n])
    BY <1>5, <2>1, UptoSteps
  <2>3. ReadFrom(ReadFrom(At(Upto(read, n - 1), <<>>, <<>>, "open"), parts[n]), LineBreak)
        = At(Upto(read, n), <<>>, <<>>, "open")
    <3> DEFINE row == lines[n]
               before == Upto(read, n - 1)
    <3>1. row \in Seq(Texts(C)) /\ row # <<>> /\ parts[n] = CsvLine(row) /\ read[n] = Neutral(row) BY <1>2, <1>4, <1>5
    <3> HIDE DEF row, before
    <3>2. ReadFrom(ReadFrom(At(before, <<>>, <<>>, "open"), CsvLine(row)), LineBreak)
          = At(Append(before, Neutral(row)), <<>>, <<>>, "open")
      BY <1>1, <2>2, <3>1, ReadLine DEF before
    <3> QED BY <2>2, <3>1, <3>2 DEF before
  <2>4. ReadFrom(start, J[n]) = ReadFrom(At(Upto(read, n - 1), <<>>, <<>>, "open"), parts[n])
    <3>1. CASE n = 1
      <4>1. J[1] = (<<>> \o <<>>) \o parts[1] BY <1>10, <2>1, <3>1, Zenon DEF Separator
      <4>2. (<<>> \o <<>>) \o parts[1] = parts[1] BY <1>4, <2>1, <3>1
      <4>3. Upto(read, n - 1) = <<>> BY <1>5, <3>1, UptoSteps
      <4> QED BY <3>1, <4>1, <4>2, <4>3 DEF start
    <3>2. CASE n # 1
      <4> DEFINE a == J[n - 1] \o LineBreak
      <4>1. J[n] = a \o parts[n] BY <1>10, <3>2, Zenon DEF Separator
      <4>2. J[n - 1] \in Seq(C) /\ parts[n] \in Seq(C) /\ a \in Seq(C)
        <5>1. J[n - 1] \in Seq(C) /\ parts[n] \in Seq(C) BY <1>3, <1>4, <1>10, <2>1
        <5> QED BY <1>6, <5>1
      <4>3. ReadFrom(start, a) = ReadFrom(ReadFrom(start, J[n - 1]), LineBreak) BY <1>6, <1>7, <4>2, ReadOn
      <4>4. ReadFrom(start, a) = At(Upto(read, n - 1), <<>>, <<>>, "open") BY <1>12, <2>1, <3>2, <4>3
      <4> HIDE DEF a
      <4>5. ReadFrom(start, a \o parts[n]) = ReadFrom(ReadFrom(start, a), parts[n]) BY <1>7, <4>2, ReadOn
      <4> QED BY <4>1, <4>4, <4>5
    <3> QED BY <3>1, <3>2
  <2> QED BY <2>1, <2>3, <2>4
<1> HIDE DEF T
<1>13. \A n \in 0..m : n \in T
  <2> HIDE DEF m
  <2> QED BY <1>2, <1>11, <1>12, StepByStep, Zenon
<1>14. ReadFrom(ReadFrom(start, J[m]), LineBreak) = At(read, <<>>, <<>>, "open")
  <2>1. m \in T BY <1>2, <1>13
  <2>2. Upto(read, m) = read BY <1>5, UptoSteps
  <2> QED BY <1>2, <2>1, <2>2 DEF T
<1>15. SpreadsheetRows(serializeOperationsCsv(lines)) = read
  <2> DEFINE a == Single("bom") \o J[m]
  <2>1. J[m] \in Seq(C) /\ a \in Seq(C) BY <1>2, <1>6, <1>10
  <2>2. ReadFrom(start, a) = ReadFrom(ReadFrom(start, Single("bom")), J[m]) BY <1>6, <1>7, <2>1, ReadOn
  <2>3. ReadFrom(start, Single("bom")) = start
    <3>1. ReadCharacter(start, "bom") = start BY DEF ReadCharacter, start, At
    <3> QED BY <3>1, ReadOne
  <2> HIDE DEF a
  <2>4. ReadFrom(start, a \o LineBreak) = ReadFrom(ReadFrom(start, a), LineBreak) BY <1>6, <1>7, <2>1, ReadOn
  <2>5. ReadFrom(start, a \o LineBreak) = At(read, <<>>, <<>>, "open") BY <1>14, <2>2, <2>3, <2>4
  <2>6. StartReading = start BY DEF StartReading, start, At
  <2>7. serializeOperationsCsv(lines) = a \o LineBreak BY <1>8, <1>10 DEF a
  <2>8. At(read, <<>>, <<>>, "open").rows = read BY DEF At
  <2> QED BY <2>5, <2>6, <2>7, <2>8 DEF SpreadsheetRows
<1>16. read = [i \in DOMAIN lines |-> [j \in DOMAIN lines[i] |-> neutralizeSpreadsheetFormula(lines[i][j])]]
  BY DEF read, Neutral
<1>17. ASSUME NEW i \in DOMAIN read, NEW j \in DOMAIN read[i], read[i][j] # <<>>
       PROVE  Head(read[i][j]) \notin Formula
  <2>1. i \in 1..m /\ lines[i] \in Seq(Texts(C)) BY <1>2, <1>5
  <2>2. j \in DOMAIN lines[i] /\ read[i][j] = neutralizeSpreadsheetFormula(lines[i][j]) BY <1>5, <2>1 DEF Neutral
  <2>3. lines[i][j] \in Texts(C) BY <2>1, <2>2
  <2> QED BY <1>1, <1>17, <2>2, <2>3, NeutralTexts
<1> QED BY <1>15, <1>16, <1>17 DEF ExportsReadBack

\* Being required for a preview means being required for production.
LEMMA ProductionIsStricter ==
  ASSUME NEW n, NEW env, EntryFails(n, env, "preview") PROVE EntryFails(n, env, "production")
<1>1. isRequired(n, "preview") => isRequired(n, "production") BY DEF isRequired
<1> QED BY <1>1 DEF EntryFails

\* What a production asks of a name whose value is not a switch.
LEMMA RequiredIsValid ==
  ASSUME NEW n, NEW env, NEW mode, isRequired(n, mode), ~EntryFails(n, env, mode),
         n \notin MustBeFalse, n \notin DOMAIN FEATURE_DEPENDENCIES
  PROVE  validateConfiguredValue(n, env.values[n])
<1>1. env.values[n] \notin {"missing", "placeholder"} BY DEF EntryFails
<1> QED BY <1>1 DEF EntryFails

\* A switch that must be off fails when it is on, is no switch or is required and missing.
LEMMA FirstOfEntry ==
  ASSUME NEW n \in MustBeFalse, NEW env, NEW mode, isRequired(n, mode),
         safeBoolean(env.values[n]) \in {"true", "invalid", "missing"}
  PROVE  EntryFails(n, env, mode)
BY DEF EntryFails

\* The names the applications and the pilot check need are required of a
\* production, in a scope that it checks.
LEMMA NamesOfProduction ==
  ASSUME NEW n \in webRequiredVariables \cup driverRequiredVariables \cup UrlNames
  PROVE  /\ \E s \in relevantScopes("production") : n \in ScopeNames(s)
         /\ isRequired(n, "production")
         /\ n \notin MustBeFalse /\ n \notin DOMAIN FEATURE_DEPENDENCIES
<1>1. DOMAIN Needed = {"web", "driver", "server"} /\ relevantScopes("production") = {"web", "driver", "server"}
  BY DEF Needed, relevantScopes
<1>2. /\ {"VITE_PRODUCT_NAME", "VITE_SUPABASE_URL", "VITE_SUPABASE_ANON_KEY"} \subseteq Needed["web"].preview
      /\ {"EXPO_PUBLIC_PRODUCT_NAME", "EXPO_PUBLIC_SUPABASE_URL", "EXPO_PUBLIC_SUPABASE_ANON_KEY"} \subseteq Needed["driver"].production
      /\ "SUPABASE_URL" \in Needed["server"].preview
  BY DEF Needed
<1>3. \E s \in {"web", "driver", "server"} : n \in Needed[s].preview \cup Needed[s].production
  BY <1>2 DEF webRequiredVariables, driverRequiredVariables, UrlNames
<1>4. \E s \in relevantScopes("production") : n \in ScopeNames(s) BY <1>1, <1>3 DEF ScopeNames
<1>5. isRequired(n, "production") BY <1>1, <1>3 DEF isRequired
<1>6. n \notin MustBeFalse /\ n \notin DOMAIN FEATURE_DEPENDENCIES
  BY DEF webRequiredVariables, driverRequiredVariables, UrlNames, MustBeFalse, FEATURE_DEPENDENCIES
<1> QED BY <1>4, <1>5, <1>6

\* An environment that the release script accepts for production is accepted for
\* a preview and by the pilot check, names one project, keeps the intake off, and
\* every worker that is switched on can work; for any environment.
THEOREM EnvironmentsAreAlwaysSafe == \A env : EnvironmentsAreSafe(env)
<1> SUFFICES ASSUME NEW env PROVE EnvironmentsAreSafe(env) OBVIOUS
<1> DEFINE safe == [customerLive |-> FALSE, liveTracking |-> FALSE]
           projects(mode) == UNION {Project(env.values[n]) : n \in {u \in UrlNames : mode = "production" \/ u # "EXPO_PUBLIC_SUPABASE_URL"}}
           values == {env.values[n] : n \in UrlNames}
<1>a. relevantScopes("preview") \subseteq relevantScopes("production") BY DEF relevantScopes
<1>p. \A mode : IsFiniteSet(projects(mode)) /\ Cardinality(projects(mode)) \in Nat
  <2> TAKE mode
  <2>1. projects(mode) \subseteq {"p1", "p2"} BY DEF Project
  <2>2. IsFiniteSet({"p1", "p2"})
    <3>1. {"p1", "p2"} = {"p1"} \cup {"p2"} OBVIOUS
    <3>2. IsFiniteSet({"p1"}) /\ IsFiniteSet({"p2"}) BY FS_Singleton
    <3> QED BY <3>1, <3>2, FS_Union
  <2> QED BY <2>1, <2>2, FS_Subset, FS_CardinalityType
<1>1. ASSUME evaluateEnvironment(env, "production")
      PROVE  /\ evaluateEnvironment(env, "preview")
             /\ ~hasBlockingPilotReadinessIssue(env, safe, "production")
             /\ Cardinality(values) = 1
             /\ env.values["ENQUIRY_INTAKE_ENABLED"] = "false"
             /\ env.values["VITE_SUPABASE_ANON_KEY"] # "privileged"
  <2>1. \A n : (\E s \in relevantScopes("production") : n \in ScopeNames(s)) => ~EntryFails(n, env, "production")
    BY <1>1 DEF evaluateEnvironment
  <2>2. \A n \in webRequiredVariables \cup driverRequiredVariables \cup UrlNames :
           validateConfiguredValue(n, env.values[n])
    BY <2>1, NamesOfProduction, RequiredIsValid
  <2>3. evaluateEnvironment(env, "preview")
    <3>1. \A s \in relevantScopes("preview") : \A n \in ScopeNames(s) : ~EntryFails(n, env, "preview")
      BY <1>a, <2>1, ProductionIsStricter
    <3>2. projects("preview") \subseteq projects("production") OBVIOUS
    <3>3. Cardinality(projects("preview")) <= Cardinality(projects("production")) BY <1>p, <3>2, FS_Subset
    <3>4. Cardinality(projects("production")) <= 1 BY <1>1 DEF evaluateEnvironment
    <3>5. Cardinality(projects("preview")) \in Nat /\ Cardinality(projects("production")) \in Nat BY <1>p
    <3>6. Cardinality(projects("preview")) <= 1 BY <3>3, <3>4, <3>5
    <3> QED BY <1>1, <3>1, <3>6 DEF evaluateEnvironment
  <2>4. ~hasBlockingPilotReadinessIssue(env, safe, "production")
    <3>1. \A n \in webRequiredVariables \cup driverRequiredVariables : env.values[n] \notin {"missing", "placeholder"}
      BY <2>2 DEF validateConfiguredValue
    <3>2. env.others = {} BY <1>1 DEF evaluateEnvironment
    <3>3. {d \in DOMAIN safe : safe[d]} = {} OBVIOUS
    <3>4. PilotChecks(env, safe) = {} BY <3>1, <3>2, <3>3 DEF PilotChecks
    <3> QED BY <3>4 DEF hasBlockingPilotReadinessIssue
  <2>5. Cardinality(values) = 1
    <3>1. \A n \in UrlNames : env.values[n] \in {"p1", "p2"} BY <2>2 DEF validateConfiguredValue, Project
    <3>2. values = projects("production") BY <3>1 DEF Project
    <3>3. Cardinality(values) <= 1 /\ IsFiniteSet(values) /\ Cardinality(values) \in Nat
      BY <1>1, <1>p, <3>2 DEF evaluateEnvironment
    <3>4. env.values["SUPABASE_URL"] \in values BY DEF UrlNames
    <3>5. Cardinality(values) # 0 BY <3>3, <3>4, FS_EmptySet
    <3> QED BY <3>3, <3>5
  <2>6. env.values["ENQUIRY_INTAKE_ENABLED"] = "false"
    <3>1. /\ "ENQUIRY_INTAKE_ENABLED" \in Needed["server"].production /\ "server" \in DOMAIN Needed
          /\ "server" \in relevantScopes("production")
      BY DEF Needed, relevantScopes
    <3>2. ~EntryFails("ENQUIRY_INTAKE_ENABLED", env, "production") BY <2>1, <3>1 DEF ScopeNames
    <3>3. isRequired("ENQUIRY_INTAKE_ENABLED", "production") BY <3>1 DEF isRequired
    <3> DEFINE switch == safeBoolean(env.values["ENQUIRY_INTAKE_ENABLED"])
    <3>4. "ENQUIRY_INTAKE_ENABLED" \in MustBeFalse BY DEF MustBeFalse
    <3>5. switch \in {"true", "invalid"} \/ switch = "missing" => EntryFails("ENQUIRY_INTAKE_ENABLED", env, "production")
      BY <3>3, <3>4, FirstOfEntry
    <3>6. switch \notin {"true", "invalid", "missing"} BY <3>2, <3>5
    <3> QED BY <3>6 DEF safeBoolean
  <2>7. env.values["VITE_SUPABASE_ANON_KEY"] # "privileged"
    BY <2>2 DEF webRequiredVariables, validateConfiguredValue, AnonKeys
  <2> QED BY <2>3, <2>4, <2>5, <2>6, <2>7
<1>2. ASSUME NEW mode, evaluateEnvironment(env, mode), NEW f \in DOMAIN FEATURE_DEPENDENCIES, WorkerRuns(f, env)
      PROVE  WorkerWorks(env)
  <2>1. Authority \subseteq FEATURE_DEPENDENCIES[f] BY DEF FEATURE_DEPENDENCIES
  <2>2. \A d \in Authority : validateConfiguredValue(d, env.values[d])
    BY <1>2, <2>1 DEF evaluateEnvironment, WorkerRuns
  <2> QED BY <2>2 DEF Authority, validateConfiguredValue, WorkerWorks
<1> QED BY <1>1, <1>2 DEF EnvironmentsAreSafe

(***************************************************************************)
(* The registry of devices and its page.                                   *)
(***************************************************************************)

RegistrySpec == RegistryInit /\ [][RegistryNext \/ PageNext]_registryVars

NoneIsNoName == None \notin Vehicles \cup Devices \cup Keys

(***************************************************************************)
(* The inductive invariant.                                                *)
(***************************************************************************)
Installations == {"pending", "planned", "installed", "not_working", "removed"}
CredentialStatuses == Live \cup {"absent", "revoked", "expired"}

DeviceTyped ==
    device \in [Devices -> [status : Statuses, installation : Installations,
                            vehicle : Vehicles \cup {None}, code : Devices]]
LinkTyped == link \in [Devices -> Vehicles \cup {None}]
CredentialTyped == credential \in [Devices -> [Keys -> CredentialStatuses]]
ViewTyped ==
    view \in [selected : Devices \cup {None}, shown : [device : Devices \cup {None}], reads : Nat,
              readings : SUBSET [device : Devices, number : Nat], details : SUBSET Devices,
              editing : BOOLEAN, identity : Devices \cup {None}]
Typed == DeviceTyped /\ LinkTyped /\ CredentialTyped /\ retired \subseteq Devices /\ ViewTyped

\* The parts of ActiveMeansInstalled, which are inductive only together.
RowNamesLink == \A d \in Devices : device[d].vehicle = link[d]
ActiveIsLinked ==
    \A d \in Devices : device[d].status = "active" => device[d].installation = "installed" /\ link[d] # None
GoneIsUnlinked == \A d \in Devices : device[d].status \in {"removed", "retired"} => link[d] = None
StoppedHasNoKey ==
    \A d \in Devices : device[d].status \in {"suspended", "removed", "retired"} =>
        \A k \in Keys : credential[d][k] \notin {"active", "rotating"}
OneDevicePerVehicle ==
    \A d \in Devices : \A e \in Devices \ {d} : link[d] # None => link[e] # link[d]

RegistryInv ==
    /\ Typed
    /\ RowNamesLink /\ ActiveIsLinked /\ GoneIsUnlinked /\ StoppedHasNoKey /\ OneDevicePerVehicle
    /\ RetiredIsForever /\ IdentityIsItsOwn /\ PageIsAboutTheSelected

LEMMA InitiallySound == NoneIsNoName /\ RegistryInit => RegistryInv
  BY SMT DEF NoneIsNoName, RegistryInit, RegistryInv, Typed, DeviceTyped, LinkTyped, CredentialTyped, ViewTyped,
         RowNamesLink, ActiveIsLinked, GoneIsUnlinked, StoppedHasNoKey, OneDevicePerVehicle, RetiredIsForever,
         IdentityIsItsOwn, PageIsAboutTheSelected, Statuses, Installations, CredentialStatuses, NoReadiness, None

\* Withdrawing the credentials of a device leaves none in use.
LEMMA RevokedIsUnused ==
  ASSUME CredentialTyped, NEW d \in Devices
  PROVE  /\ Revoked(d) \in [Keys -> CredentialStatuses]
         /\ \A k \in Keys : Revoked(d)[k] \notin {"active", "rotating"}
  BY DEF CredentialTyped, Revoked, CredentialStatuses, Live

\* A row that gets a status, an installation and a vehicle is a row.
LEMMA RowUpdated ==
  ASSUME DeviceTyped, NEW d \in Devices, NEW s \in Statuses, NEW i \in Installations,
         NEW v \in Vehicles \cup {None}
  PROVE  [device EXCEPT ![d].status = s, ![d].installation = i, ![d].vehicle = v]
            \in [Devices -> [status : Statuses, installation : Installations,
                             vehicle : Vehicles \cup {None}, code : Devices]]
<1>1. device[d] \in [status : Statuses, installation : Installations, vehicle : Vehicles \cup {None}, code : Devices]
  BY DEF DeviceTyped
<1> QED BY <1>1 DEF DeviceTyped

\* A change of status keeps the invariant.
LEMMA ChangeStatusSound ==
  ASSUME RegistryInv, NoneIsNoName, NEW d \in Devices, NEW s \in Statuses, ChangeStatus(d, s)
  PROVE  RegistryInv'
<1>1. /\ DatabaseTransition(device[d].status, s) /\ UNCHANGED view
      /\ s = "active" => device[d].installation = "installed" /\ link[d] # None
      /\ device' = [device EXCEPT ![d].status = s, ![d].installation = InstallationAfter(d, s),
                                  ![d].vehicle = IF s \in {"removed", "retired"} THEN None ELSE @]
      /\ link' = IF s \in {"removed", "retired"} THEN [link EXCEPT ![d] = None] ELSE link
      /\ credential' = IF s \in {"suspended", "removed", "retired"}
                       THEN [credential EXCEPT ![d] = Revoked(d)] ELSE credential
      /\ retired' = IF s = "retired" THEN retired \cup {d} ELSE retired
  BY DEF ChangeStatus
<1>2. InstallationAfter(d, s) \in Installations /\ (s = "active" => InstallationAfter(d, s) = device[d].installation)
  BY DEF InstallationAfter, RegistryInv, Typed, DeviceTyped, Installations, Statuses
<1>3. Typed'
  <2>1. DeviceTyped'
    <3>1. DeviceTyped /\ (IF s \in {"removed", "retired"} THEN None ELSE device[d].vehicle) \in Vehicles \cup {None}
      BY DEF RegistryInv, Typed, DeviceTyped
    <3> QED BY <1>1, <1>2, <3>1, RowUpdated, ZenonT(60) DEF DeviceTyped
  <2>2. LinkTyped' /\ (retired \subseteq Devices)'
    BY <1>1 DEF RegistryInv, Typed, LinkTyped
  <2>3. CredentialTyped'
    <3>1. CredentialTyped BY DEF RegistryInv, Typed
    <3> QED BY <1>1, <3>1, RevokedIsUnused DEF CredentialTyped
  <2>4. ViewTyped'
    BY <1>1 DEF RegistryInv, Typed, ViewTyped
  <2> QED BY <2>1, <2>2, <2>3, <2>4 DEF Typed
<1>4. RowNamesLink' /\ ActiveIsLinked' /\ GoneIsUnlinked'
  BY <1>1, <1>2 DEF RegistryInv, Typed, DeviceTyped, LinkTyped, RowNamesLink, ActiveIsLinked, GoneIsUnlinked
<1>5. StoppedHasNoKey'
  <2>1. CredentialTyped BY DEF RegistryInv, Typed
  <2>2. \A k \in Keys : Revoked(d)[k] \notin {"active", "rotating"} BY <2>1, RevokedIsUnused
  <2> QED BY <1>1, <2>1, <2>2 DEF RegistryInv, Typed, DeviceTyped, CredentialTyped, StoppedHasNoKey
<1>6. OneDevicePerVehicle'
  BY <1>1 DEF RegistryInv, Typed, LinkTyped, OneDevicePerVehicle
<1>7. RetiredIsForever'
  BY <1>1 DEF RegistryInv, Typed, DeviceTyped, RetiredIsForever, DatabaseTransition
<1>8. IdentityIsItsOwn' /\ PageIsAboutTheSelected'
  BY <1>1 DEF RegistryInv, Typed, DeviceTyped, IdentityIsItsOwn, PageIsAboutTheSelected
<1> QED BY <1>3, <1>4, <1>5, <1>6, <1>7, <1>8 DEF RegistryInv

LEMMA LinkVehicleSound ==
  ASSUME RegistryInv, NoneIsNoName, NEW d \in Devices, NEW v \in Vehicles, LinkVehicle(d, v)
  PROVE  RegistryInv'
<1> DEFINE status == IF device[d].status = "active" THEN "pending_setup" ELSE device[d].status
<1>1. /\ device[d].status \notin {"suspended", "removed", "retired"} /\ VehicleIsFree(v)
      /\ link' = [link EXCEPT ![d] = v]
      /\ device' = [device EXCEPT ![d].vehicle = v, ![d].installation = "planned",
                                  ![d].status = IF @ = "active" THEN "pending_setup" ELSE @]
      /\ UNCHANGED <<credential, retired, view>>
  BY DEF LinkVehicle
<1>2. device' = [device EXCEPT ![d].status = status, ![d].installation = "planned", ![d].vehicle = v]
  BY <1>1 DEF RegistryInv, Typed, DeviceTyped
<1>3. status \in Statuses /\ status \notin {"active", "suspended", "removed", "retired"}
  BY <1>1 DEF RegistryInv, Typed, DeviceTyped, Statuses
<1> HIDE DEF status
<1>4. Typed'
  <2>1. DeviceTyped'
    <3>1. DeviceTyped /\ "planned" \in Installations BY DEF RegistryInv, Typed, Installations
    <3> QED BY <1>2, <1>3, <3>1, RowUpdated DEF DeviceTyped
  <2> QED BY <1>1, <2>1 DEF RegistryInv, Typed, LinkTyped, CredentialTyped, ViewTyped
<1>5. RowNamesLink' /\ ActiveIsLinked' /\ GoneIsUnlinked' /\ StoppedHasNoKey'
  BY <1>1, <1>2, <1>3 DEF RegistryInv, Typed, DeviceTyped, LinkTyped, CredentialTyped,
     RowNamesLink, ActiveIsLinked, GoneIsUnlinked, StoppedHasNoKey
<1>6. OneDevicePerVehicle'
  BY <1>1 DEF RegistryInv, Typed, LinkTyped, OneDevicePerVehicle, VehicleIsFree
<1>7. RetiredIsForever' /\ IdentityIsItsOwn' /\ PageIsAboutTheSelected'
  BY <1>1, <1>2 DEF RegistryInv, Typed, DeviceTyped, RetiredIsForever, IdentityIsItsOwn, PageIsAboutTheSelected
<1> QED BY <1>4, <1>5, <1>6, <1>7 DEF RegistryInv

LEMMA RemoveVehicleSound ==
  ASSUME RegistryInv, NoneIsNoName, NEW d \in Devices, RemoveVehicle(d)
  PROVE  RegistryInv'
<1>1. /\ link[d] # None /\ link' = [link EXCEPT ![d] = None]
      /\ device' = [device EXCEPT ![d].vehicle = None, ![d].status = "removed", ![d].installation = "removed"]
      /\ credential' = [credential EXCEPT ![d] = Revoked(d)] /\ UNCHANGED <<retired, view>>
  BY DEF RemoveVehicle
<1>2. device' = [device EXCEPT ![d].status = "removed", ![d].installation = "removed", ![d].vehicle = None]
  BY <1>1 DEF RegistryInv, Typed, DeviceTyped
<1>3. CredentialTyped /\ DeviceTyped /\ "removed" \in Installations /\ "removed" \in Statuses
  BY DEF RegistryInv, Typed, Installations, Statuses
<1>4. Typed'
  <2>1. DeviceTyped' BY <1>2, <1>3, RowUpdated DEF DeviceTyped
  <2>2. CredentialTyped' BY <1>1, <1>3, RevokedIsUnused DEF CredentialTyped
  <2> QED BY <1>1, <2>1, <2>2 DEF RegistryInv, Typed, LinkTyped, ViewTyped
<1>5. RowNamesLink' /\ ActiveIsLinked' /\ GoneIsUnlinked'
  BY <1>1, <1>2 DEF RegistryInv, Typed, DeviceTyped, LinkTyped, RowNamesLink, ActiveIsLinked, GoneIsUnlinked
<1>6. StoppedHasNoKey'
  <2>1. \A k \in Keys : Revoked(d)[k] \notin {"active", "rotating"} BY <1>3, RevokedIsUnused
  <2> QED BY <1>1, <1>2, <1>3, <2>1 DEF RegistryInv, DeviceTyped, CredentialTyped, StoppedHasNoKey
<1>7. OneDevicePerVehicle'
  BY <1>1 DEF RegistryInv, Typed, LinkTyped, OneDevicePerVehicle
<1>8. RetiredIsForever'
  BY <1>1, <1>2 DEF RegistryInv, Typed, DeviceTyped, RetiredIsForever, GoneIsUnlinked
<1>9. IdentityIsItsOwn' /\ PageIsAboutTheSelected'
  BY <1>1, <1>2 DEF RegistryInv, Typed, DeviceTyped, IdentityIsItsOwn, PageIsAboutTheSelected
<1> QED BY <1>4, <1>5, <1>6, <1>7, <1>8, <1>9 DEF RegistryInv

\* An event changes at most status and installation, and the key of a lost
\* device.
LEMMA RecordEventSound ==
  ASSUME RegistryInv, NoneIsNoName, NEW d \in Devices, NEW event, RecordEvent(d, event)
  PROVE  RegistryInv'
<1>0. CredentialTyped /\ DeviceTyped BY DEF RegistryInv, Typed
<1>1. PICK s \in Statuses, i \in Installations :
         /\ device' = [device EXCEPT ![d].status = s, ![d].installation = i]
         /\ s = "active" => device[d].status = "active" /\ i = "installed"
         /\ s \in {"removed", "retired"} => s = device[d].status
         /\ s = "suspended" => device[d].status = "suspended" \/ credential' = [credential EXCEPT ![d] = Revoked(d)]
  <2>1. CASE event = "installation_planned"
    <3>1. device' = [device EXCEPT ![d].status = device[d].status, ![d].installation = "planned"]
      BY <1>0, <2>1 DEF RecordEvent, DeviceTyped
    <3> QED BY <1>0, <2>1, <3>1 DEF RecordEvent, DeviceTyped, Installations
  <2>2. CASE event = "installed"
    <3>1. device' = [device EXCEPT ![d].status = device[d].status, ![d].installation = "installed"]
      BY <1>0, <2>2 DEF RecordEvent, DeviceTyped
    <3> QED BY <1>0, <2>2, <3>1 DEF RecordEvent, DeviceTyped, Installations
  <2>3. CASE event = "lost"
    <3>1. device' = [device EXCEPT ![d].status = "suspended", ![d].installation = device[d].installation]
      BY <1>0, <2>3 DEF RecordEvent, DeviceTyped
    <3> QED BY <1>0, <2>3, <3>1 DEF RecordEvent, DeviceTyped, Statuses
  <2>4. CASE event = "marked_not_working"
    BY <1>0, <2>4 DEF RecordEvent, DeviceTyped, Installations, Statuses
  <2>5. CASE event = "marked_offline"
    <3>1. device' = [device EXCEPT ![d].status = "offline", ![d].installation = device[d].installation]
      BY <1>0, <2>5 DEF RecordEvent, DeviceTyped
    <3> QED BY <1>0, <2>5, <3>1 DEF RecordEvent, DeviceTyped, Statuses
  <2> QED BY <2>1, <2>2, <2>3, <2>4, <2>5 DEF RecordEvent
<1>2. device' = [device EXCEPT ![d].status = s, ![d].installation = i, ![d].vehicle = device[d].vehicle]
  BY <1>0, <1>1 DEF DeviceTyped
<1>3. /\ credential' \in {credential, [credential EXCEPT ![d] = Revoked(d)]}
      /\ UNCHANGED <<link, retired, view>> /\ device[d].status # "retired"
  BY DEF RecordEvent
<1>4. \A e \in Devices : \A k \in Keys :
         credential'[e][k] \in {"active", "rotating"} => credential[e][k] = credential'[e][k]
  BY <1>0, <1>3, RevokedIsUnused DEF CredentialTyped
<1>5. Typed'
  <2>1. DeviceTyped' BY <1>0, <1>2, RowUpdated DEF DeviceTyped
  <2>2. CredentialTyped' BY <1>0, <1>3, RevokedIsUnused DEF CredentialTyped
  <2> QED BY <1>3, <2>1, <2>2 DEF RegistryInv, Typed, LinkTyped, ViewTyped
<1>6. RowNamesLink' /\ ActiveIsLinked' /\ GoneIsUnlinked'
  BY <1>0, <1>1, <1>2, <1>3 DEF RegistryInv, DeviceTyped, RowNamesLink, ActiveIsLinked, GoneIsUnlinked
<1>7. StoppedHasNoKey'
  <2> SUFFICES ASSUME NEW e \in Devices, device'[e].status \in {"suspended", "removed", "retired"}, NEW k \in Keys
               PROVE  credential'[e][k] \notin {"active", "rotating"}
    BY DEF StoppedHasNoKey
  <2>1. CASE device[e].status \in {"suspended", "removed", "retired"}
    BY <1>4, <2>1 DEF RegistryInv, StoppedHasNoKey
  <2>2. CASE device[e].status \notin {"suspended", "removed", "retired"}
    <3>1. e = d /\ s = "suspended" BY <1>0, <1>1, <1>2, <2>2 DEF DeviceTyped
    <3>2. credential' = [credential EXCEPT ![d] = Revoked(d)] BY <1>1, <2>2, <3>1
    <3> QED BY <1>0, <3>1, <3>2, RevokedIsUnused DEF CredentialTyped
  <2> QED BY <2>1, <2>2
<1>8. OneDevicePerVehicle'
  BY <1>3 DEF RegistryInv, OneDevicePerVehicle
<1>9. RetiredIsForever' /\ IdentityIsItsOwn' /\ PageIsAboutTheSelected'
  BY <1>0, <1>2, <1>3 DEF RegistryInv, Typed, DeviceTyped, RetiredIsForever, IdentityIsItsOwn, PageIsAboutTheSelected
<1> QED BY <1>5, <1>6, <1>7, <1>8, <1>9 DEF RegistryInv

LEMMA ReplaceDeviceSound ==
  ASSUME RegistryInv, NoneIsNoName, NEW d \in Devices, NEW e \in Devices, NEW v \in Vehicles, ReplaceDevice(d, e, v)
  PROVE  RegistryInv'
<1>1. /\ d # e /\ CanReplace(e) /\ link[e] = None /\ link[d] = v /\ v # None
      /\ link' = [link EXCEPT ![d] = None, ![e] = v]
      /\ credential' = [credential EXCEPT ![d] = Revoked(d)] /\ UNCHANGED <<retired, view>>
      /\ CredentialTyped /\ DeviceTyped /\ LinkTyped
  BY DEF ReplaceDevice, NoneIsNoName, RegistryInv, Typed
<1> DEFINE removed == [device EXCEPT ![d].status = "removed", ![d].installation = "removed", ![d].vehicle = None]
<1>2. device' = [removed EXCEPT ![e].status = "active", ![e].installation = "installed", ![e].vehicle = v]
  BY <1>1 DEF ReplaceDevice, DeviceTyped
<1>3. removed \in [Devices -> [status : Statuses, installation : Installations,
                               vehicle : Vehicles \cup {None}, code : Devices]]
  <2>1. "removed" \in Statuses /\ "removed" \in Installations /\ None \in Vehicles \cup {None}
    BY DEF Statuses, Installations
  <2>2. DeviceTyped BY <1>1
  <2> HIDE DEF None
  <2> QED BY <2>1, <2>2, RowUpdated
<1>4. DeviceTyped'
  <2>1. removed[e] \in [status : Statuses, installation : Installations, vehicle : Vehicles \cup {None}, code : Devices]
    BY <1>3
  <2> HIDE DEF removed
  <2> QED BY <1>2, <1>3, <2>1 DEF DeviceTyped, Statuses, Installations
<1>5. \A x \in Devices :
         /\ device'[x].status = IF x = e THEN "active" ELSE IF x = d THEN "removed" ELSE device[x].status
         /\ device'[x].installation = IF x = e THEN "installed" ELSE IF x = d THEN "removed" ELSE device[x].installation
         /\ device'[x].vehicle = IF x = e THEN v ELSE IF x = d THEN None ELSE device[x].vehicle
         /\ device'[x].code = device[x].code
         /\ link'[x] = IF x = e THEN v ELSE IF x = d THEN None ELSE link[x]
  BY <1>1, <1>2, <1>3 DEF DeviceTyped, LinkTyped
<1> HIDE DEF removed
<1>6. Typed'
  <2>1. CredentialTyped' BY <1>1, RevokedIsUnused DEF CredentialTyped
  <2> QED BY <1>1, <1>4, <2>1 DEF RegistryInv, Typed, LinkTyped, ViewTyped
<1>7. RowNamesLink' /\ ActiveIsLinked' /\ GoneIsUnlinked'
  <2>1. v # None /\ d # e BY <1>1
  <2>2. RowNamesLink' BY <1>5 DEF RegistryInv, RowNamesLink
  <2>3. ActiveIsLinked' BY <1>5, <2>1 DEF RegistryInv, ActiveIsLinked
  <2>4. GoneIsUnlinked' BY <1>5, <2>1 DEF RegistryInv, GoneIsUnlinked
  <2> QED BY <2>2, <2>3, <2>4
<1>8. StoppedHasNoKey'
  <2>1. \A k \in Keys : Revoked(d)[k] \notin {"active", "rotating"} BY <1>1, RevokedIsUnused
  <2> QED BY <1>1, <1>5, <2>1 DEF RegistryInv, CredentialTyped, StoppedHasNoKey
<1>9. OneDevicePerVehicle'
  <2>1. link[d] = v /\ v # None /\ d # e /\ link[e] = None BY <1>1
  <2>2. \A x \in Devices : link'[x] = IF x = e THEN v ELSE IF x = d THEN None ELSE link[x] BY <1>5
  <2>3. \A x \in Devices \ {d} : link[x] # v BY <2>1 DEF RegistryInv, OneDevicePerVehicle
  <2>4. OneDevicePerVehicle BY DEF RegistryInv
  <2> QED BY <2>1, <2>2, <2>3, <2>4 DEF OneDevicePerVehicle
<1>10. RetiredIsForever'
  BY <1>1, <1>5 DEF RegistryInv, Typed, RetiredIsForever, GoneIsUnlinked, CanReplace
<1>11. IdentityIsItsOwn' /\ PageIsAboutTheSelected'
  BY <1>1, <1>5 DEF RegistryInv, IdentityIsItsOwn, PageIsAboutTheSelected
<1> QED BY <1>6, <1>7, <1>8, <1>9, <1>10, <1>11 DEF RegistryInv

LEMMA SaveCredentialSound ==
  ASSUME RegistryInv, NoneIsNoName, NEW d \in Devices, NEW k \in Keys, NEW s \in Live \cup {"revoked", "expired"},
         NEW from \in Keys \cup {None}, SaveCredential(d, k, s, from)
  PROVE  RegistryInv'
<1> DEFINE new == [x \in Keys |-> IF x = k THEN s ELSE IF x = from THEN "rotating" ELSE credential[d][x]]
<1>1. /\ s \in CredentialSteps[credential[d][k]]
      /\ s = "active" => device[d].status \notin {"suspended", "removed", "retired"}
      /\ from # None => from \in Keys /\ credential[d][from] = "active"
      /\ credential' = [credential EXCEPT ![d] = new] /\ UNCHANGED <<device, link, retired, view>>
  BY DEF SaveCredential
<1>2. s # "rotating"
  BY <1>1 DEF CredentialSteps, RegistryInv, Typed, CredentialTyped, CredentialStatuses, Live
<1>3. Typed'
  BY <1>1 DEF RegistryInv, Typed, DeviceTyped, LinkTyped, CredentialTyped, ViewTyped, CredentialStatuses, Live
<1>4. StoppedHasNoKey'
  <2> SUFFICES ASSUME NEW e \in Devices, device[e].status \in {"suspended", "removed", "retired"}, NEW x \in Keys
               PROVE  credential'[e][x] \notin {"active", "rotating"}
    BY <1>1 DEF StoppedHasNoKey
  <2>1. credential[e][x] \notin {"active", "rotating"} BY DEF RegistryInv, StoppedHasNoKey
  <2>2. CASE e # d BY <1>1, <2>1, <2>2 DEF RegistryInv, Typed, CredentialTyped
  <2>3. CASE e = d
    <3>1. x # from
      BY <1>1, <2>3, <2>1 DEF NoneIsNoName
    <3> QED BY <1>1, <1>2, <2>1, <2>3, <3>1 DEF RegistryInv, Typed, CredentialTyped
  <2> QED BY <2>2, <2>3
<1>5. /\ RowNamesLink' /\ ActiveIsLinked' /\ GoneIsUnlinked' /\ OneDevicePerVehicle'
      /\ RetiredIsForever' /\ IdentityIsItsOwn' /\ PageIsAboutTheSelected'
  BY <1>1 DEF RegistryInv, RowNamesLink, ActiveIsLinked, GoneIsUnlinked, OneDevicePerVehicle,
     RetiredIsForever, IdentityIsItsOwn, PageIsAboutTheSelected
<1> QED BY <1>3, <1>4, <1>5 DEF RegistryInv

\* The steps of the page: an answer fills only what is about the selected
\* device, and a saved form gives a device its own identity or is refused.
LEMMA PageSound ==
  ASSUME RegistryInv, NoneIsNoName, PageNext
  PROVE  RegistryInv'
<1>0. DeviceTyped /\ ViewTyped /\ PageIsAboutTheSelected BY DEF RegistryInv, Typed
<1>1. ASSUME UNCHANGED <<device, link, credential, retired>>, ViewTyped', PageIsAboutTheSelected'
      PROVE  RegistryInv'
  BY <1>1 DEF RegistryInv, Typed, DeviceTyped, LinkTyped, CredentialTyped, RowNamesLink, ActiveIsLinked,
     GoneIsUnlinked, StoppedHasNoKey, OneDevicePerVehicle, RetiredIsForever, IdentityIsItsOwn
<1>2. ASSUME NEW d \in Devices, Select(d) PROVE RegistryInv'
  <2>1. view.reads + 1 \in Nat /\ [device |-> d, number |-> view.reads + 1] \in [device : Devices, number : Nat]
    BY <1>0 DEF ViewTyped
  <2>2. view.readings \cup {[device |-> d, number |-> view.reads + 1]} \in SUBSET [device : Devices, number : Nat]
    BY <1>0, <2>1 DEF ViewTyped
  <2>3. (IF view.editing THEN {d} ELSE {}) \in SUBSET Devices /\ NoReadiness \in [device : Devices \cup {None}]
    BY DEF NoReadiness
  <2>4. ViewTyped'
    BY <1>0, <1>2, <2>1, <2>2, <2>3 DEF Select, ViewTyped
  <2>5. PageIsAboutTheSelected'
    BY <1>0, <1>2 DEF Select, ViewTyped, PageIsAboutTheSelected, NoReadiness
  <2> QED BY <1>1, <1>2, <2>4, <2>5 DEF Select
<1>3. CASE Reload
  <2>1. view.reads + 1 \in Nat /\ view.selected \in Devices
    BY <1>0, <1>3 DEF Reload, ViewTyped
  <2>2. [device |-> view.selected, number |-> view.reads + 1] \in [device : Devices, number : Nat]
    BY <2>1
  <2>3. view.readings \cup {[device |-> view.selected, number |-> view.reads + 1]} \in SUBSET [device : Devices, number : Nat]
    BY <1>0, <2>2 DEF ViewTyped
  <2>4. ViewTyped'
    BY <1>0, <1>3, <2>1, <2>3 DEF Reload, ViewTyped
  <2>5. PageIsAboutTheSelected'
    BY <1>0, <1>3 DEF Reload, ViewTyped, PageIsAboutTheSelected
  <2> QED BY <1>1, <1>3, <2>4, <2>5 DEF Reload
<1>4. CASE ReadinessArrives
  <2>1. PICK r \in view.readings :
           view' = [view EXCEPT !.readings = @ \ {r}, !.shown = IF ShowsReading(r) THEN [device |-> r.device] ELSE @]
    BY <1>4 DEF ReadinessArrives
  <2>2. r.device \in Devices /\ view.readings \ {r} \in SUBSET [device : Devices, number : Nat]
    BY <1>0 DEF ViewTyped
  <2>3. (IF ShowsReading(r) THEN [device |-> r.device] ELSE view.shown) \in [device : Devices \cup {None}]
    BY <1>0, <2>2 DEF ViewTyped
  <2>4. ViewTyped'
    BY <1>0, <2>1, <2>2, <2>3 DEF ViewTyped
  <2>5. PageIsAboutTheSelected'
    BY <1>0, <2>1 DEF ShowsReading, ViewTyped, PageIsAboutTheSelected
  <2> QED BY <1>1, <1>4, <2>4, <2>5 DEF ReadinessArrives
<1>5. CASE EditDevice
  <2>1. ViewTyped' /\ PageIsAboutTheSelected'
    BY <1>0, <1>5 DEF EditDevice, ViewTyped, PageIsAboutTheSelected
  <2> QED BY <1>1, <1>5, <2>1 DEF EditDevice
<1>6. CASE DetailArrives
  <2>1. ViewTyped' /\ PageIsAboutTheSelected'
    BY <1>0, <1>6 DEF DetailArrives, ViewTyped, DeviceTyped, PageIsAboutTheSelected
  <2> QED BY <1>1, <1>6, <2>1 DEF DetailArrives
<1>7. CASE SaveIdentity
  <2>1. view.identity \in Devices /\ view.selected \in Devices
    BY <1>0, <1>7 DEF SaveIdentity, ViewTyped
  <2>2. (\A e \in Devices \ {view.selected} : device[e].code # view.identity) => view.identity = view.selected
    BY <2>1 DEF RegistryInv, IdentityIsItsOwn
  <2>3. device' = device
    <3>1. device' = device \/ (view.identity = view.selected /\ device' = [device EXCEPT ![view.selected].code = view.identity])
      BY <1>7, <2>2 DEF SaveIdentity
    <3>2. device[view.selected].code = view.selected BY <2>1 DEF RegistryInv, IdentityIsItsOwn
    <3>3. [device EXCEPT ![view.selected].code = view.selected] = device
      BY <1>0, <2>1, <3>2 DEF DeviceTyped
    <3> QED BY <3>1, <3>3
  <2>4. ViewTyped' /\ PageIsAboutTheSelected'
    BY <1>0, <1>7 DEF SaveIdentity, ViewTyped, PageIsAboutTheSelected
  <2> QED BY <1>1, <1>7, <2>3, <2>4 DEF SaveIdentity
<1> QED BY <1>2, <1>3, <1>4, <1>5, <1>6, <1>7 DEF PageNext

LEMMA RegistryStepSound == NoneIsNoName /\ RegistryInv /\ [RegistryNext \/ PageNext]_registryVars => RegistryInv'
<1> SUFFICES ASSUME NoneIsNoName, RegistryInv, [RegistryNext \/ PageNext]_registryVars PROVE RegistryInv'
  OBVIOUS
<1>1. CASE RegistryNext
  BY <1>1, ChangeStatusSound, LinkVehicleSound, RemoveVehicleSound, RecordEventSound, ReplaceDeviceSound,
     SaveCredentialSound DEF RegistryNext
<1>2. CASE PageNext
  BY <1>2, PageSound
<1>3. CASE UNCHANGED registryVars
  BY <1>3 DEF registryVars, RegistryInv, Typed, DeviceTyped, LinkTyped, CredentialTyped, ViewTyped, RowNamesLink,
     ActiveIsLinked, GoneIsUnlinked, StoppedHasNoKey, OneDevicePerVehicle, RetiredIsForever, IdentityIsItsOwn,
     PageIsAboutTheSelected
<1> QED BY <1>1, <1>2, <1>3

LEMMA RegistryAlwaysSound == ASSUME NoneIsNoName PROVE RegistrySpec => []RegistryInv
<1>1. RegistryInit => RegistryInv BY InitiallySound
<1>2. RegistryInv /\ [RegistryNext \/ PageNext]_registryVars => RegistryInv' BY RegistryStepSound
<1> QED BY <1>1, <1>2, PTL DEF RegistrySpec

(***************************************************************************)
(* The results.                                                            *)
(***************************************************************************)

\* An active device is installed in the vehicle its one current link names,
\* no vehicle has two devices, and a stopped device has no credential in use:
\* device_registry links, replacements, events and changes of status.
THEOREM ActiveDevicesAreInstalled == ASSUME NoneIsNoName PROVE RegistrySpec => []ActiveMeansInstalled
<1>1. RegistryInv => ActiveMeansInstalled
  BY DEF RegistryInv, ActiveMeansInstalled, RowNamesLink, ActiveIsLinked, GoneIsUnlinked, StoppedHasNoKey, OneDevicePerVehicle
<1> QED BY <1>1, RegistryAlwaysSound, PTL

\* A retired device stays retired, also in the functions that never ask for it.
THEOREM RetirementIsFinal == ASSUME NoneIsNoName PROVE RegistrySpec => []RetiredIsForever
<1>1. RegistryInv => RetiredIsForever BY DEF RegistryInv
<1> QED BY <1>1, RegistryAlwaysSound, PTL

\* The page shows readiness of the selected device only, and no device gets
\* the identity of another from a form that was filled for that one.
THEOREM PageKeepsDevicesApart ==
  ASSUME NoneIsNoName PROVE RegistrySpec => [](PageIsAboutTheSelected /\ IdentityIsItsOwn)
<1>1. RegistryInv => PageIsAboutTheSelected /\ IdentityIsItsOwn BY DEF RegistryInv
<1> QED BY <1>1, RegistryAlwaysSound, PTL

\* The page offers the changes of status the database allows and asks for
\* what the database asks for, in every state of the registry.
THEOREM PageAgreesWithDatabase == ASSUME NoneIsNoName PROVE RegistrySpec => []TransitionsAgree
<1>1. \A from, to \in Statuses : to \in AllowedTransitions[from] <=> DatabaseTransition(from, to)
  BY DEF Statuses, AllowedTransitions, DatabaseTransition
<1>2. ASSUME RegistryInv, NEW d \in Devices, NEW gps, NEW gsm, NEW verified \in BOOLEAN,
             ServerProofReady(d, gps, gsm, verified)
      PROVE  IsProofReady(d, gps, gsm, TRUE)
  BY <1>2 DEF ServerProofReady, IsProofReady, RegistryInv, RowNamesLink
<1>3. RegistryInv => TransitionsAgree
  BY <1>1, <1>2 DEF TransitionsAgree, IsProofReady
<1> QED BY <1>3, RegistryAlwaysSound, PTL

-----------------------------------------------------------------------------
(* PilotReadiness: what is shown before hardware and analyses are used.    *)

\* An input of the readiness decision: counts and percentages are integers.
IsAnalysis(i) ==
    /\ i.syntheticEvidence \in BOOLEAN /\ i.realReviewedEvidence \in BOOLEAN
    /\ i.workDaySessions \in Int /\ i.calendarDays \in Int /\ i.deviceModelDays \in Int
    /\ i.featureCompleteness \in Int /\ i.missingness \in Int /\ i.reviewedLabelCount \in Int

\* A manifest that the database stores is one every reader of it accepts.
THEOREM StoredManifestsAlwaysValid == \A p : StoredManifestsAreValid(p)
BY DEF StoredManifestsAreValid, CreatesManifest, StoredManifest, validateAdapterCapabilityManifestV1,
       m24fCertificationStatesV1

\* Positive and negative labels never exceed the reviewed ones, for any counts.
THEOREM LabelsAlwaysFit ==
  \A reviewed, positive, negative \in Int :
     LabelsFit([reviewed |-> reviewed, positive |-> positive, negative |-> negative])
BY DEF LabelsFit, LabelCounts, NotNegative, Least

\* More evidence never takes an analysis a step back, for any counts and percentages.
THEOREM MoreEvidenceNeverWorse ==
  ASSUME NEW i, IsAnalysis(i), NEW others, \A j \in others : IsAnalysis(j)
  PROVE  MoreEvidenceIsNeverWorse(i, others)
<1>1. m25ReadinessAllowsOfflineEvaluationV1(readinessDecision(i)) => i.realReviewedEvidence /\ Reached(i)
  BY DEF m25ReadinessAllowsOfflineEvaluationV1, readinessDecision
<1>2. ASSUME NEW j \in others, Better(i, j), j.realReviewedEvidence \/ ~(i.syntheticEvidence \/ j.syntheticEvidence)
      PROVE  Rank(readinessDecision(i)) >= Rank(readinessDecision(j))
  <2>1. /\ i.calendarDays >= j.calendarDays /\ i.deviceModelDays >= j.deviceModelDays
        /\ i.workDaySessions >= j.workDaySessions /\ i.featureCompleteness >= j.featureCompleteness
        /\ i.reviewedLabelCount >= j.reviewedLabelCount /\ i.missingness <= j.missingness
    BY <1>2 DEF Better, Thresholds
  <2>2. Reached(j) => Reached(i) BY <2>1 DEF Reached, Thresholds, IsAnalysis
  <2>3. Reached(i) => i.workDaySessions > 0 /\ i.calendarDays > 0 BY DEF Reached, Thresholds, IsAnalysis
  <2> QED BY <1>2, <2>1, <2>2, <2>3 DEF Better, Rank, readinessDecision, IsAnalysis
<1> QED BY <1>1, <1>2 DEF MoreEvidenceIsNeverWorse

\* What the validator of a physical evidence manifest passes the database records;
\* what it records as a physical pass passes the validator and makes the device
\* ready, and nothing else does: for any manifest, capabilities and time.
THEOREM EvidenceAlwaysAgrees ==
  ASSUME NEW m, NEW capabilities, NEW now, m.count \in Int,
         \A o \in Capable : capabilities[o] \in BOOLEAN
  PROVE EvidenceAgrees(m, capabilities, now)
<1> DEFINE proven == [count |-> m.count, failureFree |-> TRUE, sequence |-> TRUE, reconnect |-> TRUE]
           coherent == m.physicalEvidence <=> m.classification = "physical"
           valid == validatePhysicalEvidenceManifestV1(m, capabilities, now)
           recorded == RecordsEvidence(m, capabilities, now, proven)
           passes == m.classification = "physical" /\ m.disposition = "pass"
<1>1. proven.count = m.count /\ proven.failureFree /\ \A o \in Capable : proven[o] BY DEF Capable
<1> HIDE DEF proven
<1>2. valid => recorded
  BY <1>1 DEF validatePhysicalEvidenceManifestV1, RecordsEvidence, Shown
<1>3. coherent /\ recorded /\ passes => valid
  <2> SUFFICES ASSUME coherent, recorded, passes PROVE valid OBVIOUS
  <2>1. Shown(m, capabilities) BY DEF RecordsEvidence, Shown
  <2>2. \A o \in Binary : m.outcomes[o] \in {"passed", "failed"} BY <2>1 DEF Shown
  <2> QED BY <2>1, <2>2 DEF RecordsEvidence, validatePhysicalEvidenceManifestV1
<1>4. MakesReady(m, capabilities, proven) => passes BY DEF MakesReady
<1>5. coherent /\ recorded /\ passes => MakesReady(m, capabilities, proven)
  <2> SUFFICES ASSUME coherent, recorded, passes PROVE MakesReady(m, capabilities, proven) OBVIOUS
  <2>0. m.physicalEvidence /\ m.classification = "physical" /\ m.disposition = "pass" OBVIOUS
  <2>1. \A o \in Binary : m.outcomes[o] = "passed" BY <2>0 DEF RecordsEvidence
  <2>2. ASSUME NEW o \in Capable
        PROVE  m.outcomes[o] # "failed" /\ (m.outcomes[o] = "not_supported" => ~capabilities[o])
    <3>1. IF capabilities[o] THEN m.outcomes[o] = "passed" /\ proven[o] ELSE m.outcomes[o] = "not_supported"
      BY <2>0 DEF RecordsEvidence
    <3> QED BY <3>1
  <2>3. Counted(m) BY DEF RecordsEvidence
  <2>4. m.count > 0 BY <2>0, <2>3 DEF Counted
  <2> QED BY <1>1, <2>0, <2>1, <2>2, <2>4 DEF MakesReady
<1> QED BY <1>2, <1>3, <1>4, <1>5 DEF EvidenceAgrees, proven
================================================================================
