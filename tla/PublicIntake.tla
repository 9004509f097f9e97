---------------------------- MODULE PublicIntake ----------------------------
(***************************************************************************)
(* From the enquiry form of the website to a planned Ad Work.  A visitor's *)
(* form goes through the serverless function (human verification, limit    *)
(* per visitor and window, insert); an administrator converts the stored   *)
(* enquiry.  Each call of the function is a sequence of outside calls that *)
(* may be cut after any of them, and the visitor may send again.           *)
(***************************************************************************)
EXTENDS Integers, FiniteSets

CONSTANTS Admins,      \* administrators' open pages
          WindowLimit, \* enquiries per visitor and window (5)
          MaxRequests, \* bound: calls of the function
          MaxTokens,   \* bound: solved verifications
          MaxWindows   \* bound: windows that pass

VARIABLES page,      \* the visitor's page: [state, token, request]
          used,      \* verification tokens that the service consumed
          request,   \* calls of the function: [step, token, window]
          window,    \* the current window
          counted,   \* calls counted in each window
          enquiry,   \* stored enquiries by request: their status, or NoEnquiry
          reported,  \* requests whose success the visitor saw
          works,     \* Ad Works: [enquiry, customer]
          customers, \* customers created: [phone, by]
          converting \* the open conversion of each administrator

intakeVars == <<page, used, request, window, counted, enquiry, reported, works, customers, converting>>

Requests == 1..MaxRequests
Windows == 1..MaxWindows
NoEnquiry == "none"
NoConversion == [step |-> "idle"]
IdleRequest == [step |-> "unused", token |-> 0, window |-> 0]
Stored(r) == enquiry[r] # NoEnquiry

-----------------------------------------------------------------------------
(* What a form must look like. *)

(* A text is three lengths: as written, without the blanks around it, and   *)
(* cleaned, where each run of blanks and control characters has become one   *)
(* space and those around it are gone; each at most the one before.        *)
Text(length, trimmed, cleaned) == [length |-> length, trimmed |-> trimmed, cleaned |-> cleaned]

(* cleanText: the length of what it returns. *)
CleanText(t, limit) == IF t.cleaned > limit THEN limit ELSE t.cleaned

(* A phone number is a text, without the blanks around it a number with or   *)
(* without a plus in front; what is between the digits beside spaces and     *)
(* hyphens are none, other blanks, control characters, brackets or letters.  *)
Phone(text, plus, others) ==
    [length |-> text.length, trimmed |-> text.trimmed, cleaned |-> text.cleaned, plus |-> plus, others |-> others]

IsPhoneLike(p) == p.others \in {"none", "brackets"} /\ p.trimmed \in 7..20

(* ^\+?[0-9][0-9\s-]{7,18}$, of a number of so many characters. *)
IsDialled(p, length) == length - (IF p.plus THEN 1 ELSE 0) \in 8..19

TextLimits == [customerName |-> 80, businessName |-> 120, cityTown |-> 80, areasToCover |-> 500,
               advertisementDetails |-> 1000, notes |-> 600]
Required == DOMAIN TextLimits \ {"notes"}
PhoneLimit == 20

ValidatePublicEnquiry(f) ==
    /\ f.companyWebsite.trimmed = 0
    /\ \A t \in Required : f[t].trimmed > 0
    /\ \A t \in DOMAIN TextLimits : f[t].length <= TextLimits[t]
    /\ IsPhoneLike(f.phone) /\ f.phone.length <= PhoneLimit
    /\ f.date # "missing"
    /\ f.days > 0
    /\ f.packageInterest = "listed" /\ f.liveTrackingNeeded = "listed"
    /\ f.consent

PageFirstStep(f) ==
    /\ f.phone.others \in {"none", "blanks"} /\ IsDialled(f.phone, f.phone.trimmed)
    /\ \A t \in {"customerName", "businessName", "cityTown"} : f[t].trimmed > 0
PageSubmits(f) == PageFirstStep(f) /\ ValidatePublicEnquiry(f)

(* The function cleans texts, cuts them at their limit and replaces unlisted *)
(* options; a control character of a phone number has become a space.      *)
MaxDays == 30
FunctionAccepts(f) ==
    /\ CleanText(f.companyWebsite, 200) = 0
    /\ \A t \in Required : CleanText(f[t], TextLimits[t]) > 0
    /\ f.phone.others \in {"none", "blanks", "controls"}
    /\ IsDialled(f.phone, CleanText(f.phone, PhoneLimit))
    /\ f.date = "iso"
    /\ f.days \in 1..MaxDays
    /\ f.consent
    /\ f.notice = "current"

(* The plan made of an enquiry: the shared code and the database.  Dates   *)
(* are day numbers; none is 0.                                             *)
NormalizePlannedDays(n) == IF n < 1 THEN 1 ELSE n
PlannedDays(start, n) ==
    IF start = 0 THEN <<>> ELSE [i \in 1..NormalizePlannedDays(n) |-> start + (i - 1)]
SharedPlan(start, n) ==
    [start |-> start, end |-> IF start = 0 THEN 0 ELSE start + NormalizePlannedDays(n) - 1,
     days |-> NormalizePlannedDays(n), dates |-> PlannedDays(start, n)]
DatabasePlan(start, n, today) ==
    LET first == IF start = 0 THEN today ELSE start
        count == IF n < 1 THEN 1 ELSE n
    IN [start |-> first, end |-> first + (count - 1), days |-> count,
        dates |-> [i \in 1..count |-> first + i - 1]]

-----------------------------------------------------------------------------
(* The page and the function. *)

VisitorVerifies ==
    /\ page.state = "editing" /\ page.token = 0 /\ page.solved < MaxTokens
    /\ page' = [page EXCEPT !.token = page.solved + 1, !.solved = @ + 1]
    /\ UNCHANGED <<used, request, window, counted, enquiry, reported, works, customers, converting>>

(* The widget's token expires. *)
TokenExpires ==
    /\ page.state = "editing" /\ page.token # 0
    /\ page' = [page EXCEPT !.token = 0]
    /\ UNCHANGED <<used, request, window, counted, enquiry, reported, works, customers, converting>>

VisitorSends(r) ==
    /\ page.state = "editing" /\ page.token # 0
    /\ request[r].step = "unused" /\ \A q \in 1..(r - 1) : request[q].step # "unused"
    /\ page' = [page EXCEPT !.state = "sending", !.request = r]
    /\ request' = [request EXCEPT ![r] = [step |-> "verify", token |-> page.token, window |-> 0]]
    /\ UNCHANGED <<used, window, counted, enquiry, reported, works, customers, converting>>

AnswersWith(r, outcome) == request' = [request EXCEPT ![r].step = outcome]

(* The verification service takes a token once. *)
FunctionVerifies(r) ==
    /\ request[r].step = "verify"
    /\ IF request[r].token \in used THEN AnswersWith(r, "refused") ELSE AnswersWith(r, "limit")
    /\ used' = used \cup {request[r].token}
    /\ UNCHANGED <<page, window, counted, enquiry, reported, works, customers, converting>>

AllowedIn(w) == counted[w] + 1 <= WindowLimit

FunctionCounts(r) ==
    /\ request[r].step = "limit"
    /\ counted' = [counted EXCEPT ![window] = @ + 1]
    /\ request' = [request EXCEPT ![r].step = IF AllowedIn(window) THEN "insert" ELSE "refused",
                                  ![r].window = window]
    /\ UNCHANGED <<page, used, window, enquiry, reported, works, customers, converting>>

FunctionInserts(r) ==
    /\ request[r].step = "insert"
    /\ enquiry' = [enquiry EXCEPT ![r] = "new"]
    /\ AnswersWith(r, "accepted")
    /\ UNCHANGED <<page, used, window, counted, reported, works, customers, converting>>

(* An outside call fails or times out (503), or the function is cut. *)
FunctionFails(r) ==
    /\ request[r].step \in {"verify", "limit", "insert"}
    /\ \/ AnswersWith(r, "refused") /\ UNCHANGED <<used, counted, enquiry>>
       \/ /\ request[r].step = "insert"
          /\ AnswersWith(r, "refused")
          /\ enquiry' = [enquiry EXCEPT ![r] = "new"]
          /\ UNCHANGED <<used, counted>>
    /\ UNCHANGED <<page, window, reported, works, customers, converting>>

(* Success empties the form and its token; an error answer, or an answer   *)
(* that never comes, keeps both.                                           *)
PageSeesSuccess ==
    /\ page.state = "sending" /\ request[page.request].step = "accepted"
    /\ reported' = reported \cup {page.request}
    /\ page' = [page EXCEPT !.state = "editing", !.token = 0, !.request = 0]
    /\ UNCHANGED <<used, request, window, counted, enquiry, works, customers, converting>>

PageSeesError ==
    /\ page.state = "sending"
    /\ page' = [page EXCEPT !.state = "editing", !.request = 0]
    /\ UNCHANGED <<used, request, window, counted, enquiry, reported, works, customers, converting>>

WindowPasses ==
    /\ window < MaxWindows /\ window' = window + 1
    /\ UNCHANGED <<page, used, request, counted, enquiry, reported, works, customers, converting>>

-----------------------------------------------------------------------------
(* The administrator: edits of the status and the conversion. *)

(* The page saves its own draft of the status, whatever happened since.    *)
AdminSaves(r, status) ==
    /\ Stored(r) /\ enquiry[r] # status
    /\ enquiry' = [enquiry EXCEPT ![r] = status]
    /\ UNCHANGED <<page, used, request, window, counted, reported, works, customers, converting>>

HasWork(r) == \E w \in works : w.enquiry = r

(* create_ad_work_from_enquiry reads first: the enquiry, the customer with *)
(* its phone (all enquiries here are of one visitor and one phone).        *)
ConversionStarts(a, r) ==
    /\ converting[a] = NoConversion
    /\ Stored(r) /\ ~ HasWork(r)
    /\ converting' = [converting EXCEPT ![a] =
           [step |-> "open", enquiry |-> r, customer |-> IF customers = {} THEN r ELSE CHOOSE c \in customers : TRUE]]
    /\ UNCHANGED <<page, used, request, window, counted, enquiry, reported, works, customers>>

(* A second work of one enquiry fails on its unique index and undoes the   *)
(* customer too.                                                           *)
ConversionCommits(a) ==
    /\ converting[a] # NoConversion
    /\ LET c == converting[a]
       IN IF ~ HasWork(c.enquiry)
          THEN /\ works' = works \cup {[enquiry |-> c.enquiry, customer |-> c.customer, by |-> a]}
               /\ customers' = customers \cup {c.customer}
               /\ enquiry' = [enquiry EXCEPT ![c.enquiry] = "converted"]
          ELSE UNCHANGED <<works, customers, enquiry>>
    /\ converting' = [converting EXCEPT ![a] = NoConversion]
    /\ UNCHANGED <<page, used, request, window, counted, reported>>

IntakeInit ==
    /\ page = [state |-> "editing", token |-> 0, request |-> 0, solved |-> 0]
    /\ used = {} /\ window = 1 /\ counted = [w \in Windows |-> 0]
    /\ request = [r \in Requests |-> IdleRequest]
    /\ enquiry = [r \in Requests |-> NoEnquiry]
    /\ reported = {} /\ works = {} /\ customers = {}
    /\ converting = [a \in Admins |-> NoConversion]

IntakeNext ==
    \/ VisitorVerifies \/ TokenExpires \/ PageSeesSuccess \/ PageSeesError \/ WindowPasses
    \/ \E r \in Requests :
         \/ VisitorSends(r) \/ FunctionVerifies(r) \/ FunctionCounts(r) \/ FunctionInserts(r) \/ FunctionFails(r)
         \/ \E status \in {"new", "rejected"} : AdminSaves(r, status)
         \/ \E a \in Admins : ConversionStarts(a, r)
    \/ \E a \in Admins : ConversionCommits(a)

-----------------------------------------------------------------------------
\* The visitor is told of success only when the enquiry is stored, one solved
\* verification stores at most one enquiry, and no window admits more than its
\* limit, however often the form is sent again and however late inserts run.
IntakeIsProtected ==
    /\ \A r \in reported : Stored(r)
    /\ \A q, r \in Requests : q # r /\ Stored(q) /\ Stored(r) => request[q].token # request[r].token
    /\ \A w \in Windows : Cardinality({r \in Requests : Stored(r) /\ request[r].window = w}) <= WindowLimit

\* An enquiry becomes at most one Ad Work, with a customer that exists.
OneWorkPerEnquiry ==
    /\ \A v, w \in works : v.enquiry = w.enquiry => v = w
    /\ \A w \in works : w.customer \in customers

\* What cleaning leaves of the texts of a form is still enough: something of
\* every required text, and a phone number that is not too short.
CleaningKeeps(f) == (\A t \in Required : f[t].cleaned > 0) /\ IsDialled(f.phone, f.phone.cleaned)

\* A form that the page sends, of at most thirty days from a date of the date
\* field, passes the function's validation, with one exception: a text that
\* passes the page as it is written and is too short once cleaned, such as a
\* phone number with runs of spaces.  The plan that the page shows of an enquiry
\* and the one that the database makes have the same days.
FormsAreAccepted(f) ==
    PageSubmits(f) /\ f.days <= MaxDays /\ f.date = "iso" /\ f.notice = "current"
    => (FunctionAccepts(f) <=> CleaningKeeps(f))
PlansAgree(start, n, today) == start # 0 => SharedPlan(start, n) = DatabasePlan(start, n, today)
=============================================================================
