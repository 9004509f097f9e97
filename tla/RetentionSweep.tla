--------------------------- MODULE RetentionSweep ---------------------------
(***************************************************************************)
(* The daily sweep of private photos: the function asks the database for   *)
(* the proofs of works closed twelve months ago, deletes their files one   *)
(* by one and tells the database which files are gone, which deletes those *)
(* rows.  It may be cut anywhere.  A proof that never got its photo has a   *)
(* row and no file.                                                        *)
(***************************************************************************)
EXTENDS Integers, FiniteSets

CONSTANTS Proofs,  \* photo proofs
          PageSize \* candidates per sweep (500)

VARIABLES rows,    \* proofs with a row
          files,   \* proofs with a file in the storage
          expired, \* proofs of works closed long enough
          sweep    \* the running function: [step, todo, deleted]

retentionVars == <<rows, files, expired, sweep>>

NoSweep == [step |-> "idle", todo |-> {}, deleted |-> {}]

WorkExpires(p) == /\ p \in rows \ expired /\ expired' = expired \cup {p}
                  /\ UNCHANGED <<rows, files, sweep>>

(* No order: any PageSize of the candidates. *)
SweepStarts ==
    /\ sweep = NoSweep
    /\ LET candidates == rows \cap expired
           size == IF Cardinality(candidates) < PageSize THEN Cardinality(candidates) ELSE PageSize
       IN \E todo \in {s \in SUBSET candidates : Cardinality(s) = size} :
            sweep' = [step |-> "deleting", todo |-> todo, deleted |-> {}]
    /\ UNCHANGED <<rows, files, expired>>

(* The storage answers ok when it deleted a file. *)
FileDeleted(p) ==
    /\ p \in sweep.todo
    /\ \E ok \in BOOLEAN :
         /\ ok => p \in files
         /\ files' = IF ok THEN files \ {p} ELSE files
         /\ sweep' = [sweep EXCEPT !.todo = @ \ {p},
                                   !.deleted = IF ok THEN @ \cup {p} ELSE @]
    /\ UNCHANGED <<rows, expired>>

RowsDeleted ==
    /\ sweep.step = "deleting" /\ sweep.todo = {}
    /\ rows' = rows \ sweep.deleted
    /\ sweep' = NoSweep
    /\ UNCHANGED <<files, expired>>

(* Any outside call throws, or the function is cut. *)
SweepFails ==
    /\ sweep # NoSweep /\ sweep' = NoSweep
    /\ UNCHANGED <<rows, files, expired>>

RetentionInit == rows = Proofs /\ files \in SUBSET Proofs /\ expired = {} /\ sweep = NoSweep

RetentionNext == \/ \E p \in Proofs : WorkExpires(p) \/ FileDeleted(p)
                 \/ SweepStarts \/ RowsDeleted \/ SweepFails

\* No file is left without the row that names it, whatever fails or is cut,
\* and nothing of a work that has not expired is deleted.
FilesAreNamed == files \subseteq rows
OnlyExpiredIsDeleted == Proofs \ rows \subseteq expired
=============================================================================
