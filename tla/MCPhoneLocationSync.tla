-------------------------- MODULE MCPhoneLocationSync --------------------------
(***************************************************************************)
(* PhoneLocationSync on two small instances, one per behaviour: batches that *)
(* hold every point, for safety, and batches of one point (narrow), which    *)
(* show whether a point waits for ever behind another.                      *)
(***************************************************************************)
EXTENDS PhoneLocationSync

CONSTANT FirstSessions \* bound: sessions of the narrow instance, and those with all failures in the other

VARIABLE narrow

Narrow == INSTANCE PhoneLocationSync WITH BatchSize <- 1

MCInit == narrow \in BOOLEAN /\ Init

MCNext ==
    /\ UNCHANGED narrow
    /\ \/ ~narrow /\ Next /\ (session' > FirstSessions => failures' < MaxFailures)
       \/ narrow /\ Narrow!Next /\ session' <= FirstSessions

MCSpec ==
    /\ MCInit /\ [][MCNext]_<<vars, narrow>>
    /\ WF_vars(narrow /\ Narrow!SyncSteps) /\ WF_vars(narrow /\ Narrow!SavePoint)
    /\ WF_vars(narrow /\ \E out \in {"answered", "late"} : Narrow!SendPoint(out))
    /\ WF_vars(narrow /\ Narrow!StartSync(TRUE))

\* A point the database would take does not wait for ever behind one it always
\* rejects, although the batch holds only one of them.
DeliveredAlone == narrow => Delivered
================================================================================
