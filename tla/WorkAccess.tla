------------------------------ MODULE WorkAccess ------------------------------
(***************************************************************************)
(* What the database promises about access to one Ad Work, whatever the    *)
(* requests in flight: access is granted and withdrawn any number of       *)
(* times, withdrawing it stops every running phone session at once, and a  *)
(* cancellation ends it for good: no session ever runs again.  A session   *)
(* may still start after a withdrawal (its request read the grant before), *)
(* but never before the first grant.                                       *)
(***************************************************************************)
CONSTANT Session      \* phone tracking sessions

VARIABLES
    access,           \* "none", "granted", "withdrawn" or "ended"
    running           \* the sessions that are running

avars == <<access, running>>

AccessTypeOK ==
    /\ access \in {"none", "granted", "withdrawn", "ended"}
    /\ running \subseteq Session

AccessInit == access = "none" /\ running = {}

Grant ==
    /\ access # "ended"
    /\ access' = "granted"
    /\ running' \subseteq running

Withdraw ==
    /\ access # "ended"
    /\ access' = "withdrawn"
    /\ running' = {}

End ==
    /\ access # "ended"
    /\ access' = "ended"
    /\ running' = {}

StartSession(s) ==
    /\ access \in {"granted", "withdrawn"}
    /\ running' = running \cup {s}
    /\ UNCHANGED access

StopSessions ==
    /\ running' \subseteq running
    /\ UNCHANGED access

AccessNext ==
    \/ Grant \/ Withdraw \/ End \/ StopSessions
    \/ \E s \in Session : StartSession(s)

AccessSpec == AccessInit /\ [][AccessNext]_avars
================================================================================
