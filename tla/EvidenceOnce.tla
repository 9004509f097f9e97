---------------------------- MODULE EvidenceOnce ----------------------------
(***************************************************************************)
(* What the ingestion promises of a device that repeats itself: an event   *)
(* is stored at most once, and then adds at most one point to one session.  *)
(* Sessions are numbered in the order their running rows were opened.      *)
(***************************************************************************)
EXTENDS Naturals, Sequences

CONSTANT Catalog
VARIABLES stored, points

Init == stored = {} /\ points = <<0>>

Record(id) ==
    /\ id \notin stored /\ stored' = stored \cup {id}
    /\ points' = points \/ \E row \in DOMAIN points : points' = [points EXCEPT ![row] = @ + 1]

OpenRow == points' = Append(points, 0) /\ UNCHANGED stored

Next == OpenRow \/ \E id \in {e.id : e \in Catalog} : Record(id)
Spec == Init /\ [][Next]_<<stored, points>>
=============================================================================
