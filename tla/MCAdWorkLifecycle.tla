--------------------------- MODULE MCAdWorkLifecycle ---------------------------
(***************************************************************************)
(* AdWorkLifecycle on small instances.                                     *)
(***************************************************************************)
EXTENDS AdWorkLifecycle, TLC

CONSTANTS FirstDate, LastDate

MCDate == FirstDate..LastDate

\* Days, drivers and sessions are interchangeable; for safety runs only.
Symmetry == Permutations(Day) \cup Permutations(Driver) \cup Permutations(Session)
================================================================================
