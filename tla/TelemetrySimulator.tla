-------------------------- MODULE TelemetrySimulator --------------------------
(***************************************************************************)
(* The deterministic simulator of simulator.ts: a virtual clock, an explicit *)
(* lifecycle and a queue that is emptied by flush.  Of an event only its    *)
(* number in the stream and its instants are kept.                         *)
(***************************************************************************)
EXTENDS Integers, Sequences

CONSTANTS
    Interval, ClockOffset, NetworkDelay,  \* the configuration
    Limit,      \* maximumEventCount
    MaxNow      \* bound: how far the clock is moved

VARIABLES
    sim,        \* [now, running, due, sequence, queue]
    flushed     \* what flush has returned, in order
simulatorVars == <<sim, flushed>>

NotScheduled == -1
SimulatorInit ==
    /\ sim = [now |-> 0, running |-> FALSE, due |-> NotScheduled, sequence |-> 1, queue |-> <<>>]
    /\ flushed = <<>>

AtLimit(s) == s.sequence > Limit
Stopped(s) == [s EXCEPT !.running = FALSE, !.due = NotScheduled]
Later(a, b) == IF a > b THEN a ELSE b

\* emitAt with the scheduling around it: the clock moves to an emission that
\* is due in the future, never back.
Emitted(s, at) ==
    [s EXCEPT !.now = Later(@, at), !.due = at + Interval, !.sequence = @ + 1,
              !.queue = Append(@, [n |-> s.sequence, captured |-> at + ClockOffset,
                                   received |-> at + NetworkDelay])]

Started(s) == IF s.running THEN s ELSE [s EXCEPT !.running = TRUE, !.due = s.now]

(* A turn of the loop of step; a stopped simulator stays at its limit.     *)
SteppedOnce(s) == IF AtLimit(s) THEN Stopped(s)
                  ELSE Emitted(s, IF s.due = NotScheduled THEN s.now ELSE s.due)

Stepped(s, count) ==
    LET after[n \in Nat] == IF n = 0 THEN s ELSE SteppedOnce(after[n - 1])
    IN  after[count]

(* A turn of the loop of advance; it stays where its condition fails, after *)
(* Limit emissions and a stop at the latest.                               *)
EmittedOnce(s, target) ==
    IF s.due = NotScheduled \/ s.due > target THEN s
    ELSE IF AtLimit(s) THEN Stopped(s) ELSE Emitted(s, s.due)

EmittedUntil(s, target) ==
    LET after[n \in Nat] == IF n = 0 THEN s ELSE EmittedOnce(after[n - 1], target)
    IN  after[Limit + 1]

Advanced(s, duration) ==
    LET target == s.now + duration
    IN  [(IF s.running THEN EmittedUntil(s, target) ELSE s) EXCEPT !.now = target]

(* The public operations; step raises when the simulator is not running. *)
Start == sim' = Started(sim) /\ UNCHANGED flushed
Stop == sim' = Stopped(sim) /\ UNCHANGED flushed
Step(count) == sim.running /\ sim' = Stepped(sim, count) /\ UNCHANGED flushed
Advance(duration) == sim' = Advanced(sim, duration) /\ UNCHANGED flushed
Flush == flushed' = flushed \o sim.queue /\ sim' = [sim EXCEPT !.queue = <<>>]

SimulatorNext ==
    /\ sim.now <= MaxNow
    /\ \/ Start \/ Stop \/ Flush
       \/ \E n \in 0..2 : Step(n)
       \/ \E d \in 0..(Interval + 1) : Advance(d)

(***************************************************************************)
(* Properties.                                                             *)
(***************************************************************************)

\* The stream has no hole and no repetition and its capture times never go
\* back, through every stop, restart, flush and the event limit.
StreamIsWhole ==
    LET all == flushed \o sim.queue
    IN  /\ Len(all) = sim.sequence - 1 /\ Len(all) <= Limit
        /\ \A i \in DOMAIN all : all[i].n = i
        /\ \A i, j \in DOMAIN all : i < j => all[i].captured <= all[j].captured
        /\ sim.running <=> sim.due # NotScheduled
        /\ sim.running => sim.due >= sim.now

\* How the time is cut does not matter: two advances are one, and a step is
\* an advance to the emission that is due.
TimeCutsDoNotMatter ==
    /\ \A a, b \in 0..(Interval + 1) : Advanced(Advanced(sim, a), b) = Advanced(sim, a + b)
    /\ sim.running /\ ~AtLimit(sim) => Stepped(sim, 1) = Advanced(sim, sim.due - sim.now)
=============================================================================
