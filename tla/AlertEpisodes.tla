---------------------------- MODULE AlertEpisodes ----------------------------
(***************************************************************************)
(* The alerts of one device (M22).  Receipts, the health sweep and reports  *)
(* of other tables leave signals; jobs of the rule queue evaluate them in   *)
(* any order, each in a subtransaction; an administrator closes episodes.   *)
(* Everything a rule knows is kept per deduplication key, a rule with its   *)
(* source of evidence, and a signal touches each key at most once.          *)
(* The clock counts the minutes of the schedule.                            *)
(***************************************************************************)
EXTENDS Integers, Sequences, FiniteSets

CONSTANTS LiveRules,    \* rules on the health a device reports
          Receipts,     \* what the device may send
          SampleWindow, \* minutes between two samples that count together (5)
          FixDuration,  \* minutes without a fix before its alert (2)
          MissingAfter, \* minutes without a heartbeat (2)
          OfflineAfter, \* minutes before the device is offline (10)
          Freshness,    \* minutes after its capture that evidence is live (2)
          Lag,          \* bound: minutes a receipt may commit late
          Decisions,    \* statuses an administrator sets
          LastMinute, MaxSignals, MaxGivenUp \* bounds

NoMinute == -1

(* Samples and minutes a rule asks for. *)
Policy ==
    [battery_low            |-> [required |-> 2, duration |-> 0],
     external_power_removed |-> [required |-> 2, duration |-> 0],
     gps_fix_missing        |-> [required |-> 2, duration |-> FixDuration],
     gsm_signal_weak        |-> [required |-> 2, duration |-> 0]]

ASSUME AlertAssumption ==
    /\ {MissingAfter, OfflineAfter, Freshness, Lag, SampleWindow, FixDuration, LastMinute} \subseteq Nat
    /\ LiveRules \subseteq {"battery_low", "external_power_removed", "gps_fix_missing", "gsm_signal_weak"}
    /\ \A r \in Receipts : r.lateness \in Nat

Keys == (LiveRules \cup {"long_stop", "impossible_speed", "off_work_location_attempt", "captured_after_end_work"})
           \X {"live"}
        \cup {"heartbeat_missing", "device_offline", "location_update_missing"} \X {"sweep"}
        \cup {"sequence_gap"} \X {"live", "delayed"}

Statuses == {"new", "acknowledged", "investigating", "resolved", "false_alarm", "ignored"}
Terminal == {"resolved", "false_alarm", "ignored"}

VARIABLES clock,
          health,    \* what the registry holds of the device, per live rule
          heartbeat, \* its last heartbeat, counted from when it was registered
          work,      \* one stretch of work of the device: its status, start and end
          session,   \* its physical session: "none", "running" or "stopped"
          located,   \* the start of the work, or the latest live position in it
          signals,   \* the signals, in the order they were committed
          jobs,      \* the state of each signal's job
          episodes,  \* the alerts of each key, by episode number
          state,     \* the rule state of each key
          assessed   \* the assessments that changed an alert, per key

alertVars == <<clock, health, heartbeat, work, session, located, signals, jobs, episodes, state, assessed>>

Later(a, b) == IF a > b THEN a ELSE b

NoState == [stored |-> FALSE, alert |-> 0, active |-> FALSE, first |-> NoMinute, last |-> NoMinute,
            cleared |-> NoMinute, count |-> 0]

-----------------------------------------------------------------------------
(* Signals. *)

Level(rule, reading) ==
    CASE rule = "battery_low" -> IF reading <= 10 THEN "critical" ELSE IF reading <= 25 THEN "low" ELSE "normal"
      [] rule = "external_power_removed" -> IF reading = 1 THEN "connected" ELSE "disconnected"
      [] rule = "gps_fix_missing" -> IF reading = 0 THEN "unavailable" ELSE "ready"
      [] rule = "gsm_signal_weak" -> IF reading > 110 THEN "degraded" ELSE "ready"

Bad == {"critical", "low", "disconnected", "unavailable", "degraded"}

LiveDispositions == {"accepted_live", "health_only"}

(* The stretch begins, and ends with a break or the day; its session with it. *)
WorkStarts ==
    /\ work.status = "none"
    /\ work' = [work EXCEPT !.status = "running", !.started = clock]
    /\ located' = clock
    /\ UNCHANGED <<clock, health, heartbeat, session, signals, jobs, episodes, state, assessed>>

WorkEnds ==
    /\ work.status = "running"
    /\ \E status \in {"on_break", "completed"} : work' = [work EXCEPT !.status = status, !.ended = clock]
    /\ session' = IF session = "running" THEN "stopped" ELSE session
    /\ UNCHANGED <<clock, health, heartbeat, located, signals, jobs, episodes, state, assessed>>

(* m21_persist_telemetry_event, as far as alerts depend on it. *)
AtWork(t) ==
    /\ work.started # NoMinute /\ work.started <= t
    /\ work.ended = NoMinute \/ t < work.ended \/ (t = work.ended /\ work.status = "completed")

ReceiptDisposition(r, at) ==
    IF r.position /\ AtWork(at - r.lateness)
    THEN IF r.lateness <= Freshness /\ (work.ended = NoMinute \/ at <= work.ended)
         THEN "accepted_live" ELSE "accepted_delayed"
    ELSE IF r.heartbeat \/ r.readings # <<>> THEN "health_only" ELSE "rejected"

(* The rule M22 has for the reason of the receipt. *)
Reason(r, at) ==
    IF ~ AtWork(at - r.lateness) THEN "off_work_location_attempt"
    ELSE IF r.position /\ r.gap THEN "sequence_gap" ELSE "none"

SessionFollowing(disposition, at) ==
    IF disposition = "accepted_live" /\ (work.status # "completed" \/ (session = "none" /\ at < work.ended))
    THEN "running"
    ELSE IF disposition \in {"accepted_live", "accepted_delayed"} /\ session = "none" THEN "stopped" ELSE session

(* LiveDispositions evidence changes the health the registry holds, whichever receipt  *)
(* commits last; delayed evidence does not.                                *)
ReceiptCommits(r, at) ==
    LET disposition == ReceiptDisposition(r, at)
        reported == \/ disposition = "accepted_live"
                    \/ disposition = "health_only" /\ r.lateness <= Freshness
    IN /\ Len(signals) < MaxSignals
       /\ clock - Lag <= at /\ at <= clock /\ r.lateness <= at
       /\ signals' = Append(signals, [kind |-> "receipt", rule |-> Reason(r, at), at |-> at,
                                      captured |-> at - r.lateness, disposition |-> disposition,
                                      readings |-> r.readings])
       /\ jobs' = Append(jobs, "pending")
       /\ health' = [l \in LiveRules |-> IF reported /\ l \in DOMAIN r.readings
                                         THEN Level(l, r.readings[l]) ELSE health[l]]
       /\ heartbeat' = IF reported /\ r.heartbeat THEN Later(heartbeat, at) ELSE heartbeat
       /\ located' = IF disposition = "accepted_live" THEN Later(located, at - r.lateness) ELSE located
       /\ session' = SessionFollowing(disposition, at)
       /\ UNCHANGED <<clock, work, episodes, state, assessed>>

(* Signals that come without a receipt. *)
Signal(kind, rule) ==
    [kind |-> kind, rule |-> rule, at |-> clock, captured |-> clock, disposition |-> "none", readings |-> <<>>]

Age == clock - heartbeat

(* The device is at work and its session runs. *)
AtRun == work.status = "running" /\ session = "running"

(* What the sweep finds of the device; a signal of a kind once a minute.   *)
SweepFinds ==
    {s \in {Signal("sweep", "device_offline"), Signal("sweep", "heartbeat_missing"),
            Signal("sweep", "location_update_missing"), Signal("recovery", "none")} :
        /\ CASE s.rule = "device_offline" -> Age >= OfflineAfter
             [] s.rule = "heartbeat_missing" -> MissingAfter <= Age /\ Age < OfflineAfter
             [] s.rule = "location_update_missing" -> AtRun /\ clock - located >= MissingAfter
             [] OTHER -> heartbeat = clock /\ heartbeat > 0
        /\ ~ \E i \in DOMAIN signals : signals[i] = s}

HealthSweep ==
    /\ SweepFinds # {}
    /\ Len(signals) + Cardinality(SweepFinds) <= MaxSignals
    /\ \E found \in [1..Cardinality(SweepFinds) -> SweepFinds] :
          /\ \A s \in SweepFinds : \E i \in DOMAIN found : found[i] = s
          /\ signals' = signals \o found
          /\ jobs' = jobs \o [i \in DOMAIN found |-> "pending"]
    /\ UNCHANGED <<clock, health, heartbeat, work, session, located, episodes, state, assessed>>

MinutePasses == /\ clock < LastMinute
        /\ clock' = clock + 1
        /\ UNCHANGED <<health, heartbeat, work, session, located, signals, jobs, episodes, state, assessed>>

-----------------------------------------------------------------------------
(* The three functions a rule is evaluated with, on one key. *)

Open(list) == {i \in DOMAIN list : list[i].status \notin Terminal}

NewEpisode(at, severity) ==
    [status |-> "new", severity |-> severity, active |-> TRUE, first |-> at, last |-> at,
     cleared |-> NoMinute, count |-> 1]

(* What was detected before the condition cleared does not reactivate it.  *)
DetectedAgain(e, at, severity) ==
    [e EXCEPT !.active = @ \/ at >= e.cleared,
              !.cleared = IF at >= @ THEN NoMinute ELSE @,
              !.last = Later(@, at),
              !.count = @ + 1,
              !.severity = IF severity = "critical" THEN severity ELSE @]

(* A mutated form: a closed episode goes on. *)
ReopensClosed(list, at, severity) ==
    IF list = <<>> THEN <<NewEpisode(at, severity)>>
    ELSE [list EXCEPT ![Len(list)] = DetectedAgain(@, at, severity)]

(* m22_apply_rule_observation: the open episode goes on or a new one begins. *)
Detected(list, at, severity) ==
    IF Open(list) = {} THEN Append(list, NewEpisode(at, severity))
    ELSE [i \in DOMAIN list |-> IF i \in Open(list) THEN DetectedAgain(list[i], at, severity) ELSE list[i]]

Observed(st, list, at) ==
    [stored  |-> TRUE,
     alert   |-> IF Open(list) = {} THEN Len(list) + 1 ELSE CHOOSE i \in Open(list) : TRUE,
     active  |-> st.active \/ at >= st.cleared,
     cleared |-> IF at >= st.cleared THEN NoMinute ELSE st.cleared,
     first   |-> IF st.first = NoMinute THEN at ELSE st.first,
     last    |-> Later(st.last, at),
     count   |-> st.count + 1]

(* m22_condition_threshold_met: a sample counts with those shortly before   *)
(* it; while the condition is active nothing is counted.                    *)
Counting(st) == ~ (st.alert # 0 /\ st.active)

Sampled(st, at) ==
    LET restarts == st.last = NoMinute \/ at < st.last \/ at - st.last > SampleWindow
    IN IF ~ Counting(st) THEN st
       ELSE [stored |-> TRUE, alert |-> st.alert, active |-> FALSE, cleared |-> NoMinute, last |-> at,
             first |-> IF restarts \/ st.first = NoMinute THEN at ELSE st.first,
             count |-> IF restarts THEN 1 ELSE st.count + 1]

ThresholdMet(rule, st, at) ==
    \/ ~ Counting(st)
    \/ LET sampled == Sampled(st, at)
       IN /\ sampled.count >= Policy[rule].required
          /\ at - sampled.first >= Policy[rule].duration

(* Mutated forms: any recovery counts; one as late as the detection does not. *)
ClearsAnyway(e, at) == e.active /\ e.status \notin Terminal
ClearsOnlyAfter(e, at) == e.active /\ e.status \notin Terminal /\ at > e.last

(* m22_clear_rule_condition: only what is as late as the last detection. *)
Clears(e, at) == e.active /\ e.status \notin Terminal /\ at >= e.last

Recovered(list, at) ==
    [i \in DOMAIN list |-> IF Clears(list[i], at) THEN [list[i] EXCEPT !.active = FALSE, !.cleared = at]
                           ELSE list[i]]

Cleared(st, at) ==
    IF st.stored /\ at >= st.last
    THEN [stored |-> TRUE, alert |-> st.alert, active |-> FALSE, cleared |-> at, last |-> at, first |-> NoMinute, count |-> 0]
    ELSE st

-----------------------------------------------------------------------------
(* m22_evaluate_signal and m22_evaluate_long_stop: what a signal means for  *)
(* a key.  The health is that of now, the time that of the receipt; points  *)
(* is what the points of the work say at the time of the evaluation.        *)

Source(s) == IF s.disposition = "accepted_delayed" THEN "delayed" ELSE "live"

Nothing == [does |-> "nothing"]
Clear(at) == [does |-> "clear", at |-> at]
Detect(at, severity) == [does |-> "detect", at |-> at, severity |-> severity]
Sample(at, severity) == [does |-> "sample", at |-> at, severity |-> severity]

LiveMeaning(s, rule) ==
    IF s.disposition \notin LiveDispositions THEN Nothing
    ELSE IF health[rule] \in Bad
    THEN Sample(s.at, IF health[rule] = "critical" THEN "critical" ELSE "warning")
    ELSE Clear(s.at)

StopMeaning(s, points) ==
    IF s.disposition # "accepted_live" THEN Nothing
    ELSE IF session # "running" \/ points.stop = "moved" THEN Clear(s.at)
    ELSE IF points.stop = "stopped" THEN Detect(s.captured, "warning") ELSE Nothing

(* Speeds of delayed evidence are not looked at. *)
SpeedMeaning(s, points) ==
    IF s.disposition = "accepted_live" /\ points.fast THEN Detect(s.captured, "warning") ELSE Nothing

ReasonMeaning(s, key) == IF <<s.rule, Source(s)>> = key THEN Detect(s.at, "warning") ELSE Nothing

SweepMeaning(s, rule) ==
    IF s.rule # rule \/ (rule = "location_update_missing" /\ ~ AtRun) THEN Nothing
    ELSE Detect(s.at, IF rule = "device_offline" THEN "critical" ELSE "warning")

(* A heartbeat does not show where the device is. *)
RecoveryMeaning(s, rule) ==
    IF IF rule = "location_update_missing" THEN s.disposition = "accepted_live"
       ELSE s.kind = "recovery" \/ s.disposition \in LiveDispositions
    THEN Clear(s.at) ELSE Nothing

Meaning(s, key, points) ==
    IF key[2] = "sweep"
    THEN IF s.kind = "sweep" THEN SweepMeaning(s, key[1]) ELSE RecoveryMeaning(s, key[1])
    ELSE IF s.kind # "receipt" THEN Nothing
    ELSE CASE key[1] \in LiveRules        -> LiveMeaning(s, key[1])
           [] key[1] = "long_stop"        -> StopMeaning(s, points)
           [] key[1] = "impossible_speed" -> SpeedMeaning(s, points)
           [] OTHER                       -> ReasonMeaning(s, key)

Happens(m, key) ==
    \/ m.does = "detect"
    \/ m.does = "sample" /\ ThresholdMet(key[1], state[key], m.at)

EpisodesAfter(m, key) ==
    IF Happens(m, key) THEN Detected(episodes[key], m.at, m.severity)
    ELSE IF m.does = "clear" THEN Recovered(episodes[key], m.at) ELSE episodes[key]

StateAfter(m, key) ==
    LET st == IF m.does = "sample" THEN Sampled(state[key], m.at) ELSE state[key]
    IN IF Happens(m, key) THEN Observed(st, episodes[key], m.at)
       ELSE IF m.does = "clear" THEN Cleared(st, m.at) ELSE st

(* The episode a detection counts in. *)
Counted(list) == IF Open(list) = {} THEN {Len(list) + 1} ELSE Open(list)

JobCompletes(i) ==
    /\ jobs[i] = "pending"
    /\ jobs' = [jobs EXCEPT ![i] = "completed"]
    /\ \E points \in [stop : {"unclear", "stopped", "moved"}, fast : BOOLEAN] :
         LET m == [key \in Keys |-> Meaning(signals[i], key, points)]
         IN /\ episodes' = [key \in Keys |-> EpisodesAfter(m[key], key)]
            /\ state' = [key \in Keys |-> StateAfter(m[key], key)]
            /\ assessed' = [key \in Keys |-> assessed[key] \cup
                              IF Happens(m[key], key) THEN {i} \X Counted(episodes[key]) ELSE {}]
    /\ UNCHANGED <<clock, health, heartbeat, work, session, located, signals>>

(* After eight errors, each of which left nothing, the job is given up. *)
JobFails(i) ==
    /\ jobs[i] = "pending"
    /\ Cardinality({j \in DOMAIN jobs : jobs[j] = "failed"}) < MaxGivenUp
    /\ jobs' = [jobs EXCEPT ![i] = "failed"]
    /\ UNCHANGED <<clock, health, heartbeat, work, session, located, signals, episodes, state, assessed>>

-----------------------------------------------------------------------------
(* The administrator. *)

May(from, to) ==
    \/ from = "new" /\ to \in Statuses \ {"new"}
    \/ from = "acknowledged" /\ to \in {"investigating"} \cup Terminal
    \/ from = "investigating" /\ to \in Terminal

TransitionAlert(key, i, to) ==
    /\ May(episodes[key][i].status, to)
    /\ episodes' = [episodes EXCEPT ![key][i].status = to]
    /\ UNCHANGED <<clock, health, heartbeat, work, session, located, signals, jobs, state, assessed>>

-----------------------------------------------------------------------------
AlertInit ==
    /\ clock = 0
    /\ health = [l \in LiveRules |-> "unknown"]
    /\ heartbeat = 0
    /\ work = [status |-> "none", started |-> NoMinute, ended |-> NoMinute]
    /\ session = "none" /\ located = NoMinute
    /\ signals = <<>> /\ jobs = <<>>
    /\ episodes = [key \in Keys |-> <<>>]
    /\ state = [key \in Keys |-> NoState]
    /\ assessed = [key \in Keys |-> {}]

AlertNext ==
    \/ MinutePasses \/ WorkStarts \/ WorkEnds \/ HealthSweep
    \/ \E r \in Receipts, at \in 0..LastMinute : ReceiptCommits(r, at)
    \/ \E i \in DOMAIN jobs : JobCompletes(i) \/ JobFails(i)
    \/ \E key \in Keys : \E i \in DOMAIN episodes[key], to \in Decisions : TransitionAlert(key, i, to)

AlertSpec == AlertInit /\ [][AlertNext]_alertVars

-----------------------------------------------------------------------------
(* Properties. *)

\* A key has one open episode at most and it is the last one, which the rule
\* state refers to; the database's index on open alerts never refuses one.
OneOpenEpisode ==
    \A key \in Keys :
       /\ Open(episodes[key]) \subseteq {Len(episodes[key])}
       /\ state[key].alert = Len(episodes[key])

\* Whatever the order in which jobs run, a condition is inactive only if it
\* cleared no earlier than everything detected in its episode.
ClearedIsLater ==
    \A key \in Keys : \A i \in DOMAIN episodes[key] :
       LET e == episodes[key][i]
       IN IF e.active THEN e.cleared = NoMinute ELSE e.last <= e.cleared

\* An episode counts every assessment of it once.
CountsAreAssessed ==
    \A key \in Keys : \A i \in DOMAIN episodes[key] :
       episodes[key][i].count = Cardinality({a \in assessed[key] : a[2] = i})

EpisodesAreSound == OneOpenEpisode /\ ClearedIsLater /\ CountsAreAssessed

\* Closed episodes stay as they are; open ones keep their start, move on in
\* status and severity, and never lose a detection.
EpisodesOnlyGrow ==
    [][\A key \in Keys : \A i \in DOMAIN episodes[key] :
          /\ i \in DOMAIN episodes'[key]
          /\ LET e == episodes[key][i]
                 f == episodes'[key][i]
             IN /\ e.status \in Terminal => f = e
                /\ f.first = e.first /\ f.last >= e.last /\ f.count >= e.count
                /\ e.severity = "critical" => f.severity = "critical"
                /\ f.status = e.status \/ May(e.status, f.status)]_alertVars

LiveReceipts == {i \in DOMAIN signals : signals[i].disposition \in LiveDispositions}

\* Once every job has run, and the last live receipt to commit is also the
\* latest, an open alert about the health a device reports is active only if
\* that is what it still reports.
QuietMeansTrue ==
    \A n \in LiveReceipts :
       /\ \A i \in DOMAIN jobs : jobs[i] = "completed"
       /\ \A i \in LiveReceipts : i <= n /\ signals[i].at <= signals[n].at
       => \A rule \in LiveRules : \A i \in Open(episodes[<<rule, "live">>]) :
             episodes[<<rule, "live">>][i].active => health[rule] \in Bad
=============================================================================
