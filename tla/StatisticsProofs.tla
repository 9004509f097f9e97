--------------------------- MODULE StatisticsProofs ---------------------------
(***************************************************************************)
(* The statistical signal for any values and numbers of windows and any     *)
(* support: the database and the shared evaluator agree on every window,    *)
(* and a device is investigated only after a run of anomalous windows.      *)
(***************************************************************************)
EXTENDS SignalStream, FiniteSetTheorems, FunctionTheorems, WellFoundedInduction, TLAPS

(***************************************************************************)
(* Sorting and selecting.                                                  *)
(***************************************************************************)
TotalOrder(R, S) ==
    /\ \A i \in S : <<i, i>> \in R
    /\ \A i, j \in S : <<i, j>> \in R \/ <<j, i>> \in R
    /\ \A i, j \in S : <<i, j>> \in R /\ <<j, i>> \in R => i = j
    /\ \A i, j, k \in S : <<i, j>> \in R /\ <<j, k>> \in R => <<i, k>> \in R

\* A total order of n elements has one at every place.
LEMMA OrderFills ==
    ASSUME NEW n \in Nat, NEW R, TotalOrder(R, 1..n)
    PROVE  \A k \in 1..n : \E i \in 1..n : Cardinality({j \in 1..n : <<j, i>> \in R}) = k
<1> DEFINE Below(i) == {j \in 1..n : <<j, i>> \in R}
           f == [i \in 1..n |-> Cardinality(Below(i))]
<1>1. IsFiniteSet(1..n) /\ Cardinality(1..n) = n
  BY FS_Interval
<1>2. \A i \in 1..n : IsFiniteSet(Below(i)) /\ Cardinality(Below(i)) \in 1..n
  <2> SUFFICES ASSUME NEW i \in 1..n PROVE IsFiniteSet(Below(i)) /\ Cardinality(Below(i)) \in 1..n
    OBVIOUS
  <2>1. Below(i) \in SUBSET (1..n) /\ i \in Below(i)
    BY DEF TotalOrder
  <2>4. IsFiniteSet(1..n) /\ Below(i) \in SUBSET (1..n)
    BY <1>1, <2>1
  <2>2. IsFiniteSet(Below(i)) /\ Cardinality(Below(i)) <= n
    <3>1. IsFiniteSet(Below(i)) /\ Cardinality(Below(i)) <= Cardinality(1..n)
      BY <2>4, FS_Subset, Zenon
    <3> QED
      BY <1>1, <3>1
  <2>3. Cardinality(Below(i)) \in Nat /\ Cardinality(Below(i)) # 0
    BY <2>1, <2>2, FS_CardinalityType, FS_EmptySet
  <2> QED
    BY <2>2, <2>3
<1>3. \A i, j \in 1..n : f[i] = f[j] => i = j
  <2> SUFFICES ASSUME NEW i \in 1..n, NEW j \in 1..n, f[i] = f[j], <<i, j>> \in R PROVE i = j
    BY DEF TotalOrder
  <2>1. Below(i) \in SUBSET Below(j)
    BY DEF TotalOrder
  <2>2. Below(i) = Below(j)
    BY <1>2, <2>1, FS_Subset
  <2> QED
    BY <2>2 DEF TotalOrder
<1>4. f \in Injection(1..n, 1..n)
  BY <1>2, <1>3, Fun_IsInj
<1>5. f \in Surjection(1..n, 1..n)
  BY <1>1, <1>4, FS_Injection
<1> HIDE DEF f
<1>6. \A k \in 1..n : \E i \in 1..n : f[i] = k
  BY <1>5, Fun_SurjectionProperties
<1> QED
  BY <1>6 DEF f

\* The order in which numbers are sorted.
Ascending(values) ==
    {e \in (DOMAIN values) \X (DOMAIN values) :
        \/ values[e[1]] < values[e[2]]
        \/ ~(values[e[2]] < values[e[1]]) /\ e[1] <= e[2]}

\* A sorted sequence has as many elements, each of them one of the numbers.
LEMMA SortedIsTaken ==
    ASSUME NEW values \in Seq(Int)
    PROVE  /\ DOMAIN Sorted(values) = 1..Len(values)
           /\ \A k \in 1..Len(values) : \E i \in 1..Len(values) : Sorted(values)[k] = values[i]
<1> DEFINE n == Len(values)
<1>1. n \in Nat /\ DOMAIN values = 1..n /\ \A i \in 1..n : values[i] \in Int
  OBVIOUS
<1>2. Sorted(values) = InOrder(values, Ascending(values))
  BY DEF Sorted, StablySorted, Ascending
<1>3. \A i, j \in 1..n : <<i, j>> \in Ascending(values)
                         <=> values[i] < values[j] \/ (~(values[j] < values[i]) /\ i <= j)
  BY <1>1 DEF Ascending
<1> HIDE DEF n
<1>4. TotalOrder(Ascending(values), 1..n)
  BY <1>1, <1>3 DEF TotalOrder
<1>5. \A k \in 1..n : \E i \in 1..n : Cardinality({j \in 1..n : <<j, i>> \in Ascending(values)}) = k
  BY <1>1, <1>4, OrderFills
<1>6. \A k \in 1..n : \E i \in 1..n : InOrder(values, Ascending(values))[k] = values[i]
  BY <1>1, <1>5 DEF InOrder
<1> QED
  BY <1>1, <1>2, <1>6 DEF InOrder, n

\* The median and the deviation are numbers, the deviation no negative one.
LEMMA MedianIsNumber ==
    /\ \A values \in Seq(Int) : Median2(values) \in Int
    /\ \A values \in Seq(Int) : (\A i \in DOMAIN values : values[i] >= 0) => Median2(values) >= 0
<1> SUFFICES ASSUME NEW values \in Seq(Int)
             PROVE  /\ Median2(values) \in Int
                    /\ (\A i \in DOMAIN values : values[i] >= 0) => Median2(values) >= 0
  OBVIOUS
<1>1. CASE values = <<>>
  BY <1>1 DEF Median2
<1>2. CASE values # <<>>
  <2> DEFINE sorted == Sorted(values)
             n == Len(values)
             m == n \div 2
  <2>1. n \in Nat /\ n # 0 /\ DOMAIN values = 1..n /\ \A i \in 1..n : values[i] \in Int
    BY <1>2
  <2>2. \A k \in 1..n : \E i \in 1..n : sorted[k] = values[i]
    BY SortedIsTaken
  <2>3. \A k \in 1..n : /\ sorted[k] \in Int
                        /\ (\A i \in 1..n : values[i] >= 0) => sorted[k] >= 0
    BY <2>1, <2>2
  <2>4. Median2(values) = IF n % 2 = 0 THEN sorted[m] + sorted[m + 1] ELSE 2 * sorted[m + 1]
    BY <1>2 DEF Median2
  <2> HIDE DEF sorted, n
  <2>5. /\ m + 1 \in 1..n \/ n % 2 = 0
        /\ n % 2 = 0 => m \in 1..n /\ m + 1 \in 1..n
    BY <2>1
  <2> HIDE DEF m
  <2>6. CASE n % 2 = 0
    <3>1. sorted[m] \in Int /\ sorted[m + 1] \in Int
      BY <2>3, <2>5, <2>6
    <3>2. (\A i \in 1..n : values[i] >= 0) => sorted[m] >= 0 /\ sorted[m + 1] >= 0
      BY <2>3, <2>5, <2>6
    <3>3. Median2(values) = sorted[m] + sorted[m + 1]
      BY <2>4, <2>6
    <3> DEFINE low == sorted[m]
               high == sorted[m + 1]
    <3>4. /\ low \in Int /\ high \in Int /\ Median2(values) = low + high
          /\ (\A i \in DOMAIN values : values[i] >= 0) => low >= 0 /\ high >= 0
      BY <2>1, <3>1, <3>2, <3>3
    <3> HIDE DEF low, high
    <3>5. Median2(values) \in Int /\ (low >= 0 /\ high >= 0 => Median2(values) >= 0)
      BY <3>4
    <3> QED
      BY <3>4, <3>5
  <2>7. CASE n % 2 # 0
    <3>1. sorted[m + 1] \in Int /\ ((\A i \in 1..n : values[i] >= 0) => sorted[m + 1] >= 0)
      BY <2>3, <2>5, <2>7
    <3>2. Median2(values) = 2 * sorted[m + 1]
      BY <2>4, <2>7
    <3> DEFINE chosen == sorted[m + 1]
    <3> HIDE DEF chosen
    <3>3. Median2(values) = 2 * chosen /\ chosen \in Int
          /\ ((\A i \in 1..n : values[i] >= 0) => chosen >= 0)
      BY <3>1, <3>2 DEF chosen
    <3>4. Median2(values) \in Int /\ (chosen >= 0 => Median2(values) >= 0)
      BY <3>3
    <3> QED
      BY <2>1, <3>3, <3>4
  <2> QED
    BY <2>6, <2>7
<1> QED
  BY <1>1, <1>2

LEMMA DeviationIsNatural ==
    ASSUME NEW values \in Seq(Int), NEW center \in Int
    PROVE  Deviation4(values, center) \in Nat
<1> DEFINE away == [i \in DOMAIN values |-> Abs(2 * values[i] - center)]
<1>1. away \in Seq(Int) /\ \A i \in DOMAIN away : away[i] >= 0
  BY DEF Abs
<1> HIDE DEF away
<1>2. Median2(away) \in Int /\ Median2(away) >= 0
  BY <1>1, MedianIsNumber
<1> QED
  BY <1>2 DEF Deviation4, away

LEMMA PercentileIsNumber ==
    ASSUME NEW values \in Seq(Int)
    PROVE  Percentile100(values, 25) \in Int /\ Percentile100(values, 75) \in Int
<1>1. CASE values = <<>>
  BY <1>1 DEF Percentile100
<1>2. CASE values # <<>>
  <2> DEFINE sorted == Sorted(values)
             n == Len(values)
  <2>1. n \in Nat /\ n # 0 /\ DOMAIN values = 1..n /\ \A i \in 1..n : values[i] \in Int
    BY <1>2
  <2>2. \A k \in 1..n : sorted[k] \in Int
    BY <2>1, SortedIsTaken
  <2>3. \A p \in {25, 75} :
          Percentile100(values, p)
          = 100 * sorted[((n - 1) * p) \div 100 + 1]
            + (IF ((n - 1) * p) % 100 = 0 THEN 0
               ELSE (sorted[((n - 1) * p) \div 100 + 1 + 1] - sorted[((n - 1) * p) \div 100 + 1])
                    * (((n - 1) * p) % 100))
    BY <1>2 DEF Percentile100
  <2> HIDE DEF sorted, n
  <2>4. ASSUME NEW p \in {25, 75} PROVE Percentile100(values, p) \in Int
    <3> DEFINE position == (n - 1) * p
               lower == position \div 100 + 1
               rest == position % 100
    <3>1. /\ lower \in 1..n /\ rest \in Int
          /\ rest # 0 => lower + 1 \in 1..n
      BY <2>1
    <3>2. sorted[lower] \in Int /\ (rest # 0 => sorted[lower + 1] \in Int)
      BY <2>2, <3>1
    <3>3. Percentile100(values, p)
          = 100 * sorted[lower] + (IF rest = 0 THEN 0 ELSE (sorted[lower + 1] - sorted[lower]) * rest)
      BY <2>3
    <3> HIDE DEF lower, rest
    <3> QED
      BY <3>1, <3>2, <3>3
  <2> QED
    BY <2>4
<1> QED
  BY <1>1, <1>2

\* Keeping an interval of the indexes keeps the elements there.
IsInterval(part, s, a, n) == part = [k \in 1..n |-> s[a + k]]

LEMMA KeptInterval ==
    ASSUME NEW s, NEW a \in Nat, NEW n \in Nat
    PROVE  IsInterval(Kept(s, (a + 1)..(a + n)), s, a, n)
<1> DEFINE I == (a + 1)..(a + n)
<1>1. Cardinality(I) = n
  BY FS_Interval
<1>2. \A i \in I : Cardinality({j \in I : j <= i}) = i - a
  <2> SUFFICES ASSUME NEW i \in I PROVE Cardinality({j \in I : j <= i}) = i - a
    OBVIOUS
  <2>1. {j \in I : j <= i} = (a + 1)..i
    OBVIOUS
  <2>2. Cardinality((a + 1)..i) = i - a
    BY FS_Interval
  <2> QED
    BY <2>1, <2>2
<1>3. \A k \in 1..n : (CHOOSE i \in I : Cardinality({j \in I : j <= i}) = k) = a + k
  <2> SUFFICES ASSUME NEW k \in 1..n
               PROVE  (CHOOSE i \in I : Cardinality({j \in I : j <= i}) = k) = a + k
    OBVIOUS
  <2>1. \A i \in I : Cardinality({j \in I : j <= i}) = k <=> i = a + k
    BY <1>2
  <2>2. a + k \in I
    OBVIOUS
  <2> HIDE DEF I
  <2> QED
    BY <2>1, <2>2
<1> HIDE DEF I
<1>4. Kept(s, I) = [k \in 1..n |-> s[a + k]]
  <2>1. Kept(s, I) = [k \in 1..n |-> s[CHOOSE i \in I : Cardinality({j \in I : j <= i}) = k]]
    BY <1>1 DEF Kept
  <2> QED
    BY <1>3, <2>1, Zenon
<1> QED
  BY <1>4 DEF I, IsInterval

(***************************************************************************)
(* The stream of windows.  No support asks for nothing.                    *)
(***************************************************************************)
StreamBounds ==
    /\ DeviceValues \subseteq Int /\ OtherValues \subseteq Int /\ Samples \subseteq Int
    /\ BaselineSupport \in Nat \ {0} /\ CurrentSupport \in Nat \ {0}

StreamSpec == StreamInit /\ [][StreamNext]_streamVars

(* The names a baseline goes by. *)
Fallbacks == {"exact_supported_cohort", "broader_model_adapter_cohort", "fleet_cohort", "insufficient_data"}

Scopes == {"device", "model", "fleet"}
States == {"insufficient_data", "normal", "watch", "investigate"}
StreamTypeOK ==
    /\ windows \in [Scopes -> Seq(Int)]
    /\ evaluations \in Seq([anomalous : BOOLEAN, fallback : Fallbacks, state : States])
    /\ shared \in Seq([state : States, fallback : Fallbacks, opens : BOOLEAN])
    /\ Len(evaluations) = Len(shared)

\* Side by side the two evaluators say the same of every window, the shared
\* one as if it knew what the database remembers as anomalous.
SideBySide ==
    \A i \in DOMAIN evaluations :
        /\ evaluations[i].state = shared[i].state
        /\ evaluations[i].fallback = shared[i].fallback
        /\ evaluations[i].anomalous = shared[i].opens

\* An anomalous window is never a quiet one.
AnomalousIsShown ==
    \A i \in DOMAIN evaluations :
        evaluations[i].anomalous => OperationallyActionable(evaluations[i].state)

StreamInv == StreamTypeOK /\ SideBySide /\ AnomalousIsShown /\ InvestigationNeedsARun

\* A baseline as both evaluators compute it from the windows of a scope.
BaselineOf(scope) ==
    LET values == windows[scope]
        supported == Len(values) >= BaselineSupport
    IN [cohort |-> Cohorts[scope], sampleCount |-> Len(values), active |-> supported,
        supported |-> supported,
        median2 |-> Median2(values), deviation4 |-> Deviation4(values, Median2(values)),
        p25 |-> Percentile100(values, 25), p75 |-> Percentile100(values, 75)]

LEMMA ScopesAreCohorts ==
    /\ DOMAIN Cohorts = Scopes
    /\ DOMAIN Tiers = 1..3 /\ Tiers[1] = "device" /\ Tiers[2] = "model" /\ Tiers[3] = "fleet"
    /\ \A scope \in Scopes :
         /\ Cohorts[scope].metric = "rejection_rate" /\ Cohorts[scope].workCategory = "null"
         /\ Cohorts[scope].source = "physical_device" /\ Cohorts[scope].synthetic = FALSE
    /\ Cohorts["device"].deviceModel = "m" /\ Cohorts["device"].adapterVersion = "a"
    /\ Cohorts["model"].deviceModel = "m" /\ Cohorts["model"].adapterVersion = "null"
    /\ Cohorts["fleet"].deviceModel = "null" /\ Cohorts["fleet"].adapterVersion = "null"
BY DEF Cohorts, Cohort, Tiers, Scopes, Null

\* The parts of a sequence that joins three.
JoinsThree(all, a, b, c) ==
    /\ DOMAIN all = 1..(Len(a) + Len(b) + Len(c))
    /\ \A i \in 1..Len(a) : all[i] = a[i]
    /\ \A i \in 1..Len(b) : all[Len(a) + i] = b[i]
    /\ \A i \in 1..Len(c) : all[Len(a) + Len(b) + i] = c[i]

LEMMA TwoParts ==
    ASSUME NEW S, NEW s \in Seq(S), NEW t \in Seq(S)
    PROVE  /\ s \o t \in Seq(S) /\ Len(s \o t) = Len(s) + Len(t)
           /\ DOMAIN (s \o t) = 1..(Len(s) + Len(t))
           /\ \A i \in 1..Len(s) : (s \o t)[i] = s[i]
           /\ \A i \in 1..Len(t) : (s \o t)[Len(s) + i] = t[i]
<1>1. s \o t \in Seq(S) /\ Len(s \o t) = Len(s) + Len(t)
  OBVIOUS
<1>2. DOMAIN (s \o t) = 1..(Len(s) + Len(t))
  BY <1>1
<1>3. \A i \in 1..Len(s) : (s \o t)[i] = s[i]
  OBVIOUS
<1>4. \A i \in 1..Len(t) : (s \o t)[Len(s) + i] = t[i]
  OBVIOUS
<1> QED
  BY <1>1, <1>2, <1>3, <1>4

LEMMA ThreeParts ==
    ASSUME NEW S, NEW a \in Seq(S), NEW b \in Seq(S), NEW c \in Seq(S)
    PROVE  JoinsThree(a \o b \o c, a, b, c)
<1>1. /\ a \o b \in Seq(S) /\ Len(a \o b) = Len(a) + Len(b)
      /\ \A i \in 1..Len(a) : (a \o b)[i] = a[i]
      /\ \A i \in 1..Len(b) : (a \o b)[Len(a) + i] = b[i]
  BY TwoParts
<1>7. \A s \in Seq(S) : /\ DOMAIN (s \o c) = 1..(Len(s) + Len(c))
                        /\ \A i \in 1..Len(s) : (s \o c)[i] = s[i]
                        /\ \A i \in 1..Len(c) : (s \o c)[Len(s) + i] = c[i]
  BY TwoParts
<1> DEFINE ab == a \o b
<1>2. ab \in Seq(S) /\ Len(ab) = Len(a) + Len(b)
  BY <1>1
<1> HIDE DEF ab
<1>3. /\ DOMAIN (ab \o c) = 1..(Len(ab) + Len(c))
      /\ \A i \in 1..Len(ab) : (ab \o c)[i] = ab[i]
      /\ \A i \in 1..Len(c) : (ab \o c)[Len(ab) + i] = c[i]
  BY <1>2, <1>7, Zenon
<1>4. Len(a) \in Nat /\ Len(b) \in Nat /\ Len(c) \in Nat
  OBVIOUS
<1>5. \A i \in 1..Len(a) : (ab \o c)[i] = a[i]
  BY <1>1, <1>2, <1>3, <1>4 DEF ab
<1>6. \A i \in 1..Len(b) : (ab \o c)[Len(a) + i] = b[i]
  BY <1>1, <1>2, <1>3, <1>4 DEF ab
<1> QED
  BY <1>2, <1>3, <1>5, <1>6 DEF ab, JoinsThree

\* Where the observations of a scope begin among all.
Before(scope) ==
    IF scope = "device" THEN 0
    ELSE IF scope = "model" THEN Len(windows["device"])
    ELSE Len(windows["device"]) + Len(windows["model"])

\* An observation the shared evaluator makes of a window.
Seen(scope, value) ==
    [value |-> value, deviceModel |-> Cohorts[scope].deviceModel,
     adapterVersion |-> Cohorts[scope].adapterVersion, workCategory |-> Null,
     source |-> "physical_device", synthetic |-> FALSE]

LEMMA SeenValue == \A scope, value : Seen(scope, value).value = value
BY DEF Seen

Sightings == {Seen(scope, value) : scope \in Scopes, value \in Int}

LEMMA ObservationsAreSeen ==
    ASSUME windows \in [Scopes -> Seq(Int)], NEW scope \in Scopes
    PROVE  /\ Observations(scope) \in Seq(Sightings)
           /\ Len(Observations(scope)) = Len(windows[scope])
           /\ \A i \in 1..Len(windows[scope]) : Observations(scope)[i] = Seen(scope, windows[scope][i])
<1>1. windows[scope] \in Seq(Int)
  OBVIOUS
<1>2. Observations(scope) = [i \in 1..Len(windows[scope]) |-> Seen(scope, windows[scope][i])]
  BY <1>1 DEF Observations, Seen
<1>3. \A i \in 1..Len(windows[scope]) : Seen(scope, windows[scope][i]) \in Sightings
  BY <1>1 DEF Sightings
<1> QED
  BY <1>1, <1>2, <1>3

\* Of all observations those of a scope are the ones that belong to its cohort.
LEMMA OwnObservations ==
    ASSUME windows \in [Scopes -> Seq(Int)]
    PROVE  LET all == Observations("device") \o Observations("model") \o Observations("fleet")
               d == Len(windows["device"])
               m == Len(windows["model"])
               f == Len(windows["fleet"])
           IN  /\ d \in Nat /\ m \in Nat /\ f \in Nat
               /\ DOMAIN all = 1..(d + m + f)
               /\ \A i \in 1..d : all[i] = Seen("device", windows["device"][i])
               /\ \A i \in 1..m : all[d + i] = Seen("model", windows["model"][i])
               /\ \A i \in 1..f : all[d + m + i] = Seen("fleet", windows["fleet"][i])
<1> DEFINE OD == Observations("device")
           OM == Observations("model")
           OF == Observations("fleet")
<1>1. /\ OD \in Seq(Sightings) /\ Len(OD) = Len(windows["device"])
      /\ OM \in Seq(Sightings) /\ Len(OM) = Len(windows["model"])
      /\ OF \in Seq(Sightings) /\ Len(OF) = Len(windows["fleet"])
      /\ \A i \in 1..Len(OD) : OD[i] = Seen("device", windows["device"][i])
      /\ \A i \in 1..Len(OM) : OM[i] = Seen("model", windows["model"][i])
      /\ \A i \in 1..Len(OF) : OF[i] = Seen("fleet", windows["fleet"][i])
  <2>1. "device" \in Scopes /\ "model" \in Scopes /\ "fleet" \in Scopes
    BY DEF Scopes
  <2>2. /\ OD \in Seq(Sightings) /\ Len(OD) = Len(windows["device"])
        /\ \A i \in 1..Len(windows["device"]) : OD[i] = Seen("device", windows["device"][i])
    BY <2>1, ObservationsAreSeen
  <2>3. /\ OM \in Seq(Sightings) /\ Len(OM) = Len(windows["model"])
        /\ \A i \in 1..Len(windows["model"]) : OM[i] = Seen("model", windows["model"][i])
    BY <2>1, ObservationsAreSeen
  <2>4. /\ OF \in Seq(Sightings) /\ Len(OF) = Len(windows["fleet"])
        /\ \A i \in 1..Len(windows["fleet"]) : OF[i] = Seen("fleet", windows["fleet"][i])
    BY <2>1, ObservationsAreSeen
  <2> HIDE DEF OD, OM, OF
  <2> QED
    BY <2>2, <2>3, <2>4
<1> HIDE DEF OD, OM, OF
<1>2. JoinsThree(OD \o OM \o OF, OD, OM, OF)
  BY <1>1, ThreeParts
<1>3. Len(OD) \in Nat /\ Len(OM) \in Nat /\ Len(OF) \in Nat
  BY <1>1
<1> QED
  BY <1>1, <1>2, <1>3 DEF OD, OM, OF, JoinsThree

\* Of all observations the shared evaluator takes those of the scope.
LEMMA BaselinesAreOfScopes ==
    ASSUME windows \in [Scopes -> Seq(Int)]
    PROVE  /\ DOMAIN Baselines = 1..3
           /\ \A t \in 1..3 : Baselines[t] = BaselineOf(Tiers[t])
<1> DEFINE d == Len(windows["device"])
           m == Len(windows["model"])
           f == Len(windows["fleet"])
           all == Observations("device") \o Observations("model") \o Observations("fleet")
           Belongs(scope, o) == /\ o.synthetic = Cohorts[scope].synthetic
                                /\ o.deviceModel = Cohorts[scope].deviceModel
                                /\ o.adapterVersion = Cohorts[scope].adapterVersion
                                /\ o.workCategory = Cohorts[scope].workCategory
                                /\ Cohorts[scope].source = "mixed" \/ o.source = Cohorts[scope].source
           Own(scope) == {i \in DOMAIN all : Belongs(scope, all[i])}
<1>1. d \in Nat /\ m \in Nat /\ f \in Nat
  BY OwnObservations
<1>2. DOMAIN all = 1..(d + m + f)
  BY OwnObservations
<1>3. /\ \A i \in 1..d : all[i] = Seen("device", windows["device"][i])
      /\ \A i \in 1..m : all[d + i] = Seen("model", windows["model"][i])
      /\ \A i \in 1..f : all[d + m + i] = Seen("fleet", windows["fleet"][i])
  BY OwnObservations
<1>4. \A scope, other \in Scopes : \A v : Belongs(scope, Seen(other, v)) <=> scope = other
  <2> SUFFICES ASSUME NEW scope \in Scopes, NEW other \in Scopes, NEW v
               PROVE  Belongs(scope, Seen(other, v)) <=> scope = other
    OBVIOUS
  <2> DEFINE o == Seen(other, v)
  <2>1. /\ o.deviceModel = Cohorts[other].deviceModel /\ o.adapterVersion = Cohorts[other].adapterVersion
        /\ o.workCategory = "null" /\ o.source = "physical_device" /\ o.synthetic = FALSE
    BY DEF Seen, Null
  <2> HIDE DEF o
  <2>2. Belongs(scope, o) <=> /\ o.deviceModel = Cohorts[scope].deviceModel
                              /\ o.adapterVersion = Cohorts[scope].adapterVersion
    BY <2>1, ScopesAreCohorts
  <2>3. /\ Cohorts[scope].deviceModel = Cohorts[other].deviceModel
        /\ Cohorts[scope].adapterVersion = Cohorts[other].adapterVersion
        => scope = other
    BY ScopesAreCohorts DEF Scopes
  <2> QED
    BY <2>1, <2>2, <2>3 DEF o
<1> HIDE DEF all, Belongs
<1>5. \A scope \in Scopes :
        Before(scope) = IF scope = "device" THEN 0 ELSE IF scope = "model" THEN d ELSE d + m
  BY DEF Before
<1>6. \A scope \in Scopes :
        Len(windows[scope]) = IF scope = "device" THEN d ELSE IF scope = "model" THEN m ELSE f
  BY DEF Scopes
<1> HIDE DEF d, m, f
<1>7. ASSUME NEW scope \in Scopes
      PROVE  Own(scope) = (Before(scope) + 1)..(Before(scope) + Len(windows[scope]))
  <2>1. \A i \in 1..d : Belongs(scope, all[i]) <=> scope = "device"
    BY <1>3, <1>4 DEF Scopes
  <2>2. \A i \in 1..m : Belongs(scope, all[d + i]) <=> scope = "model"
    BY <1>3, <1>4 DEF Scopes
  <2>3. \A i \in 1..f : Belongs(scope, all[d + m + i]) <=> scope = "fleet"
    BY <1>3, <1>4 DEF Scopes
  <2>4. ASSUME NEW i \in 1..(d + m + f)
        PROVE  Belongs(scope, all[i]) <=> IF i <= d THEN scope = "device"
                                          ELSE IF i <= d + m THEN scope = "model" ELSE scope = "fleet"
    <3>1. CASE i <= d
      BY <1>1, <2>1, <3>1
    <3>2. CASE i > d /\ i <= d + m
      <4>1. i - d \in 1..m /\ i = d + (i - d)
        BY <1>1, <3>2
      <4>2. Belongs(scope, all[i]) <=> scope = "model"
        BY <2>2, <4>1
      <4> QED
        BY <1>1, <3>2, <4>2
    <3>3. CASE i > d + m
      <4>1. i - (d + m) \in 1..f /\ i = d + m + (i - (d + m))
        BY <1>1, <3>3
      <4>2. Belongs(scope, all[i]) <=> scope = "fleet"
        BY <2>3, <4>1
      <4> QED
        BY <1>1, <3>3, <4>2
    <3> QED
      BY <1>1, <3>1, <3>2, <3>3
  <2>5. \A i : i \in Own(scope) <=> i \in 1..(d + m + f) /\ Belongs(scope, all[i])
    BY <1>2
  <2> HIDE DEF Own
  <2>6. CASE scope = "device"
    <3>1. Before(scope) = 0 /\ Len(windows[scope]) = d
      BY <1>5, <1>6, <2>6 DEF Scopes
    <3>2. \A i : i \in Own(scope) <=> i \in (0 + 1)..(0 + d)
      BY <1>1, <2>4, <2>5, <2>6
    <3> QED
      BY <3>1, <3>2
  <2>7. CASE scope = "model"
    <3>1. Before(scope) = d /\ Len(windows[scope]) = m
      BY <1>5, <1>6, <2>7 DEF Scopes
    <3>2. \A i : i \in Own(scope) <=> i \in (d + 1)..(d + m)
      BY <1>1, <2>4, <2>5, <2>7
    <3> QED
      BY <3>1, <3>2
  <2>8. CASE scope = "fleet"
    <3>1. Before(scope) = d + m /\ Len(windows[scope]) = f
      BY <1>5, <1>6, <2>8 DEF Scopes
    <3>2. \A i : i \in Own(scope) <=> i \in (d + m + 1)..(d + m + f)
      BY <1>1, <2>4, <2>5, <2>8
    <3> QED
      BY <3>1, <3>2
  <2> QED
    BY <2>6, <2>7, <2>8 DEF Scopes
<1>8. ASSUME NEW scope \in Scopes PROVE RobustBaseline(Cohorts[scope], all, BaselineSupport) = BaselineOf(scope)
  <2> DEFINE own == Kept(all, Own(scope))
             n == Len(windows[scope])
  <2>1. windows[scope] \in Seq(Int) /\ n \in Nat /\ DOMAIN windows[scope] = 1..n
    OBVIOUS
  <2>2. Before(scope) \in Nat
    BY <1>1, <1>5
  <2>3. \A k \in 1..n : all[Before(scope) + k].value = windows[scope][k]
    <3>1. CASE scope = "device"
      <4>1. Before(scope) = 0 /\ n = d
        BY <1>5, <1>6, <3>1 DEF Scopes
      <4>2. \A k \in 1..d : all[0 + k] = Seen(scope, windows[scope][k])
        BY <1>1, <1>3, <3>1
      <4>3. \A k \in 1..n : all[Before(scope) + k] = Seen(scope, windows[scope][k])
        BY <1>1, <4>1, <4>2
      <4> HIDE DEF n
      <4> QED
        BY <4>3, SeenValue
    <3>2. CASE scope = "model"
      <4>1. Before(scope) = d /\ n = m
        BY <1>5, <1>6, <3>2 DEF Scopes
      <4>2. \A k \in 1..m : all[d + k] = Seen(scope, windows[scope][k])
        BY <1>1, <1>3, <3>2
      <4>3. \A k \in 1..n : all[Before(scope) + k] = Seen(scope, windows[scope][k])
        BY <1>1, <4>1, <4>2
      <4> HIDE DEF n
      <4> QED
        BY <4>3, SeenValue
    <3>3. CASE scope = "fleet"
      <4>1. Before(scope) = d + m /\ n = f
        BY <1>5, <1>6, <3>3 DEF Scopes
      <4>2. \A k \in 1..f : all[d + m + k] = Seen(scope, windows[scope][k])
        BY <1>1, <1>3, <3>3
      <4>3. \A k \in 1..n : all[Before(scope) + k] = Seen(scope, windows[scope][k])
        BY <1>1, <4>1, <4>2
      <4> HIDE DEF n
      <4> QED
        BY <4>3, SeenValue
    <3> QED
      BY <3>1, <3>2, <3>3 DEF Scopes
  <2> HIDE DEF n, Own
  <2>4. own = [k \in 1..n |-> all[Before(scope) + k]]
    <3>1. Own(scope) = (Before(scope) + 1)..(Before(scope) + n)
      BY <1>7 DEF n
    <3>2. IsInterval(Kept(all, (Before(scope) + 1)..(Before(scope) + n)), all, Before(scope), n)
      BY <2>1, <2>2, KeptInterval
    <3> QED
      BY <3>1, <3>2 DEF IsInterval
  <2> HIDE DEF own
  <2>5. DOMAIN own = 1..n /\ \A k \in 1..n : own[k].value = windows[scope][k]
    BY <2>3, <2>4
  <2>6. [i \in DOMAIN own |-> own[i].value] = windows[scope]
    BY <2>1, <2>5
  <2>7. own = Kept(all, {i \in DOMAIN all : Belongs(scope, all[i])})
    BY DEF own, Own
  <2> QED
    BY <2>6, <2>7 DEF RobustBaseline, BaselineOf, Belongs
<1>9. Baselines = [t \in 1..3 |-> RobustBaseline(Cohorts[Tiers[t]], all, BaselineSupport)]
  BY ScopesAreCohorts DEF Baselines, all
<1> QED
  BY <1>8, <1>9, ScopesAreCohorts DEF Scopes

\* The first tier with enough windows, if there is one.
Enough(t) == Len(windows[Tiers[t]]) >= BaselineSupport
PriorTier == IF Enough(1) THEN 1 ELSE IF Enough(2) THEN 2 ELSE 3

LEMMA LeastOfOne == \A x \in Int : (CHOOSE i \in {x} : \A k \in {x} : i <= k) = x
OBVIOUS

LEMMA PriorIsOfTier ==
    ASSUME windows \in [Scopes -> Seq(Int)], StreamBounds
    PROVE  LET b == BaselineOf(IF \E t \in 1..3 : Enough(t) THEN Tiers[PriorTier] ELSE "device")
           IN  /\ PriorBaseline.fallback = IF \E t \in 1..3 : Enough(t) THEN TierName[Tiers[PriorTier]]
                                           ELSE "insufficient_data"
               /\ PriorBaseline.sampleCount = b.sampleCount /\ PriorBaseline.median2 = b.median2
               /\ PriorBaseline.deviation4 = b.deviation4
               /\ PriorBaseline.p25 = b.p25 /\ PriorBaseline.p75 = b.p75
<1> DEFINE supported == {i \in DOMAIN Tiers : Len(windows[Tiers[i]]) >= BaselineSupport}
           tier == IF supported = {} THEN "device"
                   ELSE Tiers[CHOOSE i \in supported : \A k \in supported : i <= k]
           b == BaselineOf(tier)
<1>1. /\ PriorBaseline.fallback = IF supported = {} THEN "insufficient_data" ELSE TierName[tier]
      /\ PriorBaseline.sampleCount = Len(windows[tier]) /\ PriorBaseline.median2 = Median2(windows[tier])
      /\ PriorBaseline.deviation4 = Deviation4(windows[tier], Median2(windows[tier]))
      /\ PriorBaseline.p25 = Percentile100(windows[tier], 25)
      /\ PriorBaseline.p75 = Percentile100(windows[tier], 75)
  BY DEF PriorBaseline
<1>2. supported = {t \in 1..3 : Enough(t)}
  BY ScopesAreCohorts DEF Enough
<1>3. supported # {} => (CHOOSE i \in supported : \A k \in supported : i <= k) = PriorTier
  <2> SUFFICES ASSUME supported # {} PROVE (CHOOSE i \in supported : \A k \in supported : i <= k) = PriorTier
    OBVIOUS
  <2>1. PriorTier \in supported /\ supported \subseteq Int /\ \A k \in supported : PriorTier <= k
    BY <1>2 DEF PriorTier
  <2> HIDE DEF supported
  <2>2. \A i \in supported : (\A k \in supported : i <= k) => i = PriorTier
    BY <2>1
  <2> QED
    BY <2>1, <2>2
<1>4. tier = IF \E t \in 1..3 : Enough(t) THEN Tiers[PriorTier] ELSE "device"
  BY <1>2, <1>3
<1> HIDE DEF supported, tier
<1>5. /\ b.sampleCount = Len(windows[tier]) /\ b.median2 = Median2(windows[tier])
      /\ b.deviation4 = Deviation4(windows[tier], Median2(windows[tier]))
      /\ b.p25 = Percentile100(windows[tier], 25) /\ b.p75 = Percentile100(windows[tier], 75)
  BY DEF BaselineOf
<1>6. (supported = {}) <=> ~ \E t \in 1..3 : Enough(t)
  BY <1>2
<1> QED
  BY <1>1, <1>4, <1>5, <1>6

LEMMA BaselineFields ==
    \A scope :
      /\ BaselineOf(scope).cohort = Cohorts[scope]
      /\ BaselineOf(scope).sampleCount = Len(windows[scope])
      /\ BaselineOf(scope).active <=> Len(windows[scope]) >= BaselineSupport
      /\ BaselineOf(scope).supported <=> Len(windows[scope]) >= BaselineSupport
BY DEF BaselineOf

\* The shared evaluator selects the baseline of the same tier.
LEMMA SelectionAgrees ==
    ASSUME windows \in [Scopes -> Seq(Int)], StreamBounds
    PROVE  SelectBaseline(Baselines, Cohorts["device"])
           = IF \E t \in 1..3 : Enough(t)
             THEN Used(<<BaselineOf(Tiers[PriorTier])>>, TierName[Tiers[PriorTier]])
             ELSE Used(<<>>, "insufficient_data")
<1> DEFINE requested == Cohorts["device"]
           Active(b)  == /\ b.active
                         /\ b.cohort.metric = requested.metric
                         /\ b.cohort.synthetic = requested.synthetic
           Exact(b)   == Active(b) /\ b.sampleCount > 0 /\ b.cohort = requested
           Broader(b) == Active(b) /\ Broadens(b.cohort, requested)
           Model(b)   == Broader(b) /\ requested.deviceModel # Null
                         /\ b.cohort.deviceModel = requested.deviceModel
           Fleet(b)   == Active(b) /\ IsFleet(b.cohort, requested)
           First(I)   == IF I = {} THEN <<>> ELSE <<Baselines[CHOOSE i \in I : \A k \in I : i <= k]>>
           E == {i \in DOMAIN Baselines : Exact(Baselines[i])}
           M == {i \in DOMAIN Baselines : Model(Baselines[i])}
           B == {i \in DOMAIN Baselines : Broader(Baselines[i])}
           F == {i \in DOMAIN Baselines : Fleet(Baselines[i])}
           broader == IF First(M) # <<>> THEN First(M) ELSE First(B)
<1>1. SelectBaseline(Baselines, requested)
      = IF First(E) # <<>> THEN Used(First(E), "exact_supported_cohort")
        ELSE IF Counts(broader) THEN Used(broader, "broader_model_adapter_cohort")
        ELSE IF Counts(First(F)) THEN Used(First(F), "fleet_cohort")
        ELSE Used(<<>>, "insufficient_data")
  BY DEF SelectBaseline, FirstOf
<1>2. DOMAIN Baselines = 1..3 /\ \A t \in 1..3 : Baselines[t] = BaselineOf(Tiers[t])
  BY BaselinesAreOfScopes
<1>3. \A t \in 1..3 : /\ Baselines[t].cohort = Cohorts[Tiers[t]]
                      /\ Baselines[t].sampleCount = Len(windows[Tiers[t]])
                      /\ Baselines[t].active <=> Enough(t)
  BY <1>2, BaselineFields DEF Enough
<1>4. \A t \in 1..3 : Len(windows[Tiers[t]]) \in Nat /\ (Enough(t) => Len(windows[Tiers[t]]) > 0)
  BY ScopesAreCohorts DEF Scopes, Enough, StreamBounds
<1>5. \A t \in 1..3 : Active(Baselines[t]) <=> Enough(t)
  <2> SUFFICES ASSUME NEW t \in 1..3 PROVE Active(Baselines[t]) <=> Enough(t)
    OBVIOUS
  <2>1. Tiers[t] \in Scopes /\ "device" \in Scopes
    BY ScopesAreCohorts DEF Scopes
  <2>2. Cohorts[Tiers[t]].metric = requested.metric
    BY <2>1, ScopesAreCohorts
  <2>3. Cohorts[Tiers[t]].synthetic = requested.synthetic
    BY <2>1, ScopesAreCohorts, Zenon
  <2> HIDE DEF requested
  <2> QED
    BY <1>3, <2>2, <2>3, Zenon
<1> HIDE DEF Active
<1>6. Cohorts["model"] # Cohorts["device"] /\ Cohorts["fleet"] # Cohorts["device"]
  BY ScopesAreCohorts
<1>7. E = {t \in {1} : Enough(t)}
  BY <1>2, <1>3, <1>4, <1>5, <1>6, ScopesAreCohorts
<1>8. \A t \in 1..3 : Broadens(Cohorts[Tiers[t]], requested) <=> t # 3
  BY ScopesAreCohorts DEF Broadens, Scopes, Null
<1>9. M = {t \in {1, 2} : Enough(t)} /\ B = M
  BY <1>2, <1>3, <1>5, <1>8, ScopesAreCohorts DEF Null
<1>10. \A t \in 1..3 : IsFleet(Cohorts[Tiers[t]], requested) <=> t = 3
  BY ScopesAreCohorts DEF IsFleet, Scopes, Null
<1>11. F = {t \in {3} : Enough(t)}
  BY <1>2, <1>3, <1>5, <1>10
<1> HIDE DEF E, M, B, F, requested
<1>12. \A t \in 1..3 : First({t}) = <<BaselineOf(Tiers[t])>> /\ First({}) = <<>>
  BY <1>2, LeastOfOne
<1>13. \A t \in 1..3 : /\ <<BaselineOf(Tiers[t])>> # <<>>
                       /\ Enough(t) => Counts(<<BaselineOf(Tiers[t])>>)
  BY <1>4, BaselineFields DEF Counts
<1>14. ~ Counts(<<>>)
  BY DEF Counts
<1> HIDE DEF First
<1>15. CASE Enough(1)
  <2>1. E = {1} /\ PriorTier = 1 /\ TierName[Tiers[1]] = "exact_supported_cohort"
    BY <1>7, <1>15, ScopesAreCohorts DEF PriorTier, TierName
  <2>2. First(E) = <<BaselineOf(Tiers[1])>> /\ First(E) # <<>> /\ \E t \in 1..3 : Enough(t)
    <3>1. 1 \in 1..3
      OBVIOUS
    <3>2. First(E) = <<BaselineOf(Tiers[1])>>
      BY <1>12, <2>1, <3>1
    <3>3. First(E) # <<>>
      BY <1>13, <3>1, <3>2
    <3> QED
      BY <1>15, <3>1, <3>2, <3>3
  <2> QED
    BY <1>1, <2>1, <2>2 DEF requested
<1>16. CASE ~ Enough(1) /\ Enough(2)
  <2>1. /\ E = {} /\ M = {2} /\ PriorTier = 2
        /\ TierName[Tiers[2]] = "broader_model_adapter_cohort"
    BY <1>7, <1>9, <1>16, ScopesAreCohorts DEF PriorTier, TierName
  <2>2. First(E) = <<>> /\ First(M) = <<BaselineOf(Tiers[2])>> /\ First(M) # <<>>
    <3>1. 2 \in 1..3
      OBVIOUS
    <3>2. First({2}) = <<BaselineOf(Tiers[2])>> /\ <<BaselineOf(Tiers[2])>> # <<>> /\ First({}) = <<>>
      BY <1>12, <1>13, <3>1, Zenon
    <3> QED
      BY <2>1, <3>2, Zenon
  <2>3. broader = <<BaselineOf(Tiers[2])>> /\ Counts(<<BaselineOf(Tiers[2])>>)
    BY <1>13, <1>16, <2>2
  <2>4. \E t \in 1..3 : Enough(t)
    BY <1>16
  <2> HIDE DEF broader
  <2> QED
    BY <1>1, <2>1, <2>2, <2>3, <2>4 DEF requested
<1>17. CASE ~ Enough(1) /\ ~ Enough(2) /\ Enough(3)
  <2>1. /\ E = {} /\ M = {} /\ B = {} /\ F = {3} /\ PriorTier = 3
        /\ TierName[Tiers[3]] = "fleet_cohort"
    BY <1>7, <1>9, <1>11, <1>17, ScopesAreCohorts DEF PriorTier, TierName
  <2> QED
    BY <1>1, <1>12, <1>13, <1>14, <1>17, <2>1 DEF requested
<1>18. CASE ~ Enough(1) /\ ~ Enough(2) /\ ~ Enough(3)
  <2>1. E = {} /\ M = {} /\ B = {} /\ F = {} /\ ~ \E t \in 1..3 : Enough(t)
    BY <1>7, <1>9, <1>11, <1>18
  <2> QED
    BY <1>1, <1>12, <1>14, <2>1 DEF requested
<1> QED
  BY <1>15, <1>16, <1>17, <1>18

\* What both evaluators conclude of a scored window, apart from how the
\* windows before it looked.
Baseline == BaselineOf(IF \E t \in 1..3 : Enough(t) THEN Tiers[PriorTier] ELSE "device")
Scored(samples) ==
    /\ \E t \in 1..3 : Enough(t)
    /\ samples >= CurrentSupport
    /\ Baseline.deviation4 > 0 \/ Baseline.p75 - Baseline.p25 > 0

LEMMA BaselineIsNumbers ==
    ASSUME windows \in [Scopes -> Seq(Int)]
    PROVE  /\ Baseline.median2 \in Int /\ Baseline.deviation4 \in Nat
           /\ Baseline.p25 \in Int /\ Baseline.p75 \in Int /\ Baseline.sampleCount \in Nat
<1> DEFINE scope == IF \E t \in 1..3 : Enough(t) THEN Tiers[PriorTier] ELSE "device"
<1>1. scope \in Scopes
  BY ScopesAreCohorts DEF Scopes, PriorTier
<1> HIDE DEF scope
<1>2. windows[scope] \in Seq(Int)
  BY <1>1
<1>3. /\ Median2(windows[scope]) \in Int
      /\ Deviation4(windows[scope], Median2(windows[scope])) \in Nat
      /\ Percentile100(windows[scope], 25) \in Int /\ Percentile100(windows[scope], 75) \in Int
      /\ Len(windows[scope]) \in Nat
  <2>1. Median2(windows[scope]) \in Int
    BY <1>2, MedianIsNumber
  <2>2. Deviation4(windows[scope], Median2(windows[scope])) \in Nat
    BY <1>2, <2>1, DeviationIsNatural
  <2>3. Percentile100(windows[scope], 25) \in Int /\ Percentile100(windows[scope], 75) \in Int
    BY <1>2, PercentileIsNumber
  <2> QED
    BY <1>2, <2>1, <2>2, <2>3
<1>4. /\ BaselineOf(scope).median2 = Median2(windows[scope])
      /\ BaselineOf(scope).deviation4 = Deviation4(windows[scope], Median2(windows[scope]))
      /\ BaselineOf(scope).p25 = Percentile100(windows[scope], 25)
      /\ BaselineOf(scope).p75 = Percentile100(windows[scope], 75)
      /\ BaselineOf(scope).sampleCount = Len(windows[scope])
  BY DEF BaselineOf
<1> QED
  BY <1>3, <1>4 DEF Baseline, scope

\* The score of a value, as a fraction with a denominator that is no
\* negative number.
LEMMA ScoresAgree ==
    ASSUME windows \in [Scopes -> Seq(Int)], StreamBounds,
           NEW value \in Int, NEW samples \in Int, Scored(samples)
    PROVE  LET database == DatabaseScore(value, PriorBaseline)
               answer == RobustScore(value, Baseline, "high_bad", samples)
           IN  /\ answer.status = "scored"
               /\ answer.num = database.num /\ answer.den = database.den
               /\ database.num \in Int /\ database.den \in Nat
<1> DEFINE b == PriorBaseline
           d == 2 * value - Baseline.median2
           range == Baseline.p75 - Baseline.p25
           database == DatabaseScore(value, b)
           answer == RobustScore(value, Baseline, "high_bad", samples)
<1>1. /\ b.sampleCount = Baseline.sampleCount /\ b.median2 = Baseline.median2
      /\ b.deviation4 = Baseline.deviation4 /\ b.p25 = Baseline.p25 /\ b.p75 = Baseline.p75
  BY PriorIsOfTier DEF Baseline
<1>2. /\ Baseline.median2 \in Int /\ Baseline.deviation4 \in Nat
      /\ Baseline.p25 \in Int /\ Baseline.p75 \in Int /\ Baseline.sampleCount \in Nat
  BY BaselineIsNumbers
<1>3. samples > 0 /\ Baseline.supported /\ Baseline.sampleCount > 0
  <2>1. Baseline = BaselineOf(Tiers[PriorTier]) /\ Enough(PriorTier)
    BY DEF Scored, Baseline, PriorTier
  <2> QED
    BY <1>2, <2>1, BaselineFields DEF Scored, StreamBounds, Enough
<1>4. Definition.direction = "high_bad"
  BY DEF Definition
<1>5. \A n \in Int : Directed(n, "high_bad") \in Int
  BY DEF Directed
<1> HIDE DEF b
<1>6. d \in Int
  BY <1>2
<1>7. CASE Baseline.deviation4 > 0
  <2>1. FallbackStatistic(b) = "mad"
    BY <1>1, <1>7 DEF FallbackStatistic
  <2>2. database = [num |-> Directed(6745 * 2 * d, "high_bad"), den |-> 10000 * Baseline.deviation4]
    BY <1>1, <1>4, <2>1 DEF DatabaseScore
  <2>3. answer = [status |-> "scored", fallback |-> "mad",
                  num |-> Directed(6745 * 2 * d, "high_bad"), den |-> 10000 * Baseline.deviation4]
    BY <1>2, <1>3, <1>7 DEF RobustScore
  <2>4. Directed(6745 * 2 * d, "high_bad") \in Int /\ 10000 * Baseline.deviation4 \in Nat
    <3> HIDE DEF d
    <3>1. 6745 * 2 * d \in Int
      BY <1>6
    <3> QED
      <4> DEFINE deviation == Baseline.deviation4
                 product == 6745 * 2 * d
      <4>1. deviation \in Nat
        BY <1>2
      <4> HIDE DEF deviation
      <4>2. 10000 * deviation \in Nat
        BY <4>1
      <4>3. product \in Int
        BY <3>1
      <4> HIDE DEF product
      <4>4. Directed(product, "high_bad") \in Int
        BY <1>5, <4>3
      <4> QED
        BY <4>2, <4>4 DEF deviation, product
  <2> HIDE DEF database, answer, d
  <2>5. /\ answer.status = "scored" /\ answer.num = database.num /\ answer.den = database.den
        /\ database.num \in Int /\ database.den \in Nat
    BY <2>2, <2>3, <2>4
  <2> QED
    BY <2>5 DEF database, answer, b
<1>8. CASE ~(Baseline.deviation4 > 0)
  <2>1. Baseline.deviation4 = 0 /\ range > 0 /\ range \in Int
    BY <1>2, <1>8 DEF Scored
  <2>2. FallbackStatistic(b) = "iqr"
    BY <1>1, <2>1 DEF FallbackStatistic
  <2>3. database = [num |-> Directed(9099 * d, "high_bad"), den |-> 200 * range]
    BY <1>1, <1>4, <2>2 DEF DatabaseScore
  <2>4. answer = [status |-> "scored", fallback |-> "iqr",
                  num |-> Directed(9099 * d, "high_bad"), den |-> 200 * range]
    BY <1>2, <1>3, <2>1 DEF RobustScore
  <2>5. Directed(9099 * d, "high_bad") \in Int /\ 200 * range \in Nat
    <3> HIDE DEF d, range
    <3>1. 9099 * d \in Int
      BY <1>6
    <3> QED
      BY <1>5, <2>1, <3>1
  <2> HIDE DEF database, answer, d, range
  <2>6. /\ answer.status = "scored" /\ answer.num = database.num /\ answer.den = database.den
        /\ database.num \in Int /\ database.den \in Nat
    BY <2>3, <2>4, <2>5
  <2> QED
    BY <2>6 DEF database, answer, b
<1> QED
  BY <1>7, <1>8

\* What the two evaluators say of the next window.
LastIsAnomalous == evaluations # <<>> /\ evaluations[Len(evaluations)].anomalous

LEMMA ConsecutiveIsRun ==
    ASSUME StreamTypeOK, NEW anomalous \in BOOLEAN
    PROVE  Consecutive(anomalous) = IF anomalous /\ ~ LastIsAnomalous THEN 1 ELSE 2
<1> DEFINE n == Len(evaluations)
           recent == {i \in (IF n < 2 THEN 1 ELSE n - 2 + 2)..n : evaluations[i].anomalous}
<1>1. n \in Nat /\ (evaluations = <<>> <=> n = 0)
  BY DEF StreamTypeOK
<1>2. Consecutive(anomalous) = IF anomalous THEN 1 + Cardinality(recent) ELSE 2
  BY DEF Consecutive, Definition
<1> HIDE DEF n
<1>3. recent = IF n # 0 /\ evaluations[n].anomalous THEN {n} ELSE {}
  BY <1>1
<1>4. Cardinality({n}) = 1 /\ Cardinality({}) = 0
  BY FS_Singleton, FS_EmptySet
<1> HIDE DEF recent
<1>5. LastIsAnomalous <=> n # 0 /\ evaluations[n].anomalous
  BY <1>1 DEF LastIsAnomalous, n
<1>6. CASE LastIsAnomalous
  BY <1>2, <1>3, <1>4, <1>5, <1>6
<1>7. CASE ~ LastIsAnomalous
  BY <1>2, <1>3, <1>4, <1>5, <1>7
<1> QED
  BY <1>6, <1>7

\* The state of a score after so many anomalous windows.
StateOf(score, previous, consecutive) ==
    IF consecutive < 2 THEN IF score.num >= 2 * score.den THEN "watch" ELSE "normal"
    ELSE IF score.num >= 3 * score.den THEN "investigate"
    ELSE IF previous = "investigate" /\ score.num >= 2 * score.den THEN "watch"
    ELSE "normal"

\* What both say, from a score both compute.
Opens(value, samples) ==
    Scored(samples) /\ DatabaseScore(value, PriorBaseline).num >= 3 * DatabaseScore(value, PriorBaseline).den
Verdict(value, samples) ==
    IF Scored(samples)
    THEN StateOf(DatabaseScore(value, PriorBaseline), Previous,
                 IF Opens(value, samples) /\ ~ LastIsAnomalous THEN 1 ELSE 2)
    ELSE "insufficient_data"

LEMMA DatabaseSays ==
    ASSUME StreamTypeOK, StreamBounds, NEW value \in Int, NEW samples \in Int
    PROVE  LET e == DatabaseEvaluation(value, samples)
           IN  /\ e.anomalous = Opens(value, samples) /\ e.state = Verdict(value, samples)
               /\ e.fallback = PriorBaseline.fallback
<1> DEFINE b == PriorBaseline
           supported == /\ b.sampleCount >= BaselineSupport
                        /\ samples >= CurrentSupport
                        /\ FallbackStatistic(b) # "none"
           score == DatabaseScore(value, b)
           anomalous == supported /\ AtLeast(score, 3)
           e == DatabaseEvaluation(value, samples)
<1>1. windows \in [Scopes -> Seq(Int)]
  BY DEF StreamTypeOK
<1>2. /\ b.sampleCount = Baseline.sampleCount /\ b.deviation4 = Baseline.deviation4
      /\ b.p25 = Baseline.p25 /\ b.p75 = Baseline.p75
  BY <1>1, PriorIsOfTier DEF Baseline
<1>3. b.sampleCount >= BaselineSupport <=> \E t \in 1..3 : Enough(t)
  <2>1. CASE \E t \in 1..3 : Enough(t)
    <3>1. Baseline = BaselineOf(Tiers[PriorTier]) /\ Enough(PriorTier)
      BY <2>1 DEF Baseline, PriorTier
    <3> QED
      BY <1>2, <2>1, <3>1, BaselineFields DEF Enough
  <2>2. CASE ~ \E t \in 1..3 : Enough(t)
    <3>1. Baseline = BaselineOf("device") /\ ~ Enough(1)
      BY <2>2 DEF Baseline
    <3> QED
      BY <1>2, <2>2, <3>1, BaselineFields, ScopesAreCohorts DEF Enough
  <2> QED
    BY <2>1, <2>2
<1>4. FallbackStatistic(b) # "none" <=> Baseline.deviation4 > 0 \/ Baseline.p75 - Baseline.p25 > 0
  BY <1>2 DEF FallbackStatistic
<1>5. supported <=> Scored(samples)
  BY <1>3, <1>4 DEF Scored
<1>6. e = [anomalous |-> anomalous, fallback |-> b.fallback,
           state |-> DatabaseState(score, Previous, Consecutive(anomalous), supported)]
  BY DEF DatabaseEvaluation, Definition
<1> HIDE DEF supported, b, score
<1>7. anomalous = Opens(value, samples)
  BY <1>5 DEF Opens, AtLeast, score, b
<1> HIDE DEF anomalous
<1>8. anomalous \in BOOLEAN
  BY <1>7 DEF Opens
<1>9. Consecutive(anomalous) = IF anomalous /\ ~ LastIsAnomalous THEN 1 ELSE 2
  BY <1>8, ConsecutiveIsRun
<1>10. DatabaseState(score, Previous, Consecutive(anomalous), supported)
       = IF supported THEN StateOf(score, Previous, Consecutive(anomalous)) ELSE "insufficient_data"
  BY DEF DatabaseState, StateOf, Definition, AtLeast
<1>11. DatabaseState(score, Previous, Consecutive(anomalous), supported) = Verdict(value, samples)
  BY <1>5, <1>7, <1>9, <1>10, Zenon DEF Verdict, score, b
<1> HIDE DEF e
<1>12. e.anomalous = anomalous /\ e.fallback = b.fallback
       /\ e.state = DatabaseState(score, Previous, Consecutive(anomalous), supported)
  BY <1>6, Zenon
<1> QED
  BY <1>7, <1>11, <1>12, Zenon DEF b, e

LEMMA SharedSays ==
    ASSUME StreamTypeOK, SideBySide, StreamBounds, NEW value \in Int, NEW samples \in Int
    PROVE  LET e == SharedEvaluation(value, samples)
           IN  /\ e.opens = Opens(value, samples) /\ e.state = Verdict(value, samples)
               /\ e.fallback = PriorBaseline.fallback
<1> DEFINE selection == SelectBaseline(Baselines, Cohorts["device"])
           previous == IF shared = <<>> THEN "none" ELSE shared[Len(shared)].state
           Judge(n) == EvaluateSignal(Definition, value, samples, selection, previous, n)
           alone == Judge(2)
           opens == alone.score.status = "scored" /\ AtLeast(alone.score, 3)
           run == IF ~ opens THEN 2 ELSE IF shared # <<>> /\ shared[Len(shared)].opens THEN 2 ELSE 1
           e == SharedEvaluation(value, samples)
           score == DatabaseScore(value, PriorBaseline)
<1>1. windows \in [Scopes -> Seq(Int)]
  BY DEF StreamTypeOK
<1>2. e = [state |-> Judge(run).state, fallback |-> selection.fallback, opens |-> opens]
  BY DEF SharedEvaluation, Definition, Last
<1>3. selection = IF \E t \in 1..3 : Enough(t)
                  THEN Used(<<Baseline>>, TierName[Tiers[PriorTier]])
                  ELSE Used(<<>>, "insufficient_data")
  BY <1>1, SelectionAgrees DEF Baseline
<1>4. selection.fallback = PriorBaseline.fallback
  <2>1. selection.fallback = IF \E t \in 1..3 : Enough(t) THEN TierName[Tiers[PriorTier]] ELSE "insufficient_data"
    BY <1>3 DEF Used
  <2> QED
    BY <1>1, <2>1, PriorIsOfTier
<1> HIDE DEF selection
<1> DEFINE scored == IF /\ samples >= CurrentSupport /\ selection.baseline # <<>>
                        /\ selection.baseline[1].sampleCount >= BaselineSupport
                     THEN RobustScore(value, selection.baseline[1], "high_bad", samples)
                     ELSE NoScore("insufficient_data")
<1>5. \A n : /\ Judge(n).score = scored
             /\ Judge(n).state = IF scored.status = "scored"
                                 THEN SignalStateFromScore(scored, Definition, previous, n)
                                 ELSE "insufficient_data"
  BY DEF EvaluateSignal, Definition
<1>6. \A n \in Int : SignalStateFromScore(scored, Definition, previous, n) = StateOf(scored, previous, n)
  BY DEF SignalStateFromScore, StateOf, Definition, AtLeast
<1>7. opens <=> scored.status = "scored" /\ scored.num >= 3 * scored.den
  BY <1>5 DEF AtLeast
<1>8. /\ previous = Previous
      /\ shared # <<>> /\ shared[Len(shared)].opens <=> LastIsAnomalous
  <2>1. Len(shared) = Len(evaluations) /\ Len(shared) \in Nat /\ DOMAIN evaluations = 1..Len(evaluations)
        /\ (shared = <<>> <=> Len(shared) = 0) /\ (evaluations = <<>> <=> Len(evaluations) = 0)
    BY DEF StreamTypeOK
  <2>2. CASE Len(shared) = 0
    BY <2>1, <2>2 DEF Previous, LastIsAnomalous
  <2>3. CASE Len(shared) # 0
    <3>1. Len(evaluations) \in DOMAIN evaluations
      BY <2>1, <2>3
    <3>2. /\ evaluations[Len(evaluations)].state = shared[Len(evaluations)].state
          /\ evaluations[Len(evaluations)].anomalous = shared[Len(evaluations)].opens
      BY <3>1, Zenon DEF SideBySide
    <3> QED
      BY <2>1, <2>3, <3>2, Zenon DEF Previous, LastIsAnomalous, Last
  <2> QED
    BY <2>2, <2>3
<1> HIDE DEF Judge, scored, opens, previous
<1>9. run = IF opens /\ ~ LastIsAnomalous THEN 1 ELSE 2
  BY <1>8, Zenon
<1>10. ASSUME opens = Opens(value, samples), Judge(run).state = Verdict(value, samples)
       PROVE  LET a == SharedEvaluation(value, samples)
              IN  /\ a.opens = Opens(value, samples) /\ a.state = Verdict(value, samples)
                  /\ a.fallback = PriorBaseline.fallback
  <2> HIDE DEF e, run
  <2>1. e.state = Judge(run).state /\ e.fallback = selection.fallback /\ e.opens = opens
    BY <1>2, Zenon
  <2> QED
    BY <1>4, <1>10, <2>1, Zenon DEF e
<1>11. CASE Scored(samples)
  <2>1. selection = Used(<<Baseline>>, TierName[Tiers[PriorTier]]) /\ samples >= CurrentSupport
    BY <1>3, <1>11 DEF Scored
  <2>2. selection.baseline # <<>> /\ selection.baseline[1] = Baseline
    BY <2>1 DEF Used
  <2>3. Baseline.sampleCount >= BaselineSupport
    <3>1. Baseline = BaselineOf(Tiers[PriorTier]) /\ Enough(PriorTier)
      BY <1>11 DEF Scored, Baseline, PriorTier
    <3> QED
      BY <3>1, BaselineFields DEF Enough
  <2>4. scored = RobustScore(value, Baseline, "high_bad", samples)
    BY <2>1, <2>2, <2>3 DEF scored
  <2>5. scored.status = "scored" /\ scored.num = score.num /\ scored.den = score.den
    BY <1>1, <1>11, <2>4, ScoresAgree
  <2>6. opens = Opens(value, samples)
    <3> HIDE DEF score
    <3>1. opens \in BOOLEAN /\ (opens <=> score.num >= 3 * score.den)
      BY <1>7, <2>5 DEF opens
    <3>2. Opens(value, samples) \in BOOLEAN /\ (Opens(value, samples) <=> score.num >= 3 * score.den)
      BY <1>11 DEF Opens, score
    <3>3. opens <=> Opens(value, samples)
      BY <3>1, <3>2, Zenon
    <3> QED
      BY <3>1, <3>2, <3>3, Zenon
  <2>7. \A n : StateOf(scored, previous, n) = StateOf(score, previous, n)
    BY <2>5 DEF StateOf
  <2>8. run \in Int
    BY <1>9
  <2>9. Judge(run).state = StateOf(score, Previous, run)
    <3> HIDE DEF run, score
    <3> QED
      BY <1>5, <1>6, <1>8, <2>5, <2>7, <2>8
  <2>10. Judge(run).state = Verdict(value, samples)
    <3>1. run = IF Opens(value, samples) /\ ~ LastIsAnomalous THEN 1 ELSE 2
      BY <1>9, <2>6, Zenon
    <3> HIDE DEF run
    <3> QED
      BY <1>11, <2>9, <3>1, Zenon DEF Verdict, score
  <2> QED
    BY <1>10, <2>6, <2>10
<1>12. CASE ~ Scored(samples)
  <2>1. scored.status # "scored"
    <3>1. CASE ~ (samples >= CurrentSupport /\ \E t \in 1..3 : Enough(t))
      <4>1. scored = NoScore("insufficient_data")
        BY <1>3, <3>1 DEF scored, Used
      <4> QED
        BY <4>1 DEF NoScore
    <3>2. CASE samples >= CurrentSupport /\ \E t \in 1..3 : Enough(t)
      <4>1. ~(Baseline.deviation4 > 0) /\ ~(Baseline.p75 - Baseline.p25 > 0)
        BY <1>12, <3>2 DEF Scored
      <4>2. Baseline.deviation4 = 0
        BY <1>1, <4>1, BaselineIsNumbers
      <4>3. scored = NoScore("insufficient_data") \/ scored = RobustScore(value, Baseline, "high_bad", samples)
        BY <1>3, <3>2 DEF scored, Used
      <4>4. RobustScore(value, Baseline, "high_bad", samples)
            \in {NoScore("insufficient_data"), NoScore("insufficient_variation")}
        BY <4>1, <4>2 DEF RobustScore
      <4>5. NoScore("insufficient_data").status # "scored" /\ NoScore("insufficient_variation").status # "scored"
        BY DEF NoScore
      <4> QED
        BY <4>3, <4>4, <4>5
    <3> QED
      BY <3>1, <3>2
  <2>2. opens = Opens(value, samples)
    <3>1. opens \in BOOLEAN /\ ~ opens
      BY <1>7, <2>1 DEF opens
    <3>2. Opens(value, samples) = FALSE
      BY <1>12 DEF Opens
    <3> QED
      BY <3>1, <3>2, Zenon
  <2>3. Judge(run).state = Verdict(value, samples)
    <3> HIDE DEF run
    <3> QED
      BY <1>5, <1>12, <2>1, Zenon DEF Verdict
  <2> QED
    BY <1>10, <2>2, <2>3
<1> QED
  BY <1>11, <1>12

\* The verdict on an anomalous window is shown, and it is to investigate only
\* after another one.
LEMMA VerdictFollows ==
    ASSUME StreamTypeOK, StreamBounds, NEW value \in Int, NEW samples \in Int
    PROVE  /\ Verdict(value, samples) \in States
           /\ Opens(value, samples) \in BOOLEAN
           /\ Opens(value, samples) => OperationallyActionable(Verdict(value, samples))
           /\ Verdict(value, samples) = "investigate" => Opens(value, samples) /\ LastIsAnomalous
<1> DEFINE score == DatabaseScore(value, PriorBaseline)
           run == IF Opens(value, samples) /\ ~ LastIsAnomalous THEN 1 ELSE 2
<1>1. CASE Scored(samples)
  <2>1. score.num \in Int /\ score.den \in Nat
    BY <1>1, ScoresAgree DEF StreamTypeOK
  <2>2. Verdict(value, samples) = StateOf(score, Previous, run)
    BY <1>1 DEF Verdict
  <2>3. Opens(value, samples) <=> score.num >= 3 * score.den
    BY <1>1 DEF Opens
  <2> HIDE DEF score
  <2>4. CASE Opens(value, samples) /\ ~ LastIsAnomalous
    BY <2>1, <2>2, <2>3, <2>4 DEF StateOf, States, OperationallyActionable, Opens
  <2>5. CASE ~(Opens(value, samples) /\ ~ LastIsAnomalous)
    BY <2>1, <2>2, <2>3, <2>5 DEF StateOf, States, OperationallyActionable, Opens
  <2> QED
    BY <2>4, <2>5
<1>2. CASE ~ Scored(samples)
  BY <1>2 DEF Verdict, Opens, States
<1> QED
  BY <1>1, <1>2

LEMMA StreamInitially == StreamInit => StreamInv
BY ScopesAreCohorts DEF StreamInit, StreamInv, StreamTypeOK, SideBySide, AnomalousIsShown, InvestigationNeedsARun,
   Scopes

LEMMA FallbackIsName == StreamTypeOK /\ StreamBounds => PriorBaseline.fallback \in Fallbacks
<1> SUFFICES ASSUME StreamTypeOK, StreamBounds PROVE PriorBaseline.fallback \in Fallbacks
  OBVIOUS
<1>1. PriorBaseline.fallback = IF \E t \in 1..3 : Enough(t) THEN TierName[Tiers[PriorTier]] ELSE "insufficient_data"
  BY PriorIsOfTier DEF StreamTypeOK
<1>2. TierName["device"] = "exact_supported_cohort"
  BY DEF TierName
<1>3. TierName["model"] = "broader_model_adapter_cohort"
  BY DEF TierName
<1>4. TierName["fleet"] = "fleet_cohort"
  BY DEF TierName
<1>5. Tiers[PriorTier] \in {"device", "model", "fleet"}
  BY ScopesAreCohorts DEF PriorTier
<1>6. \A t \in {"device", "model", "fleet"} : TierName[t] \in Fallbacks
  BY <1>2, <1>3, <1>4 DEF Fallbacks
<1>7. TierName[Tiers[PriorTier]] \in Fallbacks
  BY <1>5, <1>6
<1> QED
  BY <1>1, <1>7 DEF Fallbacks

LEMMA WindowCloses ==
    ASSUME StreamBounds, StreamInv, NEW value \in DeviceValues, NEW samples \in Samples,
           DeviceWindowCloses(value, samples)
    PROVE  StreamInv'
<1> DEFINE n == Len(evaluations)
           e == DatabaseEvaluation(value, samples)
           a == SharedEvaluation(value, samples)
<1>1. value \in Int /\ samples \in Int
  BY DEF StreamBounds
<1>2. /\ e.anomalous = Opens(value, samples) /\ e.state = Verdict(value, samples)
      /\ e.fallback = PriorBaseline.fallback
  BY <1>1, DatabaseSays DEF StreamInv
<1>3. /\ a.opens = Opens(value, samples) /\ a.state = Verdict(value, samples)
      /\ a.fallback = PriorBaseline.fallback
  BY <1>1, SharedSays DEF StreamInv
<1>4. /\ Verdict(value, samples) \in States /\ Opens(value, samples) \in BOOLEAN
      /\ Opens(value, samples) => OperationallyActionable(Verdict(value, samples))
      /\ Verdict(value, samples) = "investigate" => Opens(value, samples) /\ LastIsAnomalous
  BY <1>1, VerdictFollows DEF StreamInv
<1>5. PriorBaseline.fallback \in Fallbacks
  BY FallbackIsName DEF StreamInv
<1>6. e \in [anomalous : BOOLEAN, fallback : Fallbacks, state : States]
  <2>1. e = [anomalous |-> e.anomalous, fallback |-> e.fallback, state |-> e.state]
    BY Zenon DEF DatabaseEvaluation
  <2> HIDE DEF e
  <2> QED
    BY <1>2, <1>4, <1>5, <2>1, Zenon
<1>7. a \in [state : States, fallback : Fallbacks, opens : BOOLEAN]
  <2>1. a = [state |-> a.state, fallback |-> a.fallback, opens |-> a.opens]
    BY Zenon DEF SharedEvaluation
  <2> HIDE DEF a
  <2> QED
    BY <1>3, <1>4, <1>5, <2>1, Zenon
<1>8. evaluations' = Append(evaluations, e) /\ shared' = Append(shared, a)
      /\ windows' = [windows EXCEPT !["device"] = Append(@, value)]
  BY DEF DeviceWindowCloses
<1> HIDE DEF e, a
<1>9. StreamTypeOK'
  <2>1. Append(windows["device"], value) \in Seq(Int)
    BY <1>1 DEF StreamInv, StreamTypeOK, Scopes
  <2>2. windows' \in [Scopes -> Seq(Int)]
    BY <1>8, <2>1 DEF StreamInv, StreamTypeOK, Scopes
  <2> QED
    BY <1>6, <1>7, <1>8, <2>2 DEF StreamInv, StreamTypeOK
<1>10. /\ n \in Nat /\ DOMAIN evaluations = 1..n /\ DOMAIN shared = 1..n /\ DOMAIN evaluations' = 1..(n + 1)
       /\ \A i \in 1..n : evaluations'[i] = evaluations[i] /\ shared'[i] = shared[i]
       /\ evaluations'[n + 1] = e /\ shared'[n + 1] = a
  BY <1>6, <1>7, <1>8 DEF StreamInv, StreamTypeOK
<1>11. LastIsAnomalous <=> n # 0 /\ evaluations[n].anomalous
  BY DEF LastIsAnomalous, StreamInv, StreamTypeOK
<1> HIDE DEF n
<1>12. SideBySide'
  <2>1. e.state = a.state /\ e.fallback = a.fallback /\ e.anomalous = a.opens
    BY <1>2, <1>3, Zenon
  <2>2. \A i \in 1..n : /\ evaluations[i].state = shared[i].state
                        /\ evaluations[i].fallback = shared[i].fallback
                        /\ evaluations[i].anomalous = shared[i].opens
    BY <1>10, Zenon DEF StreamInv, SideBySide
  <2>3. \A i \in 1..(n + 1) : i \in 1..n \/ i = n + 1
    BY <1>10
  <2> QED
    BY <1>10, <2>1, <2>2, <2>3, Zenon DEF SideBySide
<1>13. AnomalousIsShown'
  <2>1. e.anomalous => OperationallyActionable(e.state)
    BY <1>2, <1>4, Zenon
  <2>2. \A i \in 1..n : evaluations[i].anomalous => OperationallyActionable(evaluations[i].state)
    BY <1>10, Zenon DEF StreamInv, AnomalousIsShown
  <2>3. \A i \in 1..(n + 1) : i \in 1..n \/ i = n + 1
    BY <1>10
  <2> QED
    BY <1>10, <2>1, <2>2, <2>3, Zenon DEF AnomalousIsShown
<1>14. InvestigationNeedsARun'
  <2>1. \A i \in DOMAIN evaluations' :
          evaluations'[i].state = "investigate" =>
            /\ i >= 2
            /\ \A k \in (i - 1)..i : evaluations'[k].anomalous
            /\ OperationallyActionable(evaluations'[i - 1].state)
    <3> SUFFICES ASSUME NEW i \in 1..(n + 1), evaluations'[i].state = "investigate"
                 PROVE  /\ i >= 2
                        /\ \A k \in (i - 1)..i : evaluations'[k].anomalous
                        /\ OperationallyActionable(evaluations'[i - 1].state)
      BY <1>10
    <3>1. CASE i \in 1..n
      <4>1. /\ i >= 2
            /\ \A k \in (i - 2 + 1)..i : evaluations[k].anomalous
            /\ OperationallyActionable(evaluations[i - 1].state)
        BY <1>10, <3>1 DEF StreamInv, InvestigationNeedsARun, Definition
      <4>2. i - 2 + 1 = i - 1 /\ i - 1 \in 1..n /\ \A k \in (i - 1)..i : k \in 1..n
        BY <3>1, <1>10, <4>1
      <4> QED
        BY <1>10, <4>1, <4>2
    <3>2. CASE i = n + 1
      <4>1. n # 0 /\ evaluations[n].anomalous /\ Opens(value, samples)
        BY <1>2, <1>4, <1>10, <1>11, <3>2, Zenon
      <4>2. e.anomalous
        BY <1>2, <4>1, Zenon
      <4>3. n \in 1..n /\ i - 1 = n /\ i >= 2 /\ \A k \in (i - 1)..i : k = n \/ k = n + 1
        BY <1>10, <3>2, <4>1
      <4>4. OperationallyActionable(evaluations[n].state)
        BY <1>10, <4>1, <4>3 DEF StreamInv, AnomalousIsShown
      <4> QED
        BY <1>10, <4>1, <4>2, <4>3, <4>4, Zenon
    <3> QED
      BY <3>1, <3>2, <1>10
  <2>2. \A i \in DOMAIN evaluations' : i \in Int /\ i - 2 + 1 = i - 1
    BY <1>10
  <2> QED
    BY <2>1, <2>2 DEF InvestigationNeedsARun, Definition
<1> QED
  BY <1>9, <1>12, <1>13, <1>14 DEF StreamInv

LEMMA StreamStep == ASSUME StreamBounds, StreamInv, [StreamNext]_streamVars PROVE StreamInv'
<1>1. CASE UNCHANGED streamVars
  BY <1>1 DEF streamVars, StreamInv, StreamTypeOK, SideBySide, AnomalousIsShown, InvestigationNeedsARun
<1>2. ASSUME NEW scope \in {"model", "fleet"}, NEW value \in OtherValues, OtherWindowCloses(scope, value)
      PROVE  StreamInv'
  <2>1. evaluations' = evaluations /\ shared' = shared
        /\ windows' = [windows EXCEPT ![scope] = Append(@, value)]
    BY <1>2 DEF OtherWindowCloses
  <2>2. Append(windows[scope], value) \in Seq(Int)
    BY <1>2 DEF StreamInv, StreamTypeOK, StreamBounds, Scopes
  <2>3. windows' \in [Scopes -> Seq(Int)]
    BY <2>1, <2>2 DEF StreamInv, StreamTypeOK
  <2> QED
    BY <2>1, <2>3 DEF StreamInv, StreamTypeOK, SideBySide, AnomalousIsShown, InvestigationNeedsARun
<1> QED
  BY <1>1, <1>2, WindowCloses DEF StreamNext

\* For any values, supports and numbers of windows, the database and the shared
\* evaluator give every window the same state, from the same kind of baseline.
THEOREM EvaluatorsAlwaysAgree == ASSUME StreamBounds PROVE StreamSpec => []EvaluatorsAgree
<1>1. StreamInv => EvaluatorsAgree
  BY Zenon DEF StreamInv, SideBySide, EvaluatorsAgree
<1> QED
  BY <1>1, StreamInitially, StreamStep, PTL DEF StreamSpec

\* A device is under investigation only after a run of anomalous windows, the
\* first of which was already shown.
THEOREM InvestigationAlwaysNeedsARun == ASSUME StreamBounds PROVE StreamSpec => []InvestigationNeedsARun
<1>1. StreamInv => InvestigationNeedsARun
  BY DEF StreamInv
<1> QED
  BY <1>1, StreamInitially, StreamStep, PTL DEF StreamSpec

(***************************************************************************)
(* Snapshots of features.                                                  *)
(***************************************************************************)

\* Evidence of a window, no two events of which have one id.
WindowEvidence(evidence) ==
    /\ evidence \in Seq({evidence[i] : i \in DOMAIN evidence})
    /\ \A i \in DOMAIN evidence : evidence[i].id \in Int /\ evidence[i].synthetic \in BOOLEAN
    /\ \A i, j \in DOMAIN evidence : i # j => evidence[i].id # evidence[j].id

ById(evidence) ==
    {e \in (DOMAIN evidence) \X (DOMAIN evidence) :
        \/ evidence[e[1]].id < evidence[e[2]].id
        \/ ~(evidence[e[2]].id < evidence[e[1]].id) /\ e[1] <= e[2]}

Reordered(s, order) == [i \in DOMAIN s |-> s[order[i]]]

\* As many indexes lead into a set as the set has.
LEMMA ImageCounts ==
    ASSUME NEW n \in Nat, NEW order \in Bijection(1..n, 1..n), NEW S \in SUBSET (1..n)
    PROVE  Cardinality({i \in 1..n : order[i] \in S}) = Cardinality(S)
<1> DEFINE T == {i \in 1..n : order[i] \in S}
           f == [i \in T |-> order[i]]
<1>1. IsFiniteSet(1..n)
  BY FS_Interval
<1>2. IsFiniteSet(S) /\ IsFiniteSet(T)
  BY <1>1, FS_Subset
<1>3. /\ order \in [1..n -> 1..n]
      /\ \A i, j \in 1..n : order[i] = order[j] => i = j
      /\ \A k \in 1..n : \E i \in 1..n : order[i] = k
  BY DEF Bijection, Injection, Surjection, IsInjective
<1>4. f \in Bijection(T, S)
  <2>1. f \in [T -> S]
    OBVIOUS
  <2>2. \A i, j \in T : f[i] = f[j] => i = j
    BY <1>3
  <2>3. \A k \in S : \E i \in T : f[i] = k
    BY <1>3
  <2> QED
    BY <2>1, <2>2, <2>3 DEF Bijection, Injection, Surjection, IsInjective
<1> HIDE DEF f, T
<1>5. Cardinality(T) = Cardinality(S)
  BY <1>2, <1>4, FS_Bijection DEF ExistsBijection
<1> QED
  BY <1>5 DEF T

\* In a total order no two have one place.
LEMMA PlacesDiffer ==
    ASSUME NEW n \in Nat, NEW R, TotalOrder(R, 1..n), NEW i \in 1..n, NEW j \in 1..n,
           Cardinality({m \in 1..n : <<m, i>> \in R}) = Cardinality({m \in 1..n : <<m, j>> \in R})
    PROVE  i = j
<1> DEFINE Below(k) == {m \in 1..n : <<m, k>> \in R}
<1>0. IsFiniteSet(1..n) /\ \A k \in 1..n : Below(k) \in SUBSET (1..n)
  BY FS_Interval
<1>1. \A k \in 1..n : IsFiniteSet(Below(k))
  BY <1>0, FS_Subset
<1>2. ASSUME NEW k \in 1..n, NEW l \in 1..n, Cardinality(Below(k)) = Cardinality(Below(l)), <<k, l>> \in R
      PROVE  k = l
  <2>1. Below(k) \in SUBSET Below(l) /\ k \in Below(k) /\ l \in Below(l)
    BY <1>2 DEF TotalOrder
  <2>2. Below(k) = Below(l)
    BY <1>1, <1>2, <2>1, FS_Subset
  <2> QED
    BY <1>2, <2>1, <2>2 DEF TotalOrder
<1> QED
  BY <1>2 DEF TotalOrder

\* Sorted by the same order, elements come out the same however they stood.
LEMMA SortingForgetsOrder ==
    ASSUME NEW n \in Nat, NEW s, DOMAIN s = 1..n, NEW R, NEW Q, TotalOrder(R, 1..n),
           NEW order \in Bijection(1..n, 1..n),
           \A i, j \in 1..n : <<j, i>> \in Q <=> <<order[j], order[i]>> \in R
    PROVE  InOrder(Reordered(s, order), Q) = InOrder(s, R)
<1> DEFINE p == Reordered(s, order)
           Place(O, i) == Cardinality({j \in 1..n : <<j, i>> \in O})
           At(O, k) == CHOOSE i \in 1..n : Place(O, i) = k
<1>1. /\ order \in [1..n -> 1..n]
      /\ \A i, j \in 1..n : order[i] = order[j] => i = j
      /\ \A k \in 1..n : \E i \in 1..n : order[i] = k
  BY DEF Bijection, Injection, Surjection, IsInjective
<1>2. DOMAIN p = 1..n /\ \A i \in 1..n : p[i] = s[order[i]]
  BY DEF Reordered
<1>4. \A i \in 1..n : Place(Q, i) = Place(R, order[i])
  <2> SUFFICES ASSUME NEW i \in 1..n PROVE Place(Q, i) = Place(R, order[i])
    OBVIOUS
  <2> DEFINE S == {k \in 1..n : <<k, order[i]>> \in R}
  <2>1. {j \in 1..n : <<j, i>> \in Q} = {j \in 1..n : order[j] \in S}
    BY <1>1
  <2>2. Cardinality({j \in 1..n : order[j] \in S}) = Cardinality(S)
    BY ImageCounts
  <2> QED
    BY <2>1, <2>2
<1>6. \A k \in 1..n : \E i \in 1..n : Place(R, i) = k
  BY OrderFills
<1>7. \A i, j \in 1..n : Place(R, i) = Place(R, j) => i = j
  BY PlacesDiffer
<1> HIDE DEF Place, p
<1>8. \A k \in 1..n : p[At(Q, k)] = s[At(R, k)]
  <2> SUFFICES ASSUME NEW k \in 1..n PROVE p[At(Q, k)] = s[At(R, k)]
    OBVIOUS
  <2>1. At(R, k) \in 1..n /\ Place(R, At(R, k)) = k
    BY <1>6
  <2>2. PICK i \in 1..n : order[i] = At(R, k)
    BY <1>1, <2>1
  <2>3. Place(Q, i) = k
    BY <1>4, <2>1, <2>2
  <2>4. At(Q, k) \in 1..n /\ Place(Q, At(Q, k)) = k
    BY <2>3
  <2>5. order[At(Q, k)] = At(R, k)
    BY <1>1, <1>4, <1>7, <2>1, <2>4
  <2> QED
    BY <1>2, <2>4, <2>5
<1>9. InOrder(p, Q) = [k \in 1..n |-> p[At(Q, k)]]
  BY <1>2 DEF InOrder, Place
<1>10. InOrder(s, R) = [k \in 1..n |-> s[At(R, k)]]
  BY DEF InOrder, Place
<1> HIDE DEF At
<1>11. InOrder(p, Q) = InOrder(s, R)
  BY <1>8, <1>9, <1>10
<1> QED
  BY <1>11 DEF p

\* A sorted sequence is the sequence in another order.
LEMMA SortingReorders ==
    ASSUME NEW n \in Nat, NEW s, DOMAIN s = 1..n, NEW R, TotalOrder(R, 1..n)
    PROVE  \E order \in Bijection(1..n, 1..n) : InOrder(s, R) = Reordered(s, order)
<1> DEFINE Place(i) == Cardinality({j \in 1..n : <<j, i>> \in R})
           At(k) == CHOOSE i \in 1..n : Place(i) = k
           order == [k \in 1..n |-> At(k)]
<1>1. \A k \in 1..n : \E i \in 1..n : Place(i) = k
  BY OrderFills
<1>2. \A i, j \in 1..n : Place(i) = Place(j) => i = j
  BY PlacesDiffer
<1>3. \A i \in 1..n : Place(i) \in 1..n
  <2> SUFFICES ASSUME NEW i \in 1..n PROVE Place(i) \in 1..n
    OBVIOUS
  <2> DEFINE Below == {j \in 1..n : <<j, i>> \in R}
  <2>1. IsFiniteSet(1..n) /\ Cardinality(1..n) = n
    BY FS_Interval
  <2>3. i \in Below /\ Below \in SUBSET (1..n)
    BY DEF TotalOrder
  <2> HIDE DEF Below
  <2>5. IsFiniteSet(1..n) => IsFiniteSet(Below) /\ Cardinality(Below) <= Cardinality(1..n)
    BY <2>3, FS_Subset, Zenon
  <2>2. IsFiniteSet(Below) /\ Cardinality(Below) <= n
    BY <2>1, <2>5
  <2>4. Cardinality(Below) \in Nat /\ Cardinality(Below) # 0
    BY <2>2, <2>3, FS_CardinalityType, FS_EmptySet
  <2> QED
    BY <2>2, <2>4 DEF Below
<1>4. InOrder(s, R) = [k \in 1..n |-> s[At(k)]]
  BY DEF InOrder
<1>10. Reordered(s, order) = [k \in 1..n |-> s[order[k]]]
  BY DEF Reordered
<1> HIDE DEF Place
<1>5. \A k \in 1..n : order[k] \in 1..n /\ Place(order[k]) = k
  BY <1>1
<1>11. \A k \in 1..n : order[k] = At(k)
  OBVIOUS
<1> HIDE DEF At
<1>6. order \in [1..n -> 1..n]
  BY <1>5
<1> HIDE DEF order
<1>7. \A k, l \in 1..n : order[k] = order[l] => k = l
  BY <1>5
<1>8. \A i \in 1..n : \E k \in 1..n : order[k] = i
  <2> SUFFICES ASSUME NEW i \in 1..n PROVE \E k \in 1..n : order[k] = i
    OBVIOUS
  <2>1. Place(i) \in 1..n /\ order[Place(i)] \in 1..n /\ Place(order[Place(i)]) = Place(i)
    BY <1>3, <1>5
  <2> QED
    BY <1>2, <2>1
<1>9. order \in Bijection(1..n, 1..n)
  BY <1>6, <1>7, <1>8 DEF Bijection, Injection, Surjection, IsInjective
<1>12. InOrder(s, R) = Reordered(s, order)
  BY <1>4, <1>10, <1>11
<1> QED
  BY <1>9, <1>12

LEMMA ByIdIsTotal ==
    ASSUME NEW n \in Nat, NEW s, DOMAIN s = 1..n, \A i \in 1..n : s[i].id \in Int
    PROVE  TotalOrder(ById(s), 1..n)
<1> DEFINE id(i) == s[i].id
<1>1. \A i, j \in 1..n : <<i, j>> \in ById(s) <=> id(i) < id(j) \/ (~(id(j) < id(i)) /\ i <= j)
  BY DEF ById
<1>2. \A i \in 1..n : id(i) \in Int
  OBVIOUS
<1> HIDE DEF id
<1>3. \A i \in 1..n : <<i, i>> \in ById(s)
  BY <1>1, <1>2
<1>4. \A i, j \in 1..n : <<i, j>> \in ById(s) \/ <<j, i>> \in ById(s)
  <2> SUFFICES ASSUME NEW i \in 1..n, NEW j \in 1..n
               PROVE  <<i, j>> \in ById(s) \/ <<j, i>> \in ById(s)
    OBVIOUS
  <2>1. id(i) \in Int /\ id(j) \in Int /\ i \in Int /\ j \in Int
    BY <1>2
  <2>2. id(i) < id(j) \/ id(j) < id(i) \/ i <= j \/ j <= i
    BY <2>1
  <2> QED
    BY <1>1, <2>1, <2>2
<1>5. \A i, j \in 1..n : <<i, j>> \in ById(s) /\ <<j, i>> \in ById(s) => i = j
  BY <1>1, <1>2
<1>6. \A i, j, k \in 1..n : <<i, j>> \in ById(s) /\ <<j, k>> \in ById(s) => <<i, k>> \in ById(s)
  <2> SUFFICES ASSUME NEW i \in 1..n, NEW j \in 1..n, NEW k \in 1..n, <<i, j>> \in ById(s), <<j, k>> \in ById(s)
               PROVE  <<i, k>> \in ById(s)
    OBVIOUS
  <2>1. id(i) \in Int /\ id(j) \in Int /\ id(k) \in Int /\ i \in Int /\ j \in Int /\ k \in Int
    BY <1>2
  <2>2. /\ id(i) < id(j) \/ (~(id(j) < id(i)) /\ i <= j)
        /\ id(j) < id(k) \/ (~(id(k) < id(j)) /\ j <= k)
    BY <1>1
  <2>3. id(i) < id(k) \/ (~(id(k) < id(i)) /\ i <= k)
    BY <2>1, <2>2
  <2> QED
    BY <1>1, <2>3
<1> QED
  BY <1>3, <1>4, <1>5, <1>6 DEF TotalOrder

LEMMA ByIdForgetsOrder ==
    ASSUME NEW n \in Nat, NEW s, DOMAIN s = 1..n, \A i \in 1..n : s[i].id \in Int,
           \A i, j \in 1..n : i # j => s[i].id # s[j].id,
           NEW order \in Bijection(1..n, 1..n)
    PROVE  InOrder(Reordered(s, order), ById(Reordered(s, order))) = InOrder(s, ById(s))
<1> DEFINE p == Reordered(s, order)
<1>1. /\ order \in [1..n -> 1..n]
      /\ \A i, j \in 1..n : order[i] = order[j] => i = j
  BY DEF Bijection, Injection, Surjection, IsInjective
<1>2. DOMAIN p = 1..n /\ \A i \in 1..n : p[i] = s[order[i]]
  BY DEF Reordered
<1>3. \A i, j \in 1..n : <<j, i>> \in ById(p) <=> <<order[j], order[i]>> \in ById(s)
  <2> SUFFICES ASSUME NEW i \in 1..n, NEW j \in 1..n
               PROVE  <<j, i>> \in ById(p) <=> <<order[j], order[i]>> \in ById(s)
    OBVIOUS
  <2>1. CASE i = j
    <3>1. order[i] \in 1..n /\ s[order[i]].id \in Int
      BY <1>1
    <3>2. <<i, i>> \in ById(p)
      BY <1>2, <3>1 DEF ById
    <3>3. <<order[i], order[i]>> \in ById(s)
      BY <3>1 DEF ById
    <3> QED
      BY <2>1, <3>2, <3>3
  <2>2. CASE i # j
    <3>1. order[i] \in 1..n /\ order[j] \in 1..n /\ order[i] # order[j]
      BY <1>1, <2>2
    <3>2. s[order[i]].id # s[order[j]].id /\ s[order[i]].id \in Int /\ s[order[j]].id \in Int
      BY <3>1
    <3>3. <<j, i>> \in ById(p) <=> s[order[j]].id < s[order[i]].id
      BY <1>2, <3>2 DEF ById
    <3>4. <<order[j], order[i]>> \in ById(s) <=> s[order[j]].id < s[order[i]].id
      BY <3>1, <3>2 DEF ById
    <3> QED
      BY <3>3, <3>4
  <2> QED
    BY <2>1, <2>2
<1>4. TotalOrder(ById(s), 1..n)
  BY ByIdIsTotal
<1> HIDE DEF p
<1>5. InOrder(Reordered(s, order), ById(p)) = InOrder(s, ById(s))
  BY <1>3, <1>4, SortingForgetsOrder
<1> QED
  BY <1>5 DEF p

LEMMA CleanForgetsOrder ==
    ASSUME NEW evidence, WindowEvidence(evidence), NEW order \in Bijection(DOMAIN evidence, DOMAIN evidence)
    PROVE  Clean(Reordered(evidence, order)) = Clean(evidence)
<1> DEFINE n == Len(evidence)
           p == Reordered(evidence, order)
<1>1. n \in Nat /\ DOMAIN evidence = 1..n
  BY DEF WindowEvidence
<1>2. InOrder(p, ById(p)) = InOrder(evidence, ById(evidence))
  BY <1>1, ByIdForgetsOrder DEF WindowEvidence
<1>3. \A s : StablySorted(s, LAMBDA a, b : a.id < b.id) = InOrder(s, ById(s))
  BY DEF StablySorted, ById
<1>4. StablySorted(p, LAMBDA a, b : a.id < b.id) = StablySorted(evidence, LAMBDA a, b : a.id < b.id)
  BY <1>2, <1>3
<1> HIDE DEF p
<1>5. Clean(p) = Clean(evidence)
  BY <1>4 DEF Clean
<1> QED
  BY <1>5 DEF p

LEMMA RateIsWithinOne == \A count, total \in Nat : Rate(count, total)[1] \in 0..Rate(count, total)[2]
BY DEF Rate

LEMMA CleanIsAsLong ==
    ASSUME NEW evidence, WindowEvidence(evidence)
    PROVE  DOMAIN Clean(evidence) = 1..Len(evidence) /\ Len(Clean(evidence)) = Len(evidence)
<1>1. Len(evidence) \in Nat /\ DOMAIN evidence = 1..Len(evidence)
  BY DEF WindowEvidence
<1>2. DOMAIN Clean(evidence) = 1..Len(evidence)
  BY <1>1 DEF Clean, StablySorted, InOrder
<1>3. Clean(evidence) = [i \in 1..Len(evidence) |-> Clean(evidence)[i]]
  <2> DEFINE b == StablySorted(evidence, LAMBDA v, w : v.id < w.id)
             C(i) == [b[i] EXCEPT !.minutes = [m \in Minutes |-> IF @[m] < 0 THEN 0 ELSE @[m]]]
  <2>1. Clean(evidence) = [i \in DOMAIN b |-> C(i)]
    BY DEF Clean
  <2>2. DOMAIN b = 1..Len(evidence)
    BY <1>1 DEF StablySorted, InOrder
  <2> HIDE DEF b, C
  <2> QED
    BY <2>1, <2>2
<1>4. Clean(evidence) \in [1..Len(evidence) -> {Clean(evidence)[i] : i \in 1..Len(evidence)}]
  BY <1>3
<1>5. Clean(evidence) \in Seq({Clean(evidence)[i] : i \in 1..Len(evidence)})
  BY <1>1, <1>4
<1> QED
  BY <1>1, <1>2, <1>5

LEMMA CountsAreBounded ==
    ASSUME NEW s, NEW n \in Nat, DOMAIN s = 1..n, NEW S \in SUBSET (DOMAIN s)
    PROVE  Cardinality(S) \in 0..n
<1>1. IsFiniteSet(1..n) /\ Cardinality(1..n) = n
  BY FS_Interval
<1>2. IsFiniteSet(S) /\ Cardinality(S) <= n
  BY <1>1, FS_Subset
<1> QED
  BY <1>2, FS_CardinalityType

LEMMA SamplesAreBounded ==
    ASSUME NEW s, NEW n \in Nat, DOMAIN s = 1..n, Len(s) = n, NEW f
    PROVE  SampleCount(s, f) \in 0..n
<1> DEFINE A == {i \in DOMAIN s : s[i].fix # Null}
           B == {i \in DOMAIN s : s[i][RestsOn[f]] # <<>>}
<1>1. Cardinality(A) \in 0..n
  BY CountsAreBounded
<1>2. Cardinality(B) \in 0..n
  BY CountsAreBounded
<1>3. SampleCount(s, f) \in {Cardinality(A), Cardinality(B), n}
  BY DEF SampleCount, CountOf
<1> QED
  BY <1>1, <1>2, <1>3

Rates == DOMAIN DispositionRates \cup DOMAIN FlagRates \cup {"gps_fix_rate", "gsm_healthy_rate"}

LEMMA RatesAreWithinOne ==
    ASSUME NEW s, NEW n \in Nat, DOMAIN s = 1..n, Len(s) = n, NEW f \in Rates
    PROVE  FeatureValues(s)[f][1] \in 0..FeatureValues(s)[f][2]
<1> DEFINE D == {i \in DOMAIN s : s[i].disposition = DispositionRates[f]}
           G == {i \in DOMAIN s : FlagRates[f] \in s[i].flags}
           F == {i \in DOMAIN s : s[i].fix \notin {Null, "none"}}
           K == {i \in DOMAIN s : s[i].fix # Null}
           H == {i \in DOMAIN s : s[i].gsm # <<>> /\ s[i].gsm[1] >= -90}
           M == {i \in DOMAIN s : s[i].gsm # <<>>}
<1>1. Cardinality(D) \in Nat
  BY CountsAreBounded
<1>2. Cardinality(G) \in Nat
  BY CountsAreBounded
<1>3. Cardinality(F) \in Nat /\ Cardinality(K) \in Nat
  BY CountsAreBounded
<1>4. Cardinality(H) \in Nat /\ Cardinality(M) \in Nat
  BY CountsAreBounded
<1>5. CASE f \in DOMAIN DispositionRates
  <2>1. FeatureValues(s)[f] = Rate(Cardinality(D), n)
    BY <1>5 DEF FeatureValues, CountOf
  <2> QED
    BY <1>1, <2>1, RateIsWithinOne
<1>6. CASE f \in DOMAIN FlagRates /\ f \notin DOMAIN DispositionRates
  <2>1. FeatureValues(s)[f] = Rate(Cardinality(G), n)
    BY <1>6 DEF FeatureValues, CountOf
  <2> QED
    BY <1>2, <2>1, RateIsWithinOne
<1>7. CASE f \in {"gps_fix_rate", "gsm_healthy_rate"}
  <2>1. f \notin DOMAIN DispositionRates \cup DOMAIN FlagRates \cup DOMAIN FlagCounts \cup Minutes
    BY <1>7 DEF DispositionRates, FlagRates, FlagCounts, Minutes
  <2>2. f \in DOMAIN OtherFeatures(s)
    BY <1>7 DEF OtherFeatures
  <2>3. FeatureValues(s)[f] = OtherFeatures(s)[f]
    BY <2>1, <2>2 DEF FeatureValues
  <2>4. OtherFeatures(s)["gps_fix_rate"] = Rate(Cardinality(F), Cardinality(K))
    BY DEF OtherFeatures, CountOf
  <2>5. OtherFeatures(s)["gsm_healthy_rate"] = Rate(Cardinality(H), Cardinality(M))
    BY DEF OtherFeatures, CountOf
  <2> HIDE DEF F, K, H, M
  <2>6. CASE f = "gps_fix_rate"
    BY <1>3, <2>3, <2>4, <2>6, RateIsWithinOne
  <2>7. CASE f = "gsm_healthy_rate"
    BY <1>4, <2>3, <2>5, <2>7, RateIsWithinOne
  <2> QED
    BY <1>7, <2>6, <2>7
<1> QED
  BY <1>5, <1>6, <1>7 DEF Rates

\* A snapshot is of its evidence, in whatever order it was read; its rates and
\* coverages stay within one, and it is refused when worlds are mixed.
THEOREM SnapshotsAlwaysStable ==
    ASSUME NEW evidence, WindowEvidence(evidence)
    PROVE  SnapshotsAreStable(evidence)
<1> DEFINE n == Len(evidence)
           c == Clean(evidence)
           Odd(e) == e.synthetic # FALSE
           Mixed(s) == \E i \in DOMAIN s : Odd(s[i])
           Values == [f \in DOMAIN FeatureValues(c) |->
                        [value |-> FeatureValues(c)[f], sampleCount |-> SampleCount(c, f),
                         coverage |-> Rate(SampleCount(c, f), IF c = <<>> THEN 1 ELSE Len(c)),
                         source |-> FeatureSource(f)]]
           Good == [ok |-> TRUE, synthetic |-> FALSE, values |-> Values]
<1>1. n \in Nat /\ DOMAIN evidence = 1..n /\ \A i \in 1..n : evidence[i].synthetic \in BOOLEAN
  BY DEF WindowEvidence
<1>2. DOMAIN c = 1..n /\ Len(c) = n
  BY CleanIsAsLong
<1>3. FeatureSnapshot(evidence, FALSE) = IF Mixed(evidence) THEN [ok |-> FALSE] ELSE Good
  BY DEF FeatureSnapshot
<1>4. \A order \in Bijection(DOMAIN evidence, DOMAIN evidence) :
         FeatureSnapshot([i \in DOMAIN evidence |-> evidence[order[i]]], FALSE) = FeatureSnapshot(evidence, FALSE)
  <2> SUFFICES ASSUME NEW order \in Bijection(DOMAIN evidence, DOMAIN evidence)
               PROVE  FeatureSnapshot(Reordered(evidence, order), FALSE) = FeatureSnapshot(evidence, FALSE)
    BY DEF Reordered
  <2> DEFINE p == Reordered(evidence, order)
  <2>1. Clean(p) = c
    BY CleanForgetsOrder
  <2>2. DOMAIN p = DOMAIN evidence /\ \A i \in DOMAIN evidence : p[i] = evidence[order[i]]
    BY DEF Reordered
  <2>3. /\ \A i \in DOMAIN evidence : order[i] \in DOMAIN evidence
        /\ \A k \in DOMAIN evidence : \E i \in DOMAIN evidence : order[i] = k
    BY DEF Bijection, Injection, Surjection
  <2> HIDE DEF p
  <2>5. FeatureSnapshot(p, FALSE) = IF Mixed(p) THEN [ok |-> FALSE] ELSE Good
    BY <2>1 DEF FeatureSnapshot
  <2> HIDE DEF Odd, Good
  <2>4. Mixed(p) <=> Mixed(evidence)
    <3>1. ASSUME NEW i \in DOMAIN p, Odd(p[i]) PROVE Mixed(evidence)
      BY <2>2, <2>3, <3>1
    <3>2. ASSUME NEW k \in DOMAIN evidence, Odd(evidence[k]) PROVE Mixed(p)
      <4>1. PICK i \in DOMAIN evidence : order[i] = k
        BY <2>3
      <4> QED
        BY <2>2, <3>2, <4>1
    <3> QED
      BY <3>1, <3>2
  <2> HIDE DEF Mixed
  <2>6. FeatureSnapshot(p, FALSE) = FeatureSnapshot(evidence, FALSE)
    <3>1. CASE Mixed(evidence)
      BY <1>3, <2>4, <2>5, <3>1
    <3>2. CASE ~Mixed(evidence)
      BY <1>3, <2>4, <2>5, <3>2
    <3> QED
      BY <3>1, <3>2
  <2> QED
    BY <2>6 DEF p
<1>5. FeatureSnapshot(evidence, FALSE).ok <=> ~Mixed(evidence)
  <2>1. [ok |-> FALSE].ok = FALSE /\ Good.ok = TRUE
    OBVIOUS
  <2> HIDE DEF Good, Odd
  <2>2. CASE Mixed(evidence)
    BY <1>3, <2>1, <2>2
  <2>3. CASE ~Mixed(evidence)
    BY <1>3, <2>1, <2>3
  <2> QED
    BY <2>2, <2>3
<1>6. \A f \in DOMAIN Values : Values[f].coverage[1] \in 0..Values[f].coverage[2]
  <2> SUFFICES ASSUME NEW f \in DOMAIN Values PROVE Values[f].coverage[1] \in 0..Values[f].coverage[2]
    OBVIOUS
  <2>1. SampleCount(c, f) \in Nat
    BY <1>1, <1>2, SamplesAreBounded
  <2>2. (IF c = <<>> THEN 1 ELSE Len(c)) \in Nat
    BY <1>1, <1>2
  <2>3. Values[f].coverage = Rate(SampleCount(c, f), IF c = <<>> THEN 1 ELSE Len(c))
    OBVIOUS
  <2> QED
    BY <2>1, <2>2, <2>3, RateIsWithinOne
<1>7. \A f \in Rates \cap DOMAIN Values : Values[f].value[1] \in 0..Values[f].value[2]
  <2>1. \A f \in Rates : FeatureValues(c)[f][1] \in 0..FeatureValues(c)[f][2]
    BY <1>1, <1>2, RatesAreWithinOne
  <2> QED
    BY <2>1
<1>8. FeatureSnapshot(evidence, FALSE).ok => FeatureSnapshot(evidence, FALSE).values = Values
  <2>1. Good.values = Values
    OBVIOUS
  <2> HIDE DEF Good, Odd, Values
  <2> QED
    BY <1>3, <1>5, <2>1
<1>9. Mixed(evidence) <=> ~ \A i \in DOMAIN evidence : ~evidence[i].synthetic
  BY <1>1
<1> HIDE DEF Values, Good, Odd
<1> QED
  BY <1>4, <1>5, <1>6, <1>7, <1>8, <1>9 DEF SnapshotsAreStable, Rates

(***************************************************************************)
(* Pairs of points.                                                        *)
(***************************************************************************)
Point == [id : Nat, at : Nat]
PointList(points) ==
    /\ points \in Seq(Point)
    /\ \A i, j \in DOMAIN points : i # j => points[i].id # points[j].id

Earlier(a, b) == a.at < b.at \/ (a.at = b.at /\ a.id < b.id)
TimeOrder(points) ==
    {e \in (DOMAIN points) \X (DOMAIN points) :
        \/ Earlier(points[e[1]], points[e[2]])
        \/ ~Earlier(points[e[2]], points[e[1]]) /\ e[1] <= e[2]}

LEMMA EarlierOrders ==
    ASSUME NEW a \in Point, NEW b \in Point, NEW c \in Point
    PROVE  /\ ~Earlier(a, a) /\ ~(Earlier(a, b) /\ Earlier(b, a))
           /\ a.id # b.id => Earlier(a, b) \/ Earlier(b, a)
           /\ Earlier(a, b) /\ Earlier(b, c) => Earlier(a, c)
<1>1. /\ a.id \in Nat /\ b.id \in Nat /\ c.id \in Nat
      /\ a.at \in Nat /\ b.at \in Nat /\ c.at \in Nat
  BY DEF Point
<1> QED
  BY <1>1 DEF Earlier

LEMMA TimeOrderIsTotal ==
    ASSUME NEW points, PointList(points)
    PROVE  TotalOrder(TimeOrder(points), 1..Len(points))
<1> DEFINE n == Len(points)
           R == TimeOrder(points)
<1>1. n \in Nat /\ DOMAIN points = 1..n /\ \A i \in 1..n : points[i] \in Point
  BY DEF PointList
<1>2. \A i, j \in 1..n : i # j => (<<i, j>> \in R <=> Earlier(points[i], points[j]))
  <2> SUFFICES ASSUME NEW i \in 1..n, NEW j \in 1..n, i # j
               PROVE  <<i, j>> \in R <=> Earlier(points[i], points[j])
    OBVIOUS
  <2>1. points[i] \in Point /\ points[j] \in Point /\ points[i].id # points[j].id
    BY <1>1 DEF PointList
  <2>2. Earlier(points[i], points[j]) \/ Earlier(points[j], points[i])
    BY <2>1, EarlierOrders
  <2>3. ~(Earlier(points[i], points[j]) /\ Earlier(points[j], points[i]))
    BY <2>1, EarlierOrders
  <2> QED
    BY <1>1, <2>2, <2>3 DEF TimeOrder
<1>3. \A i \in 1..n : <<i, i>> \in R
  <2> SUFFICES ASSUME NEW i \in 1..n PROVE <<i, i>> \in R
    OBVIOUS
  <2>1. ~Earlier(points[i], points[i])
    BY <1>1, EarlierOrders
  <2> QED
    BY <1>1, <2>1 DEF TimeOrder
<1>4. \A i, j \in 1..n : i # j => Earlier(points[i], points[j]) \/ Earlier(points[j], points[i])
  BY <1>1, EarlierOrders DEF PointList
<1>5. \A i, j, k \in 1..n : Earlier(points[i], points[j]) /\ Earlier(points[j], points[k])
                            => Earlier(points[i], points[k])
  BY <1>1, EarlierOrders
<1>6. \A i, j \in 1..n : ~(Earlier(points[i], points[j]) /\ Earlier(points[j], points[i]))
  BY <1>1, EarlierOrders
<1> HIDE DEF n, R
<1>7. \A i, j, k \in 1..n : <<i, j>> \in R /\ <<j, k>> \in R => <<i, k>> \in R
  BY <1>2, <1>3, <1>5
<1>8. \A i, j \in 1..n : (<<i, j>> \in R \/ <<j, i>> \in R) /\ (<<i, j>> \in R /\ <<j, i>> \in R => i = j)
  BY <1>2, <1>3, <1>4, <1>6
<1>9. TotalOrder(R, 1..n)
  BY <1>3, <1>7, <1>8 DEF TotalOrder
<1> QED
  BY <1>9 DEF n, R

\* Points in order of time are the same points.
LEMMA ByTimeReorders ==
    ASSUME NEW points, PointList(points)
    PROVE  /\ ByTime(points) = InOrder(points, TimeOrder(points))
           /\ PointList(ByTime(points)) /\ Len(ByTime(points)) = Len(points)
           /\ Range(ByTime(points)) = Range(points)
<1> DEFINE n == Len(points)
           s == ByTime(points)
<1>1. n \in Nat /\ DOMAIN points = 1..n /\ \A i \in 1..n : points[i] \in Point
  BY DEF PointList
<1>2. s = InOrder(points, TimeOrder(points))
  BY DEF ByTime, StablySorted, TimeOrder, Earlier
<1>3. TotalOrder(TimeOrder(points), 1..n)
  BY TimeOrderIsTotal
<1>4. PICK order \in Bijection(1..n, 1..n) : InOrder(points, TimeOrder(points)) = Reordered(points, order)
  BY <1>1, <1>3, SortingReorders
<1> HIDE DEF s
<1>5. /\ order \in [1..n -> 1..n]
      /\ \A i, j \in 1..n : order[i] = order[j] => i = j
      /\ \A k \in 1..n : \E i \in 1..n : order[i] = k
  BY <1>4 DEF Bijection, Injection, Surjection, IsInjective
<1>6. s = [i \in 1..n |-> points[order[i]]]
  BY <1>1, <1>2, <1>4 DEF Reordered
<1>7. s \in Seq(Point) /\ Len(s) = n
  BY <1>1, <1>5, <1>6
<1>8. PointList(s)
  <2> SUFFICES ASSUME NEW i \in 1..n, NEW j \in 1..n, i # j PROVE s[i].id # s[j].id
    BY <1>6, <1>7 DEF PointList
  <2>1. order[i] \in 1..n /\ order[j] \in 1..n /\ order[i] # order[j]
    BY <1>5
  <2>2. points[order[i]].id # points[order[j]].id
    BY <1>1, <2>1 DEF PointList
  <2> QED
    BY <1>6, <2>2
<1>9. Range(s) = Range(points)
  BY <1>1, <1>5, <1>6 DEF Range
<1> QED
  BY <1>2, <1>7, <1>8, <1>9 DEF s

LEMMA ReversedPoints ==
    ASSUME NEW points, PointList(points)
    PROVE  ByTime(Reverse(points)) = ByTime(points) /\ Range(Reverse(points)) = Range(points)
<1> DEFINE n == Len(points)
           order == [i \in 1..n |-> n - i + 1]
           p == Reordered(points, order)
<1>1. n \in Nat /\ DOMAIN points = 1..n /\ \A i \in 1..n : points[i] \in Point
  BY DEF PointList
<1>2. Reverse(points) = p
  BY <1>1 DEF Reverse, Reordered
<1>3. \A i \in 1..n : order[i] \in 1..n /\ order[i] = n - i + 1
  BY <1>1
<1> HIDE DEF n
<1>4. order \in [1..n -> 1..n]
  BY <1>3
<1> HIDE DEF order
<1>5. \A i, j \in 1..n : order[i] = order[j] => i = j
  BY <1>1, <1>3
<1>6. \A k \in 1..n : order[n - k + 1] = k /\ n - k + 1 \in 1..n
  BY <1>1, <1>3
<1>7. order \in Bijection(1..n, 1..n)
  BY <1>4, <1>5, <1>6 DEF Bijection, Injection, Surjection, IsInjective
<1>8. DOMAIN p = 1..n /\ \A i \in 1..n : p[i] = points[order[i]]
  BY <1>1 DEF Reordered
<1>9. Range(p) = Range(points)
  BY <1>1, <1>3, <1>6, <1>8 DEF Range
<1>10. PointList(p)
  <2>1. p = [i \in 1..n |-> points[order[i]]]
    BY <1>1 DEF Reordered
  <2>2. p \in Seq(Point)
    BY <1>1, <1>3, <2>1
  <2> QED
    BY <1>1, <1>3, <1>5, <1>8, <2>2 DEF PointList
<1> HIDE DEF p
<1>11. \A i, j \in 1..n : <<j, i>> \in TimeOrder(p) <=> <<order[j], order[i]>> \in TimeOrder(points)
  <2> SUFFICES ASSUME NEW i \in 1..n, NEW j \in 1..n
               PROVE  <<j, i>> \in TimeOrder(p) <=> <<order[j], order[i]>> \in TimeOrder(points)
    OBVIOUS
  <2> DEFINE a == points[order[i]]
             b == points[order[j]]
  <2>1. a \in Point /\ b \in Point /\ p[i] = a /\ p[j] = b /\ order[i] \in 1..n /\ order[j] \in 1..n
    BY <1>1, <1>3, <1>8
  <2>2. <<j, i>> \in TimeOrder(p) <=> Earlier(b, a) \/ (~Earlier(a, b) /\ j <= i)
    BY <1>8, <2>1 DEF TimeOrder
  <2>3. <<order[j], order[i]>> \in TimeOrder(points) <=> Earlier(b, a) \/ (~Earlier(a, b) /\ order[j] <= order[i])
    BY <1>1, <2>1 DEF TimeOrder
  <2>4. i # j => Earlier(b, a) \/ Earlier(a, b)
    <3> SUFFICES ASSUME i # j PROVE Earlier(b, a) \/ Earlier(a, b)
      OBVIOUS
    <3>1. a.id # b.id
      BY <1>1, <1>5, <2>1 DEF PointList
    <3>2. a.id \in Nat /\ b.id \in Nat /\ a.at \in Nat /\ b.at \in Nat
      BY <2>1 DEF Point
    <3> QED
      BY <3>1, <3>2 DEF Earlier
  <2>5. ~(Earlier(b, a) /\ Earlier(a, b))
    BY <2>1 DEF Earlier, Point
  <2>6. j <= j /\ order[j] <= order[j]
    BY <1>3
  <2> HIDE DEF a, b
  <2> QED
    BY <2>2, <2>3, <2>4, <2>5, <2>6
<1>12. TotalOrder(TimeOrder(points), 1..n)
  BY TimeOrderIsTotal DEF n
<1>13. InOrder(Reordered(points, order), TimeOrder(p)) = InOrder(points, TimeOrder(points))
  BY <1>1, <1>7, <1>11, <1>12, SortingForgetsOrder
<1>14. ByTime(p) = InOrder(p, TimeOrder(p)) /\ ByTime(points) = InOrder(points, TimeOrder(points))
  BY <1>10, ByTimeReorders
<1>15. ByTime(p) = ByTime(points)
  BY <1>13, <1>14 DEF p
<1> QED
  BY <1>2, <1>9, <1>15

LEMMA LeastOf == ASSUME NEW T \in SUBSET Nat, T # {} PROVE \E m \in T : \A v \in T : m <= v
<1>1. PICK m \in T : \A v \in T : <<v, m>> \notin OpToRel(<, Nat)
  BY WFMin, NatLessThanWellFounded, Zenon
<1>2. ASSUME NEW v \in T PROVE ~(v < m)
  <2>1. <<v, m>> \notin OpToRel(<, Nat) /\ v \in Nat /\ m \in Nat
    BY <1>1
  <2> QED
    BY <2>1, Zenon DEF OpToRel
<1> QED
  BY <1>2

Gap(p, q) == Abs(q.at - p.at)
Better(p, q, r) == \/ Gap(p, q) < Gap(p, r)
                   \/ Gap(p, q) = Gap(p, r) /\ (q.at < r.at \/ (q.at = r.at /\ q.id <= r.id))

LEMMA GapIsNatural == \A p, q \in Point : Gap(p, q) \in Nat /\ Gap(p, q) = Abs(p.at - q.at)
BY DEF Gap, Abs, Point

\* Of points that are free and near, one is the best.
LEMMA BestExists ==
    ASSUME NEW p \in Point, NEW near \in SUBSET Point, near # {}
    PROVE  \E q \in near : \A r \in near : Better(p, q, r)
<1>1. \A q \in near : Gap(p, q) \in Nat /\ q.at \in Nat /\ q.id \in Nat
  BY GapIsNatural DEF Point
<1>2. PICK g \in {Gap(p, q) : q \in near} : \A h \in {Gap(p, q) : q \in near} : g <= h
  <2>1. {Gap(p, q) : q \in near} \in SUBSET Nat /\ {Gap(p, q) : q \in near} # {}
    BY <1>1
  <2> QED
    BY <2>1, LeastOf
<1> DEFINE A == {q \in near : Gap(p, q) = g}
<1>3. PICK t \in {q.at : q \in A} : \A u \in {q.at : q \in A} : t <= u
  <2>1. {q.at : q \in A} \in SUBSET Nat /\ {q.at : q \in A} # {}
    BY <1>1, <1>2
  <2> QED
    BY <2>1, LeastOf
<1> DEFINE B == {q \in A : q.at = t}
<1>4. PICK d \in {q.id : q \in B} : \A u \in {q.id : q \in B} : d <= u
  <2>1. {q.id : q \in B} \in SUBSET Nat /\ {q.id : q \in B} # {}
    BY <1>1, <1>3
  <2> QED
    BY <2>1, LeastOf
<1>5. PICK q \in B : q.id = d
  BY <1>4
<1>6. ASSUME NEW r \in near PROVE Better(p, q, r)
  <2>1. g <= Gap(p, r) /\ g \in Nat /\ Gap(p, r) \in Nat /\ Gap(p, q) = g
    BY <1>1, <1>2, <1>5
  <2>2. r \in A => t <= r.at /\ t \in Nat /\ r.at \in Nat
    BY <1>1, <1>3
  <2>3. r \in B => q.id <= r.id
    BY <1>4, <1>5
  <2>4. q.at = t
    BY <1>5
  <2>5. CASE Gap(p, r) # g
    BY <2>1, <2>5 DEF Better
  <2>6. CASE Gap(p, r) = g /\ r.at # t
    BY <2>1, <2>2, <2>4, <2>6 DEF Better
  <2>7. CASE Gap(p, r) = g /\ r.at = t
    BY <2>1, <2>3, <2>4, <2>7 DEF Better
  <2> QED
    BY <2>5, <2>6, <2>7
<1> QED
  BY <1>5, <1>6

\* What holds of the pairs of the first n phone points.
PairsOf(pairs, n, phones, points, window) ==
    /\ pairs \in Seq(Nat \X Nat \X Nat)
    /\ \A i \in DOMAIN pairs : pairs[i][3] <= window /\ \E m \in 1..n : pairs[i][1] = phones[m].id
    /\ \A i, j \in DOMAIN pairs : i # j => pairs[i][1] # pairs[j][1] /\ pairs[i][2] # pairs[j][2]
    /\ \A m \in 1..n : \A q \in Range(points) :
          \/ \E i \in DOMAIN pairs : pairs[i][1] = phones[m].id
          \/ \E i \in DOMAIN pairs : pairs[i][2] = q.id
          \/ Gap(phones[m], q) > window

LEMMA PairIsAdded ==
    ASSUME NEW phones, PointList(phones), NEW points, PointList(points), NEW window \in Int,
           NEW n \in 1..Len(phones), NEW pairs, PairsOf(pairs, n - 1, phones, points, window)
    PROVE  PairsOf(WithPairOf(phones[n], pairs, points, window), n, phones, points, window)
<1> DEFINE phone == phones[n]
           used == {pairs[i][2] : i \in DOMAIN pairs}
           near == {q \in Range(points) : q.id \notin used /\ Gap(phone, q) <= window}
           best == CHOOSE q \in near : \A r \in near : Better(phone, q, r)
<1>1. /\ Len(phones) \in Nat /\ DOMAIN phones = 1..Len(phones) /\ \A m \in 1..Len(phones) : phones[m] \in Point
      /\ phone \in Point
  BY DEF PointList
<1>2. Range(points) \in SUBSET Point
  BY DEF PointList, Range
<1>3. n - 1 \in Nat /\ 1..n = (1..(n - 1)) \cup {n} /\ 1..n \subseteq 1..Len(phones)
  BY <1>1
<1>4. WithPairOf(phone, pairs, points, window) =
         IF near = {} THEN pairs ELSE Append(pairs, <<phone.id, best.id, Gap(phone, best)>>)
  BY DEF WithPairOf, Gap, Better
<1>5. CASE near = {}
  <2>1. \A q \in Range(points) : (\E i \in DOMAIN pairs : pairs[i][2] = q.id) \/ Gap(phone, q) > window
    <3> SUFFICES ASSUME NEW q \in Range(points), q.id \notin used PROVE Gap(phone, q) > window
      OBVIOUS
    <3>1. ~(Gap(phone, q) <= window)
      BY <1>5
    <3>2. Gap(phone, q) \in Nat
      BY <1>1, <1>2, GapIsNatural
    <3> QED
      BY <3>1, <3>2
  <2>2. WithPairOf(phone, pairs, points, window) = pairs
    BY <1>4, <1>5
  <2>3. PairsOf(pairs, n, phones, points, window)
    BY <1>3, <2>1 DEF PairsOf
  <2> QED
    BY <2>2, <2>3
<1>6. CASE near # {}
  <2> DEFINE pair == <<phone.id, best.id, Gap(phone, best)>>
             more == Append(pairs, pair)
             l == Len(pairs)
  <2>1. \E q \in near : \A r \in near : Better(phone, q, r)
    BY <1>1, <1>2, <1>6, BestExists
  <2>2. best \in near
    BY <2>1
  <2> HIDE DEF best
  <2>3. /\ best \in Point /\ best.id \notin used /\ Gap(phone, best) <= window
        /\ pair \in Nat \X Nat \X Nat /\ pair[1] = phone.id /\ pair[2] = best.id /\ pair[3] = Gap(phone, best)
    <3>1. best \in Point /\ best.id \notin used /\ Gap(phone, best) <= window
      BY <1>2, <2>2
    <3>2. Gap(phone, best) \in Nat /\ best.id \in Nat /\ phone.id \in Nat
      BY <1>1, <3>1, GapIsNatural DEF Point
    <3> QED
      BY <3>1, <3>2
  <2> HIDE DEF pair, near, used
  <2>4. /\ l \in Nat /\ DOMAIN pairs = 1..l /\ DOMAIN more = 1..(l + 1)
        /\ more \in Seq(Nat \X Nat \X Nat)
        /\ more[l + 1] = pair /\ \A i \in 1..l : more[i] = pairs[i]
    BY <2>3 DEF PairsOf
  <2> HIDE DEF more, l
  <2>5. \A i \in 1..l : pairs[i][2] # pair[2]
    BY <2>3, <2>4 DEF used
  <2>6. \A i \in 1..l : pairs[i][1] # pair[1]
    <3> SUFFICES ASSUME NEW i \in 1..l PROVE pairs[i][1] # phone.id
      BY <2>3
    <3>1. PICK m \in 1..(n - 1) : pairs[i][1] = phones[m].id
      BY <2>4 DEF PairsOf
    <3>2. m \in DOMAIN phones /\ n \in DOMAIN phones /\ m # n
      BY <1>1, <1>3
    <3> QED
      BY <3>1, <3>2 DEF PointList
  <2>7. \A i \in DOMAIN more : more[i][3] <= window /\ \E m \in 1..n : more[i][1] = phones[m].id
    <3> SUFFICES ASSUME NEW i \in 1..(l + 1)
                 PROVE  more[i][3] <= window /\ \E m \in 1..n : more[i][1] = phones[m].id
      BY <2>4
    <3>1. CASE i = l + 1
      BY <1>3, <2>3, <2>4, <3>1
    <3>2. CASE i \in 1..l
      <4>1. pairs[i][3] <= window /\ \E m \in 1..(n - 1) : pairs[i][1] = phones[m].id
        BY <2>4, <3>2 DEF PairsOf
      <4> QED
        BY <1>3, <2>4, <3>2, <4>1
    <3>3. i = l + 1 \/ i \in 1..l
      BY <2>4
    <3> QED
      BY <3>1, <3>2, <3>3
  <2>8. \A i, j \in DOMAIN more : i # j => more[i][1] # more[j][1] /\ more[i][2] # more[j][2]
    <3>1. \A i, j \in 1..l : i # j => pairs[i][1] # pairs[j][1] /\ pairs[i][2] # pairs[j][2]
      BY <2>4 DEF PairsOf
    <3>2. \A i \in 1..(l + 1) : i = l + 1 \/ i \in 1..l
      BY <2>4
    <3>3. ASSUME NEW i \in 1..l, NEW j \in 1..l, i # j
          PROVE  more[i][1] # more[j][1] /\ more[i][2] # more[j][2]
      BY <2>4, <3>1, <3>3
    <3>4. ASSUME NEW i \in 1..l
          PROVE  more[i][1] # more[l + 1][1] /\ more[i][2] # more[l + 1][2]
      BY <2>4, <2>5, <2>6
    <3> QED
      BY <2>4, <3>2, <3>3, <3>4
  <2>9. \A m \in 1..n : \A q \in Range(points) :
          \/ \E i \in DOMAIN more : more[i][1] = phones[m].id
          \/ \E i \in DOMAIN more : more[i][2] = q.id
          \/ Gap(phones[m], q) > window
    <3> SUFFICES ASSUME NEW m \in 1..n, NEW q \in Range(points)
                 PROVE  \/ \E i \in DOMAIN more : more[i][1] = phones[m].id
                        \/ \E i \in DOMAIN more : more[i][2] = q.id
                        \/ Gap(phones[m], q) > window
      OBVIOUS
    <3>1. CASE m = n
      <4>1. l + 1 \in DOMAIN more /\ more[l + 1] = pair
        BY <2>4
      <4>2. more[l + 1][1] = phones[m].id
        BY <2>3, <3>1, <4>1
      <4> QED
        BY <4>1, <4>2
    <3>2. CASE m \in 1..(n - 1)
      <4>1. \/ \E i \in 1..l : pairs[i][1] = phones[m].id
            \/ \E i \in 1..l : pairs[i][2] = q.id
            \/ Gap(phones[m], q) > window
        BY <2>4, <3>2 DEF PairsOf
      <4>2. \A i \in 1..l : i \in DOMAIN more /\ more[i] = pairs[i]
        BY <2>4
      <4> QED
        BY <4>1, <4>2
    <3> QED
      BY <1>3, <3>1, <3>2
  <2>10. PairsOf(more, n, phones, points, window)
    BY <2>4, <2>7, <2>8, <2>9 DEF PairsOf
  <2>11. WithPairOf(phone, pairs, points, window) = more
    BY <1>4, <1>6 DEF more, pair
  <2> QED
    BY <2>10, <2>11
<1> QED
  BY <1>5, <1>6

\* The pairs of the first n points, for n up to m.
IsPairing(f, m, phones, points, window) ==
    f = [n \in 0..m |-> IF n = 0 THEN <<>> ELSE WithPairOf(phones[n], f[n - 1], points, window)]

LEMMA PairingExists ==
    ASSUME NEW phones, NEW points, NEW window, NEW N \in Nat
    PROVE  \E f : IsPairing(f, N, phones, points, window)
<1> DEFINE W(n, pairs) == WithPairOf(phones[n], pairs, points, window)
           T == {m \in Nat : ~ \E f : IsPairing(f, m, phones, points, window)}
<1> SUFFICES ASSUME T # {} PROVE FALSE
  OBVIOUS
<1>1. PICK m \in T : \A v \in T : m <= v
  <2>1. T \in SUBSET Nat
    OBVIOUS
  <2> HIDE DEF T
  <2> QED
    BY <2>1, LeastOf
<1>2. m \in Nat /\ ~ \E f : IsPairing(f, m, phones, points, window)
  BY <1>1
<1>3. m # 0
  <2> DEFINE f == [n \in 0..0 |-> <<>>]
  <2>1. f = [n \in 0..0 |-> IF n = 0 THEN <<>> ELSE W(n, f[n - 1])]
    OBVIOUS
  <2>2. IsPairing(f, 0, phones, points, window)
    BY <2>1 DEF IsPairing
  <2> QED
    BY <1>2, <2>2
<1>4. PICK f : IsPairing(f, m - 1, phones, points, window)
  <2>1. m - 1 \in Nat /\ ~(m <= m - 1)
    BY <1>2, <1>3
  <2>2. m - 1 \notin T
    BY <1>1, <2>1
  <2> QED
    BY <2>1, <2>2
<1> DEFINE g == [n \in 0..m |-> IF n \in 0..(m - 1) THEN f[n] ELSE W(m, f[m - 1])]
           h == [n \in 0..m |-> IF n = 0 THEN <<>> ELSE W(n, g[n - 1])]
<1>5. m - 1 \in 0..(m - 1) /\ 0 \in 0..(m - 1)
  BY <1>2, <1>3
<1> HIDE DEF W
<1>6. \A n \in 0..(m - 1) : f[n] = IF n = 0 THEN <<>> ELSE W(n, f[n - 1])
  <2>1. f = [n \in 0..(m - 1) |-> IF n = 0 THEN <<>> ELSE W(n, f[n - 1])]
    BY <1>4 DEF IsPairing, W
  <2> QED
    BY <2>1
<1>7. ASSUME NEW n \in 0..m PROVE g[n] = h[n]
  <2>1. CASE n = 0
    BY <1>5, <1>6, <2>1
  <2>2. CASE n \in 1..(m - 1)
    <3>1. n \in 0..(m - 1) /\ n - 1 \in 0..(m - 1) /\ n - 1 \in 0..m /\ n # 0
      BY <1>2, <2>2
    <3>2. g[n] = f[n] /\ g[n - 1] = f[n - 1]
      BY <3>1
    <3>3. h[n] = W(n, g[n - 1])
      BY <3>1
    <3> QED
      BY <1>6, <3>1, <3>2, <3>3
  <2>3. CASE n = m
    <3>1. m \notin 0..(m - 1) /\ m - 1 \in 0..m
      BY <1>2, <1>5
    <3>2. g[m] = W(m, f[m - 1])
      BY <2>3, <3>1
    <3>3. g[m - 1] = f[m - 1]
      BY <1>5, <3>1
    <3>4. h[m] = W(m, g[m - 1])
      BY <1>3, <2>3
    <3> QED
      BY <2>3, <3>2, <3>3, <3>4
  <2> QED
    BY <1>2, <2>1, <2>2, <2>3
<1>8. g = h
  BY <1>7
<1>9. IsPairing(g, m, phones, points, window)
  BY <1>8 DEF IsPairing, W
<1> QED
  BY <1>2, <1>9

LEMMA PairsOfAllPoints ==
    ASSUME NEW points, PointList(points), NEW others, PointList(others), NEW window \in Int
    PROVE  PairsOf(PairPoints(points, others, window), Len(points), ByTime(points), others, window)
<1> DEFINE phones == ByTime(points)
           N == Len(phones)
           f == CHOOSE f : IsPairing(f, N, phones, others, window)
           T == {m \in Nat : m <= N /\ ~PairsOf(f[m], m, phones, others, window)}
<1>1. PointList(phones) /\ Len(phones) = Len(points)
  BY ByTimeReorders
<1>2. N \in Nat
  BY <1>1 DEF PointList
<1>3. PairPoints(points, others, window) = f[N]
  BY DEF PairPoints, IsPairing
<1> HIDE DEF phones, N
<1>4. IsPairing(f, N, phones, others, window)
  BY <1>2, PairingExists
<1> HIDE DEF f
<1>5. /\ f[0] = <<>>
      /\ \A n \in 1..N : f[n] = WithPairOf(phones[n], f[n - 1], others, window)
  <2>1. f = [n \in 0..N |-> IF n = 0 THEN <<>> ELSE WithPairOf(phones[n], f[n - 1], others, window)]
    BY <1>4 DEF IsPairing
  <2>2. 0 \in 0..N /\ \A n \in 1..N : n \in 0..N /\ n # 0
    BY <1>2
  <2> QED
    BY <2>1, <2>2
<1>6. T = {}
  <2> SUFFICES ASSUME T # {} PROVE FALSE
    OBVIOUS
  <2>1. PICK m \in T : \A v \in T : m <= v
    <3>1. T \in SUBSET Nat
      OBVIOUS
    <3> HIDE DEF T
    <3> QED
      BY <3>1, LeastOf
  <2>2. m # 0
    <3>1. PairsOf(<<>>, 0, phones, others, window)
      BY DEF PairsOf
    <3> QED
      BY <1>5, <2>1, <3>1
  <2>3. m - 1 \in Nat /\ m - 1 <= N /\ ~(m <= m - 1) /\ m \in 1..N
    BY <1>2, <2>1, <2>2
  <2>4. PairsOf(f[m - 1], m - 1, phones, others, window)
    BY <2>1, <2>3
  <2>5. m \in 1..Len(phones)
    BY <2>3 DEF N
  <2>6. PairsOf(WithPairOf(phones[m], f[m - 1], others, window), m, phones, others, window)
    BY <1>1, <2>4, <2>5, PairIsAdded
  <2> QED
    BY <1>5, <2>1, <2>3, <2>6
<1>7. PairsOf(f[N], N, phones, others, window)
  <2>1. N \notin T /\ N <= N
    BY <1>2, <1>6
  <2> QED
    BY <1>2, <2>1
<1> QED
  BY <1>1, <1>3, <1>7 DEF phones, N

\* The pairs are taken from the set of the device points.
LEMMA PairingForgetsOrder ==
    ASSUME NEW points, PointList(points), NEW others, PointList(others), NEW window
    PROVE  PairPoints(Reverse(points), Reverse(others), window) = PairPoints(points, others, window)
<1>1. ByTime(Reverse(points)) = ByTime(points)
  BY ReversedPoints
<1>2. Range(Reverse(others)) = Range(others)
  BY ReversedPoints
<1>3. ASSUME NEW phone, NEW pairs
      PROVE  WithPairOf(phone, pairs, Reverse(others), window) = WithPairOf(phone, pairs, others, window)
  BY <1>2 DEF WithPairOf
<1>4. ASSUME NEW f, NEW m, NEW phones
      PROVE  IsPairing(f, m, phones, Reverse(others), window) = IsPairing(f, m, phones, others, window)
  BY <1>3 DEF IsPairing
<1> DEFINE phones == ByTime(points)
<1>5. (CHOOSE f : IsPairing(f, Len(phones), phones, Reverse(others), window))
        = (CHOOSE f : IsPairing(f, Len(phones), phones, others, window))
  BY <1>4
<1>6. PairPoints(points, others, window) = (CHOOSE f : IsPairing(f, Len(phones), phones, others, window))[Len(phones)]
  BY DEF PairPoints, IsPairing
<1>7. PairPoints(Reverse(points), Reverse(others), window)
        = (CHOOSE f : IsPairing(f, Len(phones), phones, Reverse(others), window))[Len(phones)]
  BY <1>1 DEF PairPoints, IsPairing
<1> QED
  BY <1>5, <1>6, <1>7

\* Pairing is one to one, within the window, complete, and does not depend on
\* the order of arrival.
THEOREM PairingAlwaysComplete ==
    ASSUME NEW phonePoints, PointList(phonePoints),
           NEW physicalPoints, PointList(physicalPoints), NEW window \in Int
    PROVE  PairingIsComplete(phonePoints, physicalPoints, window)
<1> DEFINE pairs == PairPoints(phonePoints, physicalPoints, window)
           phones == ByTime(phonePoints)
           Ids(k) == {pairs[i][k] : i \in DOMAIN pairs}
           N == Len(phonePoints)
<1>1. PairsOf(pairs, N, phones, physicalPoints, window)
  BY PairsOfAllPoints
<1>2. PairPoints(Reverse(phonePoints), Reverse(physicalPoints), window) = pairs
  BY PairingForgetsOrder
<1>3. /\ PointList(phones) /\ Len(phones) = N /\ N \in Nat /\ DOMAIN phones = 1..N
      /\ Range(phones) = Range(phonePoints)
  BY ByTimeReorders DEF PointList
<1> HIDE DEF pairs, phones
<1>4. Len(pairs) \in Nat /\ DOMAIN pairs = 1..Len(pairs)
  BY <1>1 DEF PairsOf
<1>5. ASSUME NEW k \in {1, 2} PROVE Cardinality(Ids(k)) = Len(pairs)
  <2>1. \A i, j \in 1..Len(pairs) : pairs[i][k] = pairs[j][k] => i = j
    BY <1>1, <1>4, <1>5 DEF PairsOf
  <2>2. Cardinality(1..Len(pairs)) = Len(pairs) /\ IsFiniteSet(1..Len(pairs))
    <3> DEFINE l == Len(pairs)
    <3>1. l \in Nat /\ 1 \in Int /\ l \in Int
      BY <1>4
    <3> HIDE DEF l
    <3>2. IsFiniteSet(1..l) /\ Cardinality(1..l) = IF 1 > l THEN 0 ELSE l - 1 + 1
      BY <3>1, FS_Interval
    <3>3. Cardinality(1..l) = l
      BY <3>1, <3>2
    <3> QED
      BY <3>2, <3>3 DEF l
  <2> DEFINE id == [i \in 1..Len(pairs) |-> pairs[i][k]]
  <2>3. id \in Bijection(1..Len(pairs), Ids(k))
    BY <1>4, <2>1 DEF Bijection, Injection, Surjection, IsInjective
  <2>4. ExistsBijection(1..Len(pairs), Ids(k))
    BY <2>3 DEF ExistsBijection
  <2> HIDE DEF id
  <2> QED
    BY <2>2, <2>4, FS_Bijection
<1>6. \A i \in DOMAIN pairs : pairs[i][3] <= window
  BY <1>1 DEF PairsOf
<1>7. ASSUME NEW p \in Range(phonePoints), NEW q \in Range(physicalPoints)
      PROVE  p.id \in Ids(1) \/ q.id \in Ids(2) \/ Abs(p.at - q.at) > window
  <2>1. PICK m \in 1..N : phones[m] = p
    BY <1>3 DEF Range
  <2>2. p \in Point /\ q \in Point
    BY DEF PointList, Range
  <2>3. \/ \E i \in DOMAIN pairs : pairs[i][1] = p.id
        \/ \E i \in DOMAIN pairs : pairs[i][2] = q.id
        \/ Gap(p, q) > window
    BY <1>1, <2>1 DEF PairsOf
  <2>4. Gap(p, q) = Abs(p.at - q.at)
    BY <2>2, GapIsNatural
  <2> QED
    BY <2>3, <2>4
<1>8. Cardinality(Ids(1)) = Len(pairs) /\ Cardinality(Ids(2)) = Len(pairs)
  BY <1>5
<1> QED
  BY <1>2, <1>6, <1>7, <1>8 DEF PairingIsComplete, pairs
=============================================================================
