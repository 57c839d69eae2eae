---------------------------- MODULE VerdictProofs ----------------------------
(***************************************************************************)
(* For windows of any length, any magnitudes and any profile: the scan for *)
(* the longest excursion is exact, a crash is confirmed exactly if gate    *)
(* and model agree, a peak's height grades nothing, and the figures count  *)
(* what the model decided.                                                 *)
(***************************************************************************)
EXTENDS Verdict, FiniteSetTheorems, FunctionTheorems, WellFoundedInduction, TLAPS

ScanInv == TypeOK /\ ScanIsExact

LEMMA InitiallyScanInv == Init => ScanInv
<1> SUFFICES ASSUME Init PROVE ScanInv
  OBVIOUS
<1>1. TypeOK
  BY SampleAssumption DEF Init, TypeOK
<1>2. run = 0 /\ longest = 0 /\ seen = 0
  BY DEF Init
<1>3. Excursion(seen - run + 1, seen)
  <2>1. \A j \in (seen - run + 1)..seen : FALSE
    BY <1>2
  <2>2. QED
    BY <2>1 DEF Excursion
<1>4. \A a \in 1..seen : FALSE
  BY <1>2
<1>5. ScanIsExact
  BY <1>2, <1>3, <1>4 DEF ScanIsExact
<1>6. QED
  BY <1>1, <1>5 DEF ScanInv

\* Arithmetic of the last r of n samples.
LEMMA LastOnes ==
  ASSUME NEW n \in Nat, NEW r \in Nat, r <= n
  PROVE  /\ r > 0 => n - r + 1 \in 1..n /\ (n - r + 1) + r - 1 = n
         /\ r = n => ~ (n - r >= 1)
         /\ \A a \in 1..n : ~ (n - r \in a..n) => n - a + 1 <= r
  OBVIOUS

\* What one more sample does to the counters keeps their meaning.  An excursion
\* that ends in the new sample is no longer than the run that it extends, and
\* one that ends before it was counted already.
LEMMA ScanKeeps == ScanInv /\ ScanSample => ScanInv'
<1> SUFFICES ASSUME ScanInv, ScanSample PROVE ScanInv'
  OBVIOUS
<1> DEFINE n == seen + 1
<1>1. /\ seen \in Nat /\ run \in Nat /\ longest \in Nat /\ n \in Nat /\ Samples \in Nat
      /\ n <= Samples /\ run <= seen /\ longest <= Samples
  BY SampleAssumption DEF ScanInv, TypeOK, ScanSample, ScanIsExact
<1>2. /\ seen' = n
      /\ run' = IF Above(n) THEN run + 1 ELSE 0
      /\ longest' = IF longest >= run' THEN longest ELSE run'
      /\ UNCHANGED <<setting, mag, model, row>>
  BY DEF ScanSample, RunAfter, Larger
<1>3. \A j : Above(j)' <=> Above(j)
  BY <1>2 DEF Above
<1>4. \A a, b : Excursion(a, b)' <=> Excursion(a, b)
  BY <1>3 DEF Excursion
<1>5. /\ Excursion(seen - run + 1, seen)
      /\ run < seen => ~ Above(seen - run)
  BY DEF ScanInv, ScanIsExact
<1>6. \A a, b \in 1..seen : a <= b /\ Excursion(a, b) => b - a + 1 <= longest
  BY DEF ScanInv, ScanIsExact
<1>7. longest > 0 => \E a \in 1..seen : /\ a + longest - 1 <= seen
                                       /\ Excursion(a, a + longest - 1)
  BY DEF ScanInv, ScanIsExact
<1>8. run' \in Nat /\ longest' \in Nat /\ run' <= n /\ run' <= Samples /\ longest' <= Samples
  BY <1>1, <1>2
<1>9. TypeOK'
  BY <1>1, <1>2, <1>8 DEF ScanInv, TypeOK
<1>10. Excursion(n - run' + 1, n)
  <2>1. CASE Above(n)
    <3>1. n - run' + 1 = seen - run + 1
      BY <1>1, <1>2, <2>1
    <3>2. ASSUME NEW j \in (seen - run + 1)..n PROVE Above(j)
      <4>1. CASE j = n
        BY <2>1, <4>1
      <4>2. CASE j # n
        <5>1. j \in (seen - run + 1)..seen
          BY <1>1, <4>2
        <5>2. QED
          BY <1>5, <5>1 DEF Excursion
      <4>3. QED
        BY <4>1, <4>2
    <3>3. QED
      BY <3>1, <3>2 DEF Excursion
  <2>2. CASE ~ Above(n)
    <3>1. \A j \in (n - run' + 1)..n : FALSE
      BY <1>1, <1>2, <2>2
    <3>2. QED
      BY <3>1 DEF Excursion
  <2>3. QED
    BY <2>1, <2>2
<1>11. run' < n => ~ Above(n - run')
  <2>1. CASE Above(n)
    <3>1. n - run' = seen - run /\ (run' < n => run < seen)
      BY <1>1, <1>2, <2>1
    <3>2. QED
      BY <1>5, <3>1
  <2>2. CASE ~ Above(n)
    <3>1. n - run' = n
      BY <1>1, <1>2, <2>2
    <3>2. QED
      BY <2>2, <3>1
  <2>3. QED
    BY <2>1, <2>2
<1>12. ASSUME NEW a \in 1..n, NEW b \in 1..n, a <= b, Excursion(a, b)
       PROVE  b - a + 1 <= longest'
  <2>1. CASE b # n
    <3>1. a \in 1..seen /\ b \in 1..seen
      BY <1>1, <1>12, <2>1
    <3>2. b - a + 1 <= longest
      BY <1>6, <1>12, <3>1
    <3>3. QED
      BY <1>1, <1>2, <1>8, <3>1, <3>2
  <2>2. CASE b = n
    <3>1. Above(n)
      BY <1>1, <1>12, <2>2 DEF Excursion
    <3>2. ~ (n - run' \in a..n)
      <4>1. CASE run' < n
        BY <1>11, <1>12, <2>2, <4>1 DEF Excursion
      <4>2. CASE ~ (run' < n)
        <5>1. run' = n
          BY <1>1, <1>8, <4>2
        <5>2. ~ (n - run' >= 1)
          BY <1>1, <1>8, <5>1, LastOnes
        <5>3. QED
          BY <1>1, <5>2
      <4>3. QED
        BY <4>1, <4>2
    <3>3. n - a + 1 <= run'
      BY <1>1, <1>8, <3>2, LastOnes
    <3>4. QED
      BY <1>1, <1>2, <1>8, <2>2, <3>3
  <2>3. QED
    BY <2>1, <2>2
<1>13. ASSUME longest' > 0
       PROVE  \E a \in 1..n : a + longest' - 1 <= n /\ Excursion(a, a + longest' - 1)
  <2>1. CASE longest >= run'
    <3>1. longest' = longest
      BY <1>2, <2>1
    <3>2. PICK a \in 1..seen : a + longest - 1 <= seen /\ Excursion(a, a + longest - 1)
      BY <1>7, <1>13, <3>1
    <3>3. a \in 1..n /\ a + longest - 1 <= n
      BY <1>1, <3>2
    <3>4. QED
      BY <3>1, <3>2, <3>3
  <2>2. CASE ~ (longest >= run')
    <3>1. longest' = run' /\ run' > 0
      BY <1>1, <1>2, <1>8, <2>2
    <3>2. /\ n - run' + 1 \in 1..n
          /\ (n - run' + 1) + longest' - 1 = n
      BY <1>1, <1>8, <3>1, LastOnes
    <3>3. QED
      BY <1>1, <1>10, <3>2
  <2>3. QED
    BY <2>1, <2>2
<1>14. ScanIsExact'
  BY <1>2, <1>3, <1>4, <1>8, <1>10, <1>11, <1>12, <1>13 DEF ScanIsExact
<1>15. QED
  BY <1>9, <1>14 DEF ScanInv

\* The decision leaves the counters alone, and a row it writes is one.
LEMMA DecideKeeps == ScanInv /\ Decide => ScanInv'
<1> SUFFICES ASSUME ScanInv, Decide PROVE ScanInv'
  OBVIOUS
<1>1. UNCHANGED <<setting, mag, model, seen, run, longest>>
  BY DEF Decide
<1>2. \A s \in Severities, c \in Sources : Kept(s, c) \in Row
  BY DEF Kept, Row
<1>3. ThresholdOnly(mag, longest) \in Row
  BY <1>2 DEF ThresholdOnly, Severities, Sources
<1>4. ModelAndGate(mag, longest) \in Row
  <2>1. model.label \in Severities
    BY DEF ScanInv, TypeOK
  <2>2. Larger(model.label, 1) \in Severities
    BY <2>1 DEF Larger, Severities
  <2>3. 0 \in Severities /\ {"model", "model+signature", "signature_override"} \subseteq Sources
    BY DEF Severities, Sources
  <2>4. QED
    BY <1>2, <2>2, <2>3 DEF ModelAndGate
<1>5. row' \in Row
  BY <1>3, <1>4 DEF Decide, ApplyClassification, Decision
<1>6. TypeOK'
  BY <1>1, <1>5 DEF ScanInv, TypeOK
<1>7. ScanIsExact'
  BY <1>1 DEF ScanInv, ScanIsExact, Excursion, Above
<1>8. QED
  BY <1>6, <1>7 DEF ScanInv

LEMMA NextKeepsScanInv == ScanInv /\ [Next]_vars => ScanInv'
<1> SUFFICES ASSUME ScanInv, [Next]_vars PROVE ScanInv'
  OBVIOUS
<1>1. CASE UNCHANGED vars
  BY <1>1 DEF vars, ScanInv, TypeOK, ScanIsExact, Excursion, Above
<1>2. QED
  BY <1>1, ScanKeeps, DecideKeeps DEF Next

\* Every variable keeps its type, whatever the window and the profile.
THEOREM VerdictTypes == Spec => []TypeOK
<1>1. Spec => []ScanInv
  BY InitiallyScanInv, NextKeepsScanInv, PTL DEF Spec
<1>2. QED
  BY <1>1, PTL DEF ScanInv

\* crash_signature reports exactly the longest stretch of samples at or above
\* the floor (phase2_vendored.py:171), for windows of every length.
THEOREM LongestIsExact == Spec => []ScanIsExact
<1>1. Spec => []ScanInv
  BY InitiallyScanInv, NextKeepsScanInv, PTL DEF Spec
<1>2. QED
  BY <1>1, PTL DEF ScanInv

-----------------------------------------------------------------------------
(* The gate                                                                *)

\* Whatever is set, the limits are numbers, and only the demo's have the one
\* that tells a severe impulse.
LEMMA LimitsAreNumbers ==
    ASSUME NEW s
    PROVE  /\ Profile(s).peakMin \in Int /\ Profile(s).peakMax \in Int
           /\ Profile(s).shortest \in Int /\ Profile(s).longest \in Int
<1>1. /\ DOMAIN Profiles = {"full_scale", "scale_model", "rc_demo"}
      /\ \A name \in DOMAIN Profiles :
            {"peakMin", "peakMax", "shortest", "longest"} \subseteq DOMAIN Profiles[name]
      /\ \A name \in DOMAIN Profiles : \A limit \in DOMAIN Profiles[name] :
            Profiles[name][limit] \in Int
  BY DEF Profiles
<1>2. ProfileName(s) \in DOMAIN Profiles
  BY <1>1 DEF ProfileName
<1>3. \A limit \in {"peakMin", "peakMax", "shortest", "longest"} : Profile(s)[limit] \in Int
  BY <1>1, <1>2, TuningAssumption DEF Profile
<1>4. QED
  BY <1>3

\* A finite set of naturals has a greatest element, and Max is one.
LEMMA MaxIsGreatest ==
    ASSUME NEW S \in SUBSET Nat, IsFiniteSet(S), S # {}
    PROVE  Max(S) \in S /\ \A y \in S : Max(S) >= y
<1> DEFINE Over(x) == {y \in S : y > x}
           T == {Over(x) : x \in S}
<1>1. T \subseteq FiniteSubsetsOf(S) /\ T # {}
  <2>1. T \subseteq SUBSET S /\ T # {}
    OBVIOUS
  <2>2. QED
    BY <2>1, FS_FiniteSubsetsOfFinite
<1>2. PICK b \in T : \A c \in T : ~ (<<c, b>> \in StrictSubsetOrdering(S))
  <2> HIDE DEF T
  <2>1. IsWellFoundedOn(StrictSubsetOrdering(S), FiniteSubsetsOf(S))
    BY FS_StrictSubsetOrderingWellFounded
  <2>2. QED
    BY <1>1, <2>1, WFMin
<1>3. PICK x \in S : b = Over(x)
  BY <1>2
<1>4. \A y \in S : x >= y
  <2> SUFFICES ASSUME NEW y \in S, y > x PROVE FALSE
    OBVIOUS
  <2>1. y \in Over(x) /\ y \notin Over(y)
    OBVIOUS
  <2>2. \A z \in S : z > y => z > x
    OBVIOUS
  <2>3. <<Over(y), Over(x)>> \in StrictSubsetOrdering(S)
    BY <2>1, <2>2 DEF StrictSubsetOrdering
  <2>4. QED
    BY <1>2, <1>3, <2>3
<1>5. QED
  BY <1>4 DEF Max

\* The peak of a window is the magnitude of one of its samples, and of none less.
LEMMA PeakIsReached ==
    ASSUME NEW m \in [1..Samples -> Levels]
    PROVE  /\ Peak(m) \in Nat
           /\ \A j \in 1..Samples : m[j] \in Nat /\ m[j] <= Peak(m)
           /\ \E j \in 1..Samples : m[j] = Peak(m)
<1> DEFINE S == {m[j] : j \in 1..Samples}
<1>1. IsFiniteSet(S)
  <2>1. IsFiniteSet(1..Samples)
    BY FS_Interval, SampleAssumption
  <2>2. m \in Surjection(1..Samples, S)
    BY DEF Surjection
  <2>3. QED
    BY <2>1, <2>2, FS_Surjection
<1>2. S \in SUBSET Nat /\ S # {}
  <2>1. 1 \in 1..Samples
    BY SampleAssumption
  <2>2. \A j \in 1..Samples : m[j] \in Levels
    OBVIOUS
  <2>3. \A j \in 1..Samples : m[j] \in Nat
    BY <2>2, SampleAssumption
  <2>4. m[1] \in S
    BY <2>1
  <2>5. QED
    BY <2>3, <2>4
<1>3. Max(S) \in S /\ \A y \in S : Max(S) >= y
  BY <1>1, <1>2, MaxIsGreatest
<1>4. QED
  BY <1>2, <1>3 DEF Peak

\* More samples last at least as long.
LEMMA LongerLasts ==
    ASSUME NEW a \in Nat, NEW b \in Nat, a <= b
    PROVE  /\ Milliseconds(a) \in Nat /\ Milliseconds(b) \in Nat
           /\ Milliseconds(a) <= Milliseconds(b)
<1> DEFINE x == a * 1000
           y == b * 1000
<1>1. x \in Nat /\ y \in Nat /\ x <= y /\ TargetFs \in Nat \ {0}
  BY SampleAssumption
<1> HIDE DEF x, y
<1>2. x \div TargetFs \in Nat /\ y \div TargetFs \in Nat /\ x \div TargetFs <= y \div TargetFs
  BY <1>1
<1>3. QED
  BY <1>2 DEF Milliseconds, x, y

\* Whether the gate opens, in terms of the samples.  If some sample is above the
\* floor the scan has found an excursion; the longest decides about all others.
LEMMA GateIsExact ==
    ASSUME ScanInv, seen = Samples
    PROVE  LET p == Profile(setting)
               Lasts(a, b) == /\ a <= b /\ Excursion(a, b)
                              /\ Milliseconds(b - a + 1) >= p.shortest
           IN  Signature(mag, longest) <=>
                  /\ \A j \in 1..Samples : mag[j] < p.peakMax
                  /\ \E a, b \in 1..Samples : Lasts(a, b)
                  /\ \A a, b \in 1..Samples :
                        a <= b /\ Excursion(a, b) => Milliseconds(b - a + 1) <= p.longest
<1> DEFINE p == Profile(setting)
           Lasts(a, b) == /\ a <= b /\ Excursion(a, b)
                          /\ Milliseconds(b - a + 1) >= p.shortest
           InBand == \A j \in 1..Samples : mag[j] < p.peakMax
           Long == \E a, b \in 1..Samples : Lasts(a, b)
           Short == \A a, b \in 1..Samples :
                       a <= b /\ Excursion(a, b) => Milliseconds(b - a + 1) <= p.longest
<1>1. /\ p.peakMin \in Int /\ p.peakMax \in Int /\ p.shortest \in Int /\ p.longest \in Int
  BY LimitsAreNumbers
<1>2. /\ mag \in [1..Samples -> Levels] /\ longest \in Nat /\ longest <= Samples
      /\ Samples \in Nat
  BY SampleAssumption DEF ScanInv, TypeOK
<1>3. /\ Peak(mag) \in Nat
      /\ \A j \in 1..Samples : mag[j] \in Nat /\ mag[j] <= Peak(mag)
      /\ \E j \in 1..Samples : mag[j] = Peak(mag)
  BY <1>2, PeakIsReached
<1>4. \A a, b \in 1..Samples : a <= b /\ Excursion(a, b) => b - a + 1 <= longest
  BY DEF ScanInv, ScanIsExact
<1>5. longest > 0 => \E a \in 1..Samples : /\ a + longest - 1 <= Samples
                                            /\ Excursion(a, a + longest - 1)
  BY DEF ScanInv, ScanIsExact
<1>6. \A j \in 1..Samples : Above(j) <=> mag[j] >= p.peakMin
  BY DEF Above
<1>7. Signature(mag, longest) <=>
         /\ p.peakMin <= Peak(mag) /\ Peak(mag) < p.peakMax
         /\ p.shortest <= Milliseconds(longest) /\ Milliseconds(longest) <= p.longest
  BY DEF Signature
<1>8. \A a, b \in 1..Samples :
         a <= b /\ Excursion(a, b) =>
            /\ b - a + 1 \in Nat /\ b - a + 1 <= longest /\ longest > 0
            /\ Milliseconds(b - a + 1) \in Nat
            /\ Milliseconds(b - a + 1) <= Milliseconds(longest)
  <2> SUFFICES ASSUME NEW a \in 1..Samples, NEW b \in 1..Samples, a <= b, Excursion(a, b)
               PROVE  /\ b - a + 1 \in Nat /\ b - a + 1 <= longest /\ longest > 0
                      /\ Milliseconds(b - a + 1) \in Nat
                      /\ Milliseconds(b - a + 1) <= Milliseconds(longest)
    OBVIOUS
  <2> DEFINE n == b - a + 1
  <2>1. n \in Nat /\ n > 0
    BY <1>2
  <2>2. n <= longest
    BY <1>4
  <2> HIDE DEF n
  <2>3. longest > 0
    BY <1>2, <2>1, <2>2
  <2>4. Milliseconds(n) \in Nat /\ Milliseconds(n) <= Milliseconds(longest)
    BY <1>2, <2>1, <2>2, LongerLasts
  <2>5. QED
    BY <2>1, <2>2, <2>3, <2>4 DEF n
<1>9. longest > 0 => \E a, b \in 1..Samples : a <= b /\ Excursion(a, b) /\ b - a + 1 = longest
  <2> SUFFICES ASSUME longest > 0
               PROVE  \E a, b \in 1..Samples : a <= b /\ Excursion(a, b) /\ b - a + 1 = longest
    OBVIOUS
  <2>1. PICK a \in 1..Samples : a + longest - 1 <= Samples /\ Excursion(a, a + longest - 1)
    BY <1>5
  <2>2. /\ a + longest - 1 \in 1..Samples /\ a <= a + longest - 1
        /\ (a + longest - 1) - a + 1 = longest
    BY <1>2, <2>1
  <2>3. QED
    BY <2>1, <2>2
<1>10. Milliseconds(longest) \in Nat
  BY <1>2, LongerLasts
<1>11. ASSUME Signature(mag, longest) PROVE InBand /\ Long /\ Short
  <2>1. InBand
    BY <1>1, <1>3, <1>7, <1>11
  <2>2. longest > 0
    <3>1. PICK j \in 1..Samples : mag[j] = Peak(mag)
      BY <1>3
    <3>2. Above(j)
      BY <1>6, <1>7, <1>11, <3>1
    <3>3. Excursion(j, j) /\ j <= j
      <4>1. \A k \in j..j : k = j
        BY <3>1
      <4>2. QED
        BY <3>2, <4>1 DEF Excursion
    <3>4. QED
      BY <1>8, <3>3
  <2>3. Long
    BY <1>1, <1>7, <1>9, <1>10, <1>11, <2>2
  <2>4. Short
    BY <1>1, <1>7, <1>8, <1>10, <1>11
  <2>5. QED
    BY <2>1, <2>3, <2>4
<1>12. ASSUME InBand, Long, Short PROVE Signature(mag, longest)
  <2>1. PICK a \in 1..Samples, b \in 1..Samples : Lasts(a, b)
    BY <1>12
  <2>2. Above(a)
    <3>1. a \in a..b
      BY <2>1
    <3>2. QED
      BY <2>1, <3>1 DEF Excursion
  <2>3. p.peakMin <= Peak(mag)
    BY <1>1, <1>3, <1>6, <2>2
  <2>4. Peak(mag) < p.peakMax
    BY <1>3, <1>12
  <2>5. longest > 0 /\ p.shortest <= Milliseconds(longest)
    BY <1>1, <1>8, <1>10, <2>1
  <2>6. Milliseconds(longest) <= p.longest
    BY <1>9, <1>12, <2>5
  <2>7. QED
    BY <1>7, <2>3, <2>4, <2>5, <2>6
<1>13. QED
  BY <1>11, <1>12

-----------------------------------------------------------------------------
(* The decision                                                            *)

\* The row is written once, from the whole window.
RowIsDecided == row # Null => seen = Samples /\ row = Decision(mag, longest)

DecidedInv == ScanInv /\ RowIsDecided

LEMMA NextKeepsDecidedInv == DecidedInv /\ [Next]_vars => DecidedInv'
<1> SUFFICES ASSUME DecidedInv, [Next]_vars PROVE DecidedInv'
  OBVIOUS
<1>1. ScanInv'
  BY NextKeepsScanInv DEF DecidedInv
<1>2. CASE ScanSample
  <2>1. row = Null /\ row' = Null
    <3>1. seen \in Nat /\ Samples \in Nat
      BY SampleAssumption DEF DecidedInv, ScanInv, TypeOK
    <3>2. QED
      BY <1>2, <3>1 DEF ScanSample, DecidedInv, RowIsDecided
  <2>2. QED
    BY <1>1, <2>1 DEF DecidedInv, RowIsDecided
<1>3. CASE Decide \/ UNCHANGED vars
  <2>1. /\ UNCHANGED <<setting, mag, model, seen, longest>>
        /\ row' # Null => seen = Samples /\ row' = Decision(mag, longest)
    BY <1>3 DEF Decide, ApplyClassification, vars, DecidedInv, RowIsDecided
  <2>2. Decision(mag, longest)' = Decision(mag, longest)
    BY <2>1 DEF Decision, ThresholdOnly, ModelAndGate, Signature, Impulse
  <2>3. QED
    BY <1>1, <2>1, <2>2 DEF DecidedInv, RowIsDecided
<1>4. QED
  BY <1>2, <1>3 DEF Next

LEMMA DecidedInvariance == Spec => []DecidedInv
<1>1. Init => DecidedInv
  BY InitiallyScanInv DEF Init, DecidedInv, RowIsDecided
<1>2. QED
  BY <1>1, NextKeepsDecidedInv, PTL DEF Spec

\* A row confirms what it grades above normal.
LEMMA KeptFields ==
    ASSUME NEW s \in Severities, NEW c
    PROVE  /\ Kept(s, c).severity = s /\ Kept(s, c).source = c
           /\ Kept(s, c).confirmed <=> s # 0
<1>1. Kept(s, c).severity = s /\ Kept(s, c).source = c
  BY DEF Kept
<1>2. Kept(s, c).confirmed = (s >= 1)
  BY Zenon DEF Kept
<1>3. s >= 1 <=> s # 0
  BY DEF Severities
<1>4. QED
  BY <1>1, <1>2, <1>3, Zenon

\* A verdict confirms a crash if the gate is open and, unless the demo's
\* thresholds are in force, the model alerts.
LEMMA ConfirmedWhenAgreed ==
    ASSUME TypeOK, NEW m, NEW excursion
    PROVE  /\ Decision(m, excursion).confirmed <=>
                 Signature(m, excursion) /\ (~ IsThresholdOnly(setting) => model.crash)
           /\ Decision(m, excursion).severity \in Severities
           /\ Decision(m, excursion).source \in
                 IF IsThresholdOnly(setting) THEN {"rc_demo_threshold"} ELSE ByModel
<1> DEFINE crash == /\ Signature(m, excursion)
                    /\ ~ IsThresholdOnly(setting) => model.crash
           sources == IF IsThresholdOnly(setting) THEN {"rc_demo_threshold"} ELSE ByModel
<1>1. Larger(model.label, 1) \in Severities \ {0}
  BY DEF TypeOK, Larger, Severities
<1>2. \E s \in Severities, c \in sources :
         Decision(m, excursion) = Kept(s, c) /\ (s # 0 <=> crash)
  <2>1. 0 \in Severities /\ {1, 2} \subseteq Severities \ {0}
    BY DEF Severities
  <2>2. CASE IsThresholdOnly(setting)
    <3>1. PICK s \in Severities : /\ s # 0 <=> Signature(m, excursion)
                                  /\ ThresholdOnly(m, excursion) = Kept(s, "rc_demo_threshold")
      <4>1. CASE Signature(m, excursion)
        BY <2>1, <4>1 DEF ThresholdOnly
      <4>2. CASE ~ Signature(m, excursion)
        BY <2>1, <4>2 DEF ThresholdOnly
      <4>3. QED
        BY <4>1, <4>2
    <3>2. "rc_demo_threshold" \in sources /\ (crash <=> Signature(m, excursion))
      BY <2>2
    <3>3. Decision(m, excursion) = Kept(s, "rc_demo_threshold")
      BY <2>2, <3>1 DEF Decision
    <3> HIDE DEF crash, sources
    <3>4. QED
      BY <3>1, <3>2, <3>3, Zenon
  <2>3. CASE ~ IsThresholdOnly(setting)
    <3>1. PICK s \in Severities, c \in ByModel :
             /\ s # 0 <=> model.crash /\ Signature(m, excursion)
             /\ ModelAndGate(m, excursion) = Kept(s, c)
      <4>1. CASE model.crash /\ Signature(m, excursion)
        BY <1>1, <4>1 DEF ModelAndGate, ByModel
      <4>2. CASE ~ (model.crash /\ Signature(m, excursion))
        BY <2>1, <4>2 DEF ModelAndGate, ByModel
      <4>3. QED
        BY <4>1, <4>2
    <3>2. ByModel = sources /\ (crash <=> model.crash /\ Signature(m, excursion))
      BY <2>3
    <3>3. Decision(m, excursion) = Kept(s, c)
      BY <2>3, <3>1 DEF Decision
    <3> HIDE DEF crash, sources
    <3>4. QED
      BY <3>1, <3>2, <3>3, Zenon
  <2>4. QED
    BY <2>2, <2>3
<1> HIDE DEF crash, sources
<1>3. PICK s \in Severities, c \in sources :
         Decision(m, excursion) = Kept(s, c) /\ (s # 0 <=> crash)
  BY <1>2
<1>4. /\ Decision(m, excursion).confirmed <=> crash
      /\ Decision(m, excursion).severity \in Severities
      /\ Decision(m, excursion).source \in sources
  <2>1. /\ Kept(s, c).severity = s /\ Kept(s, c).source = c
        /\ Kept(s, c).confirmed <=> s # 0
    BY KeptFields
  <2>2. (Kept(s, c).confirmed <=> crash) /\ Kept(s, c).severity \in Severities
        /\ Kept(s, c).source \in sources
    BY <1>3, <2>1
  <2>3. QED
    BY <1>3, <2>2, Zenon
<1>5. QED
  BY <1>4 DEF crash, sources

\* A crash is confirmed exactly when the window holds an excursion of a legal
\* length, none that is too long and no sample at the upper peak, and the model
\* agrees (phase2_vendored.py:218), for windows of every length.
THEOREM CrashNeedsBoth == Spec => []CrashIsAgreed
<1>1. DecidedInv => CrashIsAgreed
  <2> SUFFICES ASSUME DecidedInv, row # Null PROVE CrashIsAgreed
    BY DEF CrashIsAgreed
  <2>1. seen = Samples /\ row = Decision(mag, longest) /\ ScanInv /\ TypeOK
    BY DEF DecidedInv, RowIsDecided, ScanInv
  <2>2. row.confirmed <=>
           Signature(mag, longest) /\ (~ IsThresholdOnly(setting) => model.crash)
    BY <2>1, ConfirmedWhenAgreed
  <2>3. QED
    BY <2>1, <2>2, GateIsExact DEF CrashIsAgreed
<1>2. QED
  BY <1>1, DecidedInvariance, PTL

-----------------------------------------------------------------------------
(* The figures                                                             *)

\* A finite set is counted by the three parts that it is split into.
LEMMA CountByThree ==
    ASSUME NEW S, IsFiniteSet(S), NEW A \in SUBSET S, NEW B \in SUBSET S, NEW C \in SUBSET S,
           S = (A \union B) \union C, A \intersect B = {}, (A \union B) \intersect C = {}
    PROVE  Cardinality(S) = Cardinality(A) + Cardinality(B) + Cardinality(C)
<1>1. IsFiniteSet(A) /\ IsFiniteSet(B) /\ IsFiniteSet(C)
  BY FS_Subset
<1>2. /\ IsFiniteSet(A \union B)
      /\ Cardinality(A \union B) = Cardinality(A) + Cardinality(B) - Cardinality({})
  BY <1>1, FS_Union
<1>3. Cardinality(S) = Cardinality(A \union B) + Cardinality(C) - Cardinality({})
  BY <1>1, <1>2, FS_Union
<1>4. /\ Cardinality({}) = 0
      /\ Cardinality(A) \in Nat /\ Cardinality(B) \in Nat /\ Cardinality(C) \in Nat
  BY <1>1, FS_EmptySet, FS_CardinalityType
<1>5. QED
  BY <1>2, <1>3, <1>4

\* The figures of any finite table add up to its total, if every row that is
\* selected has a severity and a source in which the model took part.
LEMMA FiguresAddUp ==
    ASSUME NEW rows, IsFiniteSet(DOMAIN rows),
           \A i \in Selected(rows) : rows[i].severity \in Severities /\ rows[i].source \in ByModel
    PROVE  /\ Total(rows) = BySeverity(rows, 0) + BySeverity(rows, 1) + BySeverity(rows, 2)
                            + BySeverity(rows, Null)
           /\ Total(rows) = ByLabelSource(rows, "model") + ByLabelSource(rows, "model+signature")
                            + ByLabelSource(rows, "signature_override") + BySeverity(rows, Null)
<1> DEFINE S == Selected(rows)
           severity == [i \in S |-> rows[i].severity]
           source == [i \in S |-> rows[i].source]
<1>1. IsFiniteSet(S)
  <2>1. S \in SUBSET DOMAIN rows
    BY DEF Selected
  <2>2. QED
    BY <2>1, FS_Subset
<1>2. \A i \in S : severity[i] \in {0, 1, 2}
  <2>1. Severities = {0, 1, 2}
    BY DEF Severities
  <2>2. QED
    BY <2>1
<1>3. \A i \in S : source[i] \in {"model", "model+signature", "signature_override"}
  BY DEF ByModel
<1>4. \A s : BySeverity(rows, s) = Cardinality({i \in S : severity[i] = s})
  <2> TAKE s
  <2>1. {i \in S : severity[i] = s} = {i \in S : rows[i].severity = s}
    OBVIOUS
  <2>2. QED
    BY <2>1 DEF BySeverity
<1>5. \A s : ByLabelSource(rows, s) = Cardinality({i \in S : source[i] = s})
  <2> TAKE s
  <2>1. {i \in S : source[i] = s} = {i \in S : rows[i].source = s}
    OBVIOUS
  <2>2. QED
    BY <2>1 DEF ByLabelSource
<1>6. BySeverity(rows, Null) = 0
  <2>1. {i \in S : rows[i].severity = Null} = {}
    BY NullAssumption
  <2>2. QED
    BY <2>1, FS_EmptySet DEF BySeverity
<1>7. Total(rows) = Cardinality(S)
  BY DEF Total
<1> HIDE DEF S, severity, source
<1>8. Total(rows) = BySeverity(rows, 0) + BySeverity(rows, 1) + BySeverity(rows, 2)
  <2> DEFINE With(s) == {i \in S : severity[i] = s}
  <2>1. /\ With(0) \in SUBSET S /\ With(1) \in SUBSET S /\ With(2) \in SUBSET S
        /\ S = (With(0) \union With(1)) \union With(2)
        /\ With(0) \intersect With(1) = {} /\ (With(0) \union With(1)) \intersect With(2) = {}
    BY <1>2
  <2>2. \A s : BySeverity(rows, s) = Cardinality(With(s))
    BY <1>4
  <2> HIDE DEF With
  <2>3. Cardinality(S) = Cardinality(With(0)) + Cardinality(With(1)) + Cardinality(With(2))
    BY <1>1, <2>1, CountByThree
  <2>4. QED
    BY <1>7, <2>2, <2>3
<1>9. Total(rows) = ByLabelSource(rows, "model") + ByLabelSource(rows, "model+signature")
                    + ByLabelSource(rows, "signature_override")
  <2> DEFINE A == {i \in S : source[i] = "model"}
             B == {i \in S : source[i] = "model+signature"}
             C == {i \in S : source[i] = "signature_override"}
  <2>1. /\ A \in SUBSET S /\ B \in SUBSET S /\ C \in SUBSET S
        /\ S = (A \union B) \union C
        /\ A \intersect B = {} /\ (A \union B) \intersect C = {}
    BY <1>3
  <2>2. /\ ByLabelSource(rows, "model") = Cardinality(A)
        /\ ByLabelSource(rows, "model+signature") = Cardinality(B)
        /\ ByLabelSource(rows, "signature_override") = Cardinality(C)
    BY <1>5
  <2> HIDE DEF A, B, C
  <2>3. Cardinality(S) = Cardinality(A) + Cardinality(B) + Cardinality(C)
    BY <1>1, <2>1, CountByThree
  <2>4. QED
    BY <1>7, <2>2, <2>3
<1>10. Total(rows) \in Nat
  BY <1>1, <1>7, FS_CardinalityType
<1>11. \A n : n = Total(rows) => n + BySeverity(rows, Null) = Total(rows)
  BY <1>6, <1>10
<1>12. QED
  BY <1>8, <1>9, <1>11

Counts(x) == SqlNotIn(x.source, Excluded)

\* A table of one or two rows counts those that are selected.
LEMMA TotalOfTwo ==
    ASSUME NEW x, NEW y
    PROVE  /\ Total(<<x>>) = IF Counts(x) THEN 1 ELSE 0
           /\ Total(<<y>>) = IF Counts(y) THEN 1 ELSE 0
           /\ Total(<<x, y>>) = Total(<<x>>) + Total(<<y>>)
<1>1. ASSUME NEW z
      PROVE  Total(<<z>>) = IF Counts(z) THEN 1 ELSE 0
  <2>1. Selected(<<z>>) = IF Counts(z) THEN {1} ELSE {}
    <3>1. DOMAIN <<z>> = {1} /\ <<z>>[1] = z
      OBVIOUS
    <3>2. QED
      BY <3>1 DEF Selected, Counts
  <2>2. QED
    BY <2>1, FS_Singleton, FS_EmptySet DEF Total
<1>2. Selected(<<x, y>>) = (IF Counts(x) THEN {1} ELSE {}) \union (IF Counts(y) THEN {2} ELSE {})
  <2>1. DOMAIN <<x, y>> = {1, 2} /\ <<x, y>>[1] = x /\ <<x, y>>[2] = y
    OBVIOUS
  <2>2. QED
    BY <2>1 DEF Selected, Counts
<1>3. /\ Cardinality({}) = 0 /\ Cardinality({1}) = 1 /\ Cardinality({2}) = 1
      /\ Cardinality({1} \union {2}) = 2
  <2>1. IsFiniteSet({1}) /\ Cardinality({1}) = 1 /\ Cardinality({2}) = 1 /\ 2 \notin {1}
    BY FS_Singleton
  <2>2. Cardinality({1} \union {2}) = Cardinality({1}) + 1
    BY <2>1, FS_AddElement
  <2>3. QED
    BY <2>1, <2>2, FS_EmptySet
<1>4. {} \union {} = {} /\ {1} \union {} = {1} /\ {} \union {2} = {2}
  OBVIOUS
<1>5. Total(<<x, y>>) = (IF Counts(x) THEN 1 ELSE 0) + (IF Counts(y) THEN 1 ELSE 0)
  BY <1>2, <1>3, <1>4 DEF Total
<1>6. QED
  BY <1>1, <1>5

\* The summary counts a verdict once if the model took part in it, never if not,
\* and its figures add up, for windows of every length (stats.py:24).
THEOREM FiguresAreTrue == Spec => []FiguresCountTheModel
<1>1. DecidedInv => FiguresCountTheModel
  <2> SUFFICES ASSUME DecidedInv, row # Null, NEW other \in Others
               PROVE  LET rows == <<other, row>>
                      IN  /\ Total(<<row>>) = IF IsThresholdOnly(setting) THEN 0 ELSE 1
                          /\ Total(<<other>>) = IF other.source \in ByModel THEN 1 ELSE 0
                          /\ Total(rows) = Total(<<other>>) + Total(<<row>>)
                          /\ Total(rows) = BySeverity(rows, 0) + BySeverity(rows, 1)
                                           + BySeverity(rows, 2) + BySeverity(rows, Null)
                          /\ Total(rows) = ByLabelSource(rows, "model")
                                           + ByLabelSource(rows, "model+signature")
                                           + ByLabelSource(rows, "signature_override")
                                           + BySeverity(rows, Null)
    BY DEF FiguresCountTheModel
  <2>1. /\ row.severity \in Severities
        /\ row.source \in IF IsThresholdOnly(setting) THEN {"rc_demo_threshold"} ELSE ByModel
    BY ConfirmedWhenAgreed DEF DecidedInv, RowIsDecided, ScanInv
  <2>2. /\ other.severity \in Severities \union {Null}
        /\ other.source \in {Null, "manual_panic", "rc_demo_threshold", "model+signature"}
        /\ other.source = "model+signature" => other.severity \in Severities
    <3>1. 1 \in Severities /\ 2 \in Severities
      BY DEF Severities
    <3>2. CASE other = [severity |-> Null, confirmed |-> FALSE, source |-> Null]
      <4>1. other.severity = Null /\ other.source = Null
        BY <3>2
      <4>2. Null # "model+signature"
        BY NullAssumption DEF Sources
      <4>3. QED
        BY <4>1, <4>2
    <3>3. CASE other = Kept(2, "manual_panic")
      BY <3>1, <3>3 DEF Kept
    <3>4. CASE other = Kept(1, "rc_demo_threshold")
      BY <3>1, <3>4 DEF Kept
    <3>5. CASE other = Kept(1, "model+signature")
      BY <3>1, <3>5 DEF Kept
    <3>6. QED
      BY <3>2, <3>3, <3>4, <3>5, Zenon DEF Others
  <2>3. /\ \A s \in ByModel : SqlNotIn(s, Excluded)
        /\ ~ SqlNotIn(Null, Excluded)
        /\ ~ SqlNotIn("manual_panic", Excluded)
        /\ ~ SqlNotIn("rc_demo_threshold", Excluded)
        /\ "model+signature" \in ByModel
        /\ {Null, "manual_panic", "rc_demo_threshold"} \intersect ByModel = {}
    BY NullAssumption DEF SqlNotIn, Excluded, ByModel, Sources
  <2>4. /\ Counts(row) <=> ~ IsThresholdOnly(setting)
        /\ Counts(row) => row.source \in ByModel
        /\ Counts(other) <=> other.source \in ByModel
        /\ Counts(other) => other.severity \in Severities
    BY <2>1, <2>2, <2>3 DEF Counts
  <2>5. /\ IsFiniteSet(DOMAIN <<other, row>>)
        /\ \A i \in Selected(<<other, row>>) : /\ <<other, row>>[i].severity \in Severities
                                              /\ <<other, row>>[i].source \in ByModel
    <3>1. DOMAIN <<other, row>> = 1..2 /\ <<other, row>>[1] = other /\ <<other, row>>[2] = row
      OBVIOUS
    <3>2. IsFiniteSet(1..2) /\ \A i \in 1..2 : i = 1 \/ i = 2
      <4>1. IsFiniteSet(1..2)
        <5>1. 1 \in Int /\ 2 \in Int
          OBVIOUS
        <5>2. QED
          BY ONLY <5>1, FS_Interval
      <4>2. QED
        BY <4>1
    <3>3. \A i \in Selected(<<other, row>>) : i \in 1..2 /\ Counts(<<other, row>>[i])
      BY <3>1 DEF Selected, Counts
    <3>4. QED
      BY <2>1, <2>4, <3>1, <3>2, <3>3
  <2>6. QED
    BY <2>4, <2>5, TotalOfTwo, FiguresAddUp
<1>2. QED
  BY <1>1, DecidedInvariance, PTL
=============================================================================
