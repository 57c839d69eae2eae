------------------------------- MODULE Verdict -------------------------------
(***************************************************************************)
(* How a window of samples becomes a severity, and which severities count: *)
(*   app/modules/inference/phase2_vendored.py   gate and decision          *)
(*   app/modules/inference/service.py           which decision is taken    *)
(*   app/modules/ingest.py                      what an incident keeps     *)
(*   app/modules/stats.py                       what the figures count     *)
(*                                                                         *)
(* One window is decided in this process: its samples are scanned for the  *)
(* longest excursion, then gate and model decide.  Magnitudes are in       *)
(* thousandths of g, as they are after the low-pass filter; the filter and *)
(* the model are not modelled, so a window may have any magnitudes and the *)
(* model may say anything of it.  Windows in m/s2 are refused before.      *)
(***************************************************************************)
EXTENDS Integers, FiniteSets, FiniteSetsExt

CONSTANTS
    Samples,    \* samples in a window
    TargetFs,   \* samples per second
    Levels,     \* magnitudes a sample may have
    Settings,   \* values SIGNATURE_PROFILE may have
    Tuning,     \* the RC_DEMO_* variables that are set, by the field they set
    Null        \* SQL NULL, None

ASSUME SampleAssumption ==
    /\ Samples \in Nat \ {0} /\ TargetFs \in Nat \ {0} /\ 1000 % TargetFs = 0
    /\ Levels \subseteq Nat

\* FULL_SCALE, SCALE_MODEL, RC_DEMO: thousandths of g, ms, thousandths of g s.
Profiles ==
    [full_scale  |-> [peakMin |-> 2000, peakMax |-> 7000, shortest |-> 40, longest |-> 250],
     scale_model |-> [peakMin |-> 2000, peakMax |-> 10000, shortest |-> 30, longest |-> 250],
     rc_demo     |-> [peakMin |-> 2000, peakMax |-> 16000, shortest |-> 10, longest |-> 250,
                      severe |-> 100]]

\* The variables that are set are limits of the demo's profile, and numbers.
ASSUME TuningAssumption ==
    /\ DOMAIN Tuning \subseteq DOMAIN Profiles.rc_demo
    /\ \A limit \in DOMAIN Tuning : Tuning[limit] \in Int

\* active_profile: a setting nobody knows is full_scale.
ProfileName(s) == IF s \in DOMAIN Profiles THEN s ELSE "full_scale"

Profile(s) ==
    [limit \in DOMAIN Profiles[ProfileName(s)] |->
        IF ProfileName(s) = "rc_demo" /\ limit \in DOMAIN Tuning THEN Tuning[limit]
        ELSE Profiles[ProfileName(s)][limit]]

IsThresholdOnly(s) == ProfileName(s) = "rc_demo"

Severities == 0..2    \* Normal, Moderate, Severe

Sources == {"model", "model+signature", "signature_override", "rc_demo_threshold",
            "manual_panic"}

VARIABLES
    setting,   \* SIGNATURE_PROFILE
    mag,       \* the magnitudes of the window
    model,     \* what the model says: the likeliest class, and whether P(crash) alerts
    seen,      \* samples scanned
    run,       \* length of the excursion the scan is in
    longest,   \* the longest so far
    row        \* what the incident's row keeps of the verdict, or Null

vars == <<setting, mag, model, seen, run, longest, row>>

Row == [severity: Severities, confirmed: BOOLEAN, source: Sources]

ASSUME NullAssumption == Null \notin Severities /\ Null \notin Sources /\ Null \notin Row

TypeOK ==
    /\ setting \in Settings
    /\ mag \in [1..Samples -> Levels]
    /\ model \in [label: Severities, crash: BOOLEAN]
    /\ seen \in 0..Samples /\ run \in 0..Samples /\ longest \in 0..Samples
    /\ row \in Row \union {Null}

Init ==
    /\ setting \in Settings
    /\ mag \in [1..Samples -> Levels]
    /\ model \in [label: Severities, crash: BOOLEAN]
    /\ seen = 0 /\ run = 0 /\ longest = 0
    /\ row = Null

-----------------------------------------------------------------------------
(* crash_signature                                                         *)

Larger(a, b) == IF a >= b THEN a ELSE b

Above(j) == mag[j] >= Profile(setting).peakMin

\* A faulty variant: an excursion goes on through a sample below the floor.
RunUnbroken(j) == IF Above(j) THEN run + 1 ELSE run

RunAfter(j) == IF Above(j) THEN run + 1 ELSE 0

ScanSample ==
    /\ seen < Samples
    /\ seen' = seen + 1
    /\ run' = RunAfter(seen + 1)
    /\ longest' = Larger(longest, run')
    /\ UNCHANGED <<setting, mag, model, row>>

Peak(m) == Max({m[j] : j \in 1..Samples})

Milliseconds(samples) == (samples * 1000) \div TargetFs

\* The impulse above the floor, in thousandths of g s.
ImpulseAbove(m, floor) ==
    MapThenSumSet(LAMBDA j : m[j] - 1000, {j \in 1..Samples : m[j] >= floor}) \div TargetFs

Impulse(m) == ImpulseAbove(m, Profile(setting).peakMin)

\* A faulty variant: the upper limit of the excursion is not looked at.
SignatureUnbounded(m, excursion) ==
    LET p == Profile(setting) IN
    /\ p.peakMin <= Peak(m) /\ Peak(m) < p.peakMax
    /\ p.shortest <= Milliseconds(excursion)

Signature(m, excursion) ==
    LET p == Profile(setting) IN
    /\ p.peakMin <= Peak(m) /\ Peak(m) < p.peakMax
    /\ p.shortest <= Milliseconds(excursion) /\ Milliseconds(excursion) <= p.longest

-----------------------------------------------------------------------------
(* The two decisions, and what the incident keeps                          *)

\* A faulty variant: the verdict does not say where it came from.
KeptUnlabelled(severity, source) ==
    [severity |-> severity, confirmed |-> severity >= 1, source |-> Null]

Kept(severity, source) ==
    [severity |-> severity, confirmed |-> severity >= 1, source |-> source]

\* run_threshold_only: the gate alone.
ThresholdOnly(m, excursion) ==
    Kept(IF ~ Signature(m, excursion) THEN 0
         ELSE IF Impulse(m) >= Profile(setting).severe THEN 2 ELSE 1,
         "rc_demo_threshold")

\* run_inference: model and gate must agree, and then the model grades.
ModelAndGate(m, excursion) ==
    IF model.crash /\ Signature(m, excursion)
    THEN Kept(Larger(model.label, 1), "model+signature")
    ELSE Kept(0, IF model.crash THEN "signature_override" ELSE "model")

Decision(m, excursion) ==
    IF IsThresholdOnly(setting) THEN ThresholdOnly(m, excursion) ELSE ModelAndGate(m, excursion)

\* _apply_classification
ApplyClassification(verdict) == row' = verdict

Decide ==
    /\ seen = Samples
    /\ row = Null
    /\ ApplyClassification(Decision(mag, longest))
    /\ UNCHANGED <<setting, mag, model, seen, run, longest>>

Next == ScanSample \/ Decide

Spec == Init /\ [][Next]_vars

-----------------------------------------------------------------------------
(* GET /stats/summary, as an operator on the rows of the incidents         *)

\* A faulty variant: demo runs are not excluded.
ExcludedPanics == {"manual_panic"}

Excluded == {"manual_panic", "rc_demo_threshold"}

\* The comparison with NULL is NULL, and the row is not selected.
SqlNotIn(x, S) == x # Null /\ x \notin S

Selected(rows) == {i \in DOMAIN rows : SqlNotIn(rows[i].source, Excluded)}

Total(rows) == Cardinality(Selected(rows))

BySeverity(rows, s) == Cardinality({i \in Selected(rows) : rows[i].severity = s})

ByLabelSource(rows, s) == Cardinality({i \in Selected(rows) : rows[i].source = s})

-----------------------------------------------------------------------------
(* Properties                                                              *)

\* Samples a to b are all at or above the floor.
Excursion(a, b) == \A j \in a..b : Above(j)

\* The scan of crash_signature: after any number of samples `run` is the
\* length of the excursion that the last one is in, no excursion so far is
\* longer than `longest`, and one is as long.
ScanIsExact ==
    /\ run <= seen /\ Excursion(seen - run + 1, seen)
    /\ run < seen => ~ Above(seen - run)
    /\ \A a, b \in 1..seen : a <= b /\ Excursion(a, b) => b - a + 1 <= longest
    /\ longest > 0 => \E a \in 1..seen : /\ a + longest - 1 <= seen
                                        /\ Excursion(a, a + longest - 1)

\* A window is confirmed as a crash only if it holds an excursion of a legal
\* length, none that is longer than the limit and no sample at the upper peak,
\* and, unless the demo's thresholds are in force, the model alerts: both must
\* agree (phase2_vendored.py:218).
CrashIsAgreed ==
    row # Null =>
       LET p == Profile(setting)
           Lasts(a, b) == /\ a <= b /\ Excursion(a, b)
                          /\ Milliseconds(b - a + 1) >= p.shortest
       IN  row.confirmed <=>
              /\ \A j \in 1..Samples : mag[j] < p.peakMax
              /\ \E a, b \in 1..Samples : Lasts(a, b)
              /\ \A a, b \in 1..Samples :
                    a <= b /\ Excursion(a, b) => Milliseconds(b - a + 1) <= p.longest
              /\ ~ IsThresholdOnly(setting) => model.crash

\* Next to whatever other incident there is, a verdict counts in the figures
\* once if the model took part in it and never if it did not; panics and demo runs
\* count nowhere; and the figures by severity, the one for pending incidents
\* included, and those by source add up (stats.py:24).  Whether an incident without
\* a verdict counts is left open: API_CONTRACT.md:202 and stats.py:36 say it does,
\* as pending, and the query leaves it out.
Others == {[severity |-> Null, confirmed |-> FALSE, source |-> Null],
           Kept(2, "manual_panic"), Kept(1, "rc_demo_threshold"), Kept(1, "model+signature")}

ByModel == {"model", "model+signature", "signature_override"}

FiguresCountTheModel ==
    row # Null =>
       \A other \in Others :
          LET rows    == <<other, row>>
              waiting == BySeverity(rows, Null)
          IN  /\ Total(<<row>>) = IF IsThresholdOnly(setting) THEN 0 ELSE 1
              /\ other.source # Null =>
                    Total(<<other>>) = IF other.source \in ByModel THEN 1 ELSE 0
              /\ Total(rows) = Total(<<other>>) + Total(<<row>>)
              /\ Total(rows) = BySeverity(rows, 0) + BySeverity(rows, 1) + BySeverity(rows, 2)
                               + waiting
              /\ Total(rows) = ByLabelSource(rows, "model") + ByLabelSource(rows, "model+signature")
                               + ByLabelSource(rows, "signature_override") + waiting
=============================================================================
