------------------------------ MODULE Backoff ------------------------------
(***************************************************************************)
(* The requeue delay the restart reconciler asks for when it must wait for *)
(* a pod's livenessProbe (makeResultForLivenessProbeWait in               *)
(* pkg/controllers/vdb/restart_reconciler.go).  The sample pod is read     *)
(* from the API server; its probe's PeriodSeconds and FailureThreshold are *)
(* Go int32 fields, multiplied in int32, converted to float32, scaled by   *)
(* PctOfLivenessProbeWait = 0.25, truncated to int and floored at          *)
(* MinWaitTime seconds.  Every conversion is modelled by what it does:     *)
(* the int32 product wraps, float32 rounds to 24 significant bits (to      *)
(* nearest, ties to even) and int() truncates toward zero.                 *)
(***************************************************************************)
EXTENDS Integers

\* Values the probe fields of the sample pod may hold: the API server
\* accepts any int32 and defaults a zero field, so 1 .. MaxInt32.
CONSTANTS Periods, Thresholds

\* 2^31 - 1; TLC's own integers stop there, so no value of the model
\* ever exceeds it.
MaxInt32 == 2147483647

ASSUME BackoffAssumption ==
  /\ Periods \subseteq 1 .. MaxInt32
  /\ Thresholds \subseteq 1 .. MaxInt32

\* const MinWaitTime = 10 (seconds).
MinWaitTime == 10

\* The product of two positive int32 values fits in int32 (no wrap).
ProductFits(p, t) == p <= MaxInt32 \div t

\* Base-2^11 digit i of a value below 2^33.
Digit(n, i) == (n \div 2^(11 * i)) % 2^11

\* The low 32 bits of p * t, as Go's int32 product keeps them, in three
\* digits: bits 0..10, 11..21 and 22..31.  Column sums stay below 2^24.
Low32Digits(p, t) ==
  LET c0 == Digit(p, 0) * Digit(t, 0)
      c1 == Digit(p, 0) * Digit(t, 1) + Digit(p, 1) * Digit(t, 0) + c0 \div 2^11
      c2 == Digit(p, 0) * Digit(t, 2) + Digit(p, 1) * Digit(t, 1)
              + Digit(p, 2) * Digit(t, 0) + c1 \div 2^11
  IN <<c0 % 2^11, c1 % 2^11, c2 % 2^10>>

\* The int32 product is negative when bit 31 of the low 32 bits is set;
\* otherwise it is the low 31 bits.
Int32ProductNegative(p, t) == Low32Digits(p, t)[3] >= 2^9
Int32Product(p, t) ==
  LET d == Low32Digits(p, t) IN d[1] + d[2] * 2^11 + d[3] * 2^22

\* Distance between neighbouring float32 values around 0 < m < 2^31.
Ulp(m) == IF m < 2^24 THEN 1
          ELSE 2^(CHOOSE j \in 1 .. 7 : m \div 2^(23 + j) = 1)

\* int(float32(m) * 0.25) for 0 <= m < 2^31: float32 rounds to nearest,
\* ties to even; the product by 0.25 is exact; int() truncates.  Computed
\* per ulp so that float32(m) = 2^31 is never formed.
QuarterOfFloat32(m) ==
  LET u == Ulp(m)
      q == m \div u
      r == m % u
      n == IF 2 * r > u \/ (2 * r = u /\ q % 2 = 1) THEN q + 1 ELSE q
  IN IF u >= 4 THEN n * (u \div 4) ELSE (n * u) \div 4

\* A timeToWait used without the math.Max floor.
MutRequeueSecondsNoFloor(period, threshold) ==
  IF Int32ProductNegative(period, threshold) THEN 0
  ELSE QuarterOfFloat32(Int32Product(period, threshold))

\* The seconds of RequeueAfter.  A negative int32 product gives a float32
\* at most 0 and a timeToWait at most 0, which the floor turns into
\* MinWaitTime.  time.Duration(s) * time.Second stays below 2^63 ns for
\* s < 2^30, so that product does not wrap.
RequeueSeconds(period, threshold) ==
  LET timeToWait == IF Int32ProductNegative(period, threshold) THEN 0
                    ELSE QuarterOfFloat32(Int32Product(period, threshold))
  IN IF timeToWait > MinWaitTime THEN timeToWait ELSE MinWaitTime

\* What the Get of the sample pod can return: NotFound, another error, a
\* pod without a livenessProbe, or a probe with its two fields.
ProbeSamples == [kind : {"Probe"}, period : Periods, threshold : Thresholds]
Samples == [kind : {"NotFound", "GetFails", "NoProbe"}, period : {0}, threshold : {0}]
             \cup ProbeSamples

\* ctrl.Result and error returned by makeResultForLivenessProbeWait.
MakeResultForLivenessProbeWait(s) ==
  CASE s.kind = "NotFound" -> [requeue |-> TRUE, after |-> 0, err |-> FALSE]
    [] s.kind = "GetFails" -> [requeue |-> FALSE, after |-> 0, err |-> TRUE]
    [] s.kind = "NoProbe"  -> [requeue |-> TRUE, after |-> 0, err |-> FALSE]
    [] OTHER -> [requeue |-> FALSE,
                 after |-> RequeueSeconds(s.period, s.threshold),
                 err |-> FALSE]

VARIABLES sample, result
vars == <<sample, result>>

Init ==
  /\ sample \in Samples
  /\ result = MakeResultForLivenessProbeWait(sample)

\* A later reconcile that must wait reads the sample pod again; the pod
\* spec may have been changed in between.
Resample ==
  /\ sample' \in Samples
  /\ result' = MakeResultForLivenessProbeWait(sample')

Spec == Init /\ [][Resample]_vars

TypeOK ==
  /\ sample \in Samples
  /\ result \in [requeue : BOOLEAN, after : Nat, err : BOOLEAN]

\* The liveness window of the probe, period x threshold in exact
\* arithmetic, when it is below 2^31: the time the kubelet takes to
\* restart a pod whose probe keeps failing.
ProbeWindow(s) == s.period * s.threshold

\* The spec's rule: a quarter of the window, floored at MinWaitTime.
QuarterOfWindow(w) == IF w \div 4 > MinWaitTime THEN w \div 4 ELSE MinWaitTime

(***************************************************************************)
(* The delay stays within what the comment of makeResultForLivenessProbeWait *)
(* promises: never below MinWaitTime, never longer than the liveness       *)
(* window, and exactly a quarter of the window (floored) whenever the      *)
(* window is exact in float32.                                             *)
(***************************************************************************)
RequeueTracksProbeWindow ==
  sample.kind = "Probe" =>
    /\ result.after >= MinWaitTime
    /\ ProductFits(sample.period, sample.threshold) =>
         LET w == ProbeWindow(sample)
         IN /\ result.after <= IF w > MinWaitTime THEN w ELSE MinWaitTime
            /\ w < 2^24 => result.after = QuarterOfWindow(w)

(***************************************************************************)
(* The spec's backoff rule for every probe the API server accepts: the     *)
(* wait is period x threshold x 0.25, floored at 10 s.  A window of 2^31   *)
(* or more has a quarter of at least 2^29, so there the rule asks at least *)
(* that much.                                                              *)
(***************************************************************************)
RequeueIsQuarterOfProbeWindow ==
  sample.kind = "Probe" =>
    IF ProductFits(sample.period, sample.threshold)
    THEN result.after = QuarterOfWindow(ProbeWindow(sample))
    ELSE result.after >= 2^29

=============================================================================
