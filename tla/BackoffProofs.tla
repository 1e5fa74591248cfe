------------------------------ MODULE BackoffProofs ------------------------------
(***************************************************************************)
(* Proofs about makeResultForLivenessProbeWait for every probe the API    *)
(* server accepts, every int32 period and failure threshold: the int32    *)
(* product is exact when it fits, float32 is exact below 2^24 and rounds   *)
(* by less than an ulp above, so the requeue delay tracks the liveness     *)
(* window.  Ranges are written as inequalities, never as literal          *)
(* intervals, which the SMT encoder would enumerate.                       *)
(***************************************************************************)
EXTENDS Backoff, TLAPS

\* The powers of two the digit and rounding arithmetic uses.
LEMMA Powers ==
  /\ 2^(11 * 0) = 1 /\ 2^(11 * 1) = 2048 /\ 2^(11 * 2) = 4194304
  /\ 2^11 = 2048 /\ 2^10 = 1024 /\ 2^9 = 512 /\ 2^22 = 4194304
  /\ 2^24 = 16777216
OBVIOUS

\* Dividing by 2^11 twice is dividing by 2^22.
LEMMA DivDiv ==
  ASSUME NEW a \in Nat
  PROVE  (a \div 2048) \div 2048 = a \div 4194304
<1> DEFINE q == a \div 4194304
           r == a % 4194304
<1>1. /\ a = q * 4194304 + r
      /\ r \in Int /\ 0 <= r /\ r < 4194304
      /\ q \in Nat
  BY SMT DEF q, r
<1>2. a \div 2048 = q * 2048 + (r \div 2048) /\ 0 <= r \div 2048 /\ r \div 2048 < 2048
  BY <1>1, SMT DEF q, r
<1>3. QED
  BY <1>2, SMT DEF q, r

\* A positive int32 value is the sum of its three base-2^11 digits.
LEMMA Digits ==
  ASSUME NEW n \in Int, 1 <= n, n <= MaxInt32
  PROVE  /\ Digit(n, 0) \in Int /\ 0 <= Digit(n, 0) /\ Digit(n, 0) < 2048
         /\ Digit(n, 1) \in Int /\ 0 <= Digit(n, 1) /\ Digit(n, 1) < 2048
         /\ Digit(n, 2) \in Int /\ 0 <= Digit(n, 2) /\ Digit(n, 2) < 512
         /\ n = Digit(n, 0) + Digit(n, 1) * 2048 + Digit(n, 2) * 4194304
<1> DEFINE m == n \div 2048
<1>1. /\ Digit(n, 0) = n % 2048
      /\ Digit(n, 1) = m % 2048
      /\ Digit(n, 2) = (n \div 4194304) % 2048
  BY Powers, SMT DEF Digit, m
<1>2. m \div 2048 = n \div 4194304
  BY DivDiv, SMT DEF m
<1>3. 0 <= n \div 4194304 /\ n \div 4194304 < 512
  BY SMT DEF MaxInt32
<1>4. n = m * 2048 + (n % 2048) /\ m = (m \div 2048) * 2048 + (m % 2048)
  BY SMT DEF m
<1>5. QED
  BY <1>1, <1>2, <1>3, <1>4, SMT DEF m

\* The product of two numbers in three base-2^11 digits, by columns.
LEMMA ColumnProduct ==
  ASSUME NEW p0 \in Int, NEW p1 \in Int, NEW p2 \in Int,
         NEW t0 \in Int, NEW t1 \in Int, NEW t2 \in Int
  PROVE  (p0 + p1 * 2048 + p2 * 4194304) * (t0 + t1 * 2048 + t2 * 4194304)
           = p0 * t0 + (p0 * t1 + p1 * t0) * 2048
             + (p0 * t2 + p1 * t1 + p2 * t0) * 4194304
             + (p1 * t2 + p2 * t1 + p2 * t2 * 2048) * 8589934592
BY SMT

\* The product of naturals is a natural.
LEMMA NatTimes ==
  ASSUME NEW x \in Nat, NEW y \in Nat
  PROVE  x * y \in Nat
BY SMT

\* A value at most the floor of MaxInt32 / t, times t, is at most MaxInt32.
LEMMA BelowQuotient ==
  ASSUME NEW a \in Nat, NEW t \in Int, 1 <= t, t <= MaxInt32,
         a <= MaxInt32 \div t
  PROVE  a * t <= MaxInt32
<1> DEFINE b == MaxInt32 \div t
           r == MaxInt32 % t
<1>1. MaxInt32 = b * t + r /\ b \in Int /\ r \in Int /\ 0 <= r
  BY SMT DEF MaxInt32, b, r
<1>2. a * t <= b * t
  <2>1. b \in Int /\ a <= b
    BY SMT DEF b, MaxInt32
  <2>2. (b - a) * t \in Nat
    BY <2>1, NatTimes, SMT
  <2>3. QED
    BY <2>1, <2>2, SMT
<1>3. QED
  BY <1>1, <1>2, SMT DEF MaxInt32

\* A multiple of 2^33 below 2^31 is zero.
LEMMA NoHighColumns ==
  ASSUME NEW a \in Nat, NEW h \in Nat, a + h * 8589934592 <= MaxInt32
  PROVE  h = 0
BY SMT DEF MaxInt32

\* When the exact product of two positive int32 values fits in int32, the
\* int32 product Go computes is that product and is not negative.
LEMMA ProductExact ==
  ASSUME NEW p \in Int, 1 <= p, p <= MaxInt32,
         NEW t \in Int, 1 <= t, t <= MaxInt32,
         ProductFits(p, t)
  PROVE  /\ ~Int32ProductNegative(p, t)
         /\ Int32Product(p, t) = p * t
<1> DEFINE P0 == Digit(p, 0)  P1 == Digit(p, 1)  P2 == Digit(p, 2)
           T0 == Digit(t, 0)  T1 == Digit(t, 1)  T2 == Digit(t, 2)
           S0 == P0 * T0
           S1 == P0 * T1 + P1 * T0
           S2 == P0 * T2 + P1 * T1 + P2 * T0
           H  == P1 * T2 + P2 * T1 + P2 * T2 * 2048
           c1 == S1 + S0 \div 2048
           c2 == S2 + c1 \div 2048
<1>1. p * t <= MaxInt32
  BY BelowQuotient, SMT DEF ProductFits
<1>2. /\ P0 \in Nat /\ P0 < 2048 /\ P1 \in Nat /\ P1 < 2048 /\ P2 \in Nat
      /\ T0 \in Nat /\ T0 < 2048 /\ T1 \in Nat /\ T1 < 2048 /\ T2 \in Nat
      /\ p = P0 + P1 * 2048 + P2 * 4194304
      /\ t = T0 + T1 * 2048 + T2 * 4194304
  BY Digits, SMT DEF P0, P1, P2, T0, T1, T2
<1>3. p * t = S0 + S1 * 2048 + S2 * 4194304 + H * 8589934592
  <2>1. p * t = (P0 + P1 * 2048 + P2 * 4194304) * (T0 + T1 * 2048 + T2 * 4194304)
    BY <1>2, SMT
  <2>2. (P0 + P1 * 2048 + P2 * 4194304) * (T0 + T1 * 2048 + T2 * 4194304)
          = S0 + S1 * 2048 + S2 * 4194304 + H * 8589934592
    BY <1>2, ColumnProduct, SMT DEF S0, S1, S2, H
  <2>3. QED
    BY <2>1, <2>2, SMT
<1>4. S0 \in Nat /\ S1 \in Nat /\ S2 \in Nat /\ H \in Nat
  <2>1. /\ P0 * T0 \in Nat /\ P0 * T1 \in Nat /\ P1 * T0 \in Nat
        /\ P0 * T2 \in Nat /\ P1 * T1 \in Nat /\ P2 * T0 \in Nat
        /\ P1 * T2 \in Nat /\ P2 * T1 \in Nat /\ P2 * T2 \in Nat
    BY <1>2, NatTimes
  <2>2. QED
    BY <2>1, SMT DEF S0, S1, S2, H
<1>5. H = 0
  <2>1. S0 + S1 * 2048 + S2 * 4194304 \in Nat
    BY <1>4, SMT
  <2>2. QED
    BY <1>1, <1>3, <1>4, <2>1, NoHighColumns, SMT
<1>6. /\ (S0 % 2048) + (c1 % 2048) * 2048 + c2 * 4194304 = p * t
      /\ c2 \in Int /\ 0 <= c2 /\ c2 < 512
  <2>1. S0 + S1 * 2048 + S2 * 4194304 = p * t
    BY <1>3, <1>4, <1>5, SMT
  <2>2. S0 + S1 * 2048 + S2 * 4194304 <= MaxInt32
    BY <1>1, <2>1, SMT
  <2>3. QED
    BY <1>4, <2>1, <2>2, SMT DEF c1, c2, MaxInt32
<1>7. Low32Digits(p, t) = <<S0 % 2048, c1 % 2048, c2 % 1024>>
  BY Powers, SMT DEF Low32Digits, P0, P1, P2, T0, T1, T2, S0, S1, S2, c1, c2
<1>8. c2 % 1024 = c2
  BY <1>6, SMT
<1>9. /\ Int32ProductNegative(p, t) <=> c2 >= 512
      /\ Int32Product(p, t) = (S0 % 2048) + (c1 % 2048) * 2048 + c2 * 4194304
  BY <1>7, <1>8, Powers, SMT DEF Int32ProductNegative, Int32Product
<1>10. QED
  BY <1>6, <1>9, SMT

\* The exponent Ulp chooses lies in 1 .. 7 whenever one fits.
LEMMA UlpExponent ==
  ASSUME NEW m, \E j \in 1 .. 7 : m \div 2^(23 + j) = 1
  PROVE  (CHOOSE j \in 1 .. 7 : m \div 2^(23 + j) = 1) \in 1 .. 7
BY Zenon

\* Below 2^24 every int32 value is a float32, so the quarter is exact.
LEMMA QuarterSmall ==
  ASSUME NEW m \in Int, 0 <= m, m < 16777216
  PROVE  QuarterOfFloat32(m) = m \div 4
BY Powers, SMT DEF QuarterOfFloat32, Ulp

\* The ulps above 2^24.
LEMMA SmallPowers ==
  ASSUME NEW j \in {1, 2, 3, 4, 5, 6, 7}
  PROVE  2^j \in {2, 4, 8, 16, 32, 64, 128}
<1>1. CASE j = 1  BY <1>1, SMT
<1>2. CASE j = 2  BY <1>2, SMT
<1>3. CASE j = 3  BY <1>3, SMT
<1>4. CASE j = 4  BY <1>4, SMT
<1>5. CASE j = 5  BY <1>5, SMT
<1>6. CASE j = 6  BY <1>6, SMT
<1>7. CASE j = 7  BY <1>7, SMT
<1>8. QED
  BY <1>1, <1>2, <1>3, <1>4, <1>5, <1>6, <1>7, Zenon

\* 2^24, the first int32 value from which float32 rounds.  Kept as a
\* name so that Zenon, which spells integer literals out, never sees it.
Two24 == 16777216

\* From 2^24 to 2^31 the distance between float32 neighbours is 2^j for
\* the j in 1 .. 7 with 2^(23 + j) <= m < 2^(24 + j).
LEMMA UlpLarge ==
  ASSUME NEW m \in Int, Two24 <= m, m <= MaxInt32
  PROVE  Ulp(m) \in {2, 4, 8, 16, 32, 64, 128}
<1> DEFINE Fits(j) == m \div 2^(23 + j) = 1
           J == CHOOSE j \in 1 .. 7 : Fits(j)
<1>1. /\ 2^(23 + 1) = 16777216 /\ 2^(23 + 2) = 33554432
      /\ 2^(23 + 3) = 67108864 /\ 2^(23 + 4) = 134217728
      /\ 2^(23 + 5) = 268435456 /\ 2^(23 + 6) = 536870912
      /\ 2^(23 + 7) = 1073741824
  OBVIOUS
<1>2. \E j \in 1 .. 7 : Fits(j)
  BY <1>1, SMT DEF Fits, MaxInt32, Two24
<1>3. J \in 1 .. 7
  BY <1>2, UlpExponent, Zenon DEF J, Fits
<1>4. Ulp(m) = 2^J
  BY Powers, SMT DEF Ulp, Fits, J, Two24
<1>5. J \in {1, 2, 3, 4, 5, 6, 7}
  BY <1>3, SMT
<1>6. 2^J \in {2, 4, 8, 16, 32, 64, 128}
  BY <1>5, SmallPowers, Zenon
<1>7. QED
  BY <1>4, <1>6, Zenon

\* From 2^24 on, float32 rounds m by at most half an ulp, and an ulp is at
\* most m / 2^23, so a quarter of the rounded value stays a natural below m.
LEMMA QuarterLarge ==
  ASSUME NEW m \in Int, Two24 <= m, m <= MaxInt32
  PROVE  QuarterOfFloat32(m) \in Nat /\ QuarterOfFloat32(m) <= m
<1>1. Ulp(m) \in {2, 4, 8, 16, 32, 64, 128}
  BY UlpLarge
<1>2. CASE Ulp(m) = 2
  BY <1>2, SMT DEF QuarterOfFloat32, Two24
<1>3. CASE Ulp(m) = 4
  BY <1>3, SMT DEF QuarterOfFloat32, Two24
<1>4. CASE Ulp(m) = 8
  BY <1>4, SMT DEF QuarterOfFloat32, Two24
<1>5. CASE Ulp(m) = 16
  BY <1>5, SMT DEF QuarterOfFloat32, Two24
<1>6. CASE Ulp(m) = 32
  BY <1>6, SMT DEF QuarterOfFloat32, Two24
<1>7. CASE Ulp(m) = 64
  BY <1>7, SMT DEF QuarterOfFloat32, Two24
<1>8. CASE Ulp(m) = 128
  BY <1>8, SMT DEF QuarterOfFloat32, Two24
<1>9. QED
  BY <1>1, <1>2, <1>3, <1>4, <1>5, <1>6, <1>7, <1>8, Zenon

\* A non-negative int32 product is an int32 value.
LEMMA Int32ProductRange ==
  ASSUME NEW p \in Int, NEW t \in Int, ~Int32ProductNegative(p, t)
  PROVE  Int32Product(p, t) \in Nat /\ Int32Product(p, t) <= MaxInt32
<1> DEFINE d == Low32Digits(p, t)
<1>1. /\ d[1] \in Int /\ 0 <= d[1] /\ d[1] < 2048
      /\ d[2] \in Int /\ 0 <= d[2] /\ d[2] < 2048
      /\ d[3] \in Int /\ 0 <= d[3] /\ d[3] < 1024
  BY Powers, SMT DEF d, Low32Digits, Digit
<1>2. d[3] < 512
  BY <1>1, Powers, SMT DEF d, Int32ProductNegative
<1>3. Int32Product(p, t) = d[1] + d[2] * 2048 + d[3] * 4194304
  BY Powers, SMT DEF d, Int32Product
<1>4. QED
  BY <1>1, <1>2, <1>3, SMT DEF MaxInt32

\* The delay is a natural: whatever the int32 product, timeToWait is one.
LEMMA TimeToWaitNat ==
  ASSUME NEW p \in Int, NEW t \in Int
  PROVE  LET timeToWait == IF Int32ProductNegative(p, t) THEN 0
                           ELSE QuarterOfFloat32(Int32Product(p, t))
         IN  timeToWait \in Nat
<1>1. CASE Int32ProductNegative(p, t)
  BY <1>1, SMT
<1>2. CASE ~Int32ProductNegative(p, t)
  <2> DEFINE w == Int32Product(p, t)
  <2>1. w \in Nat /\ w <= MaxInt32
    BY <1>2, Int32ProductRange DEF w
  <2>2. CASE w < Two24
    BY <2>1, <2>2, QuarterSmall, SMT DEF Two24
  <2>3. CASE Two24 <= w
    BY <2>1, <2>3, QuarterLarge, SMT
  <2>4. QED
    BY <1>2, <2>1, <2>2, <2>3, SMT DEF w, Two24
<1>3. QED
  BY <1>1, <1>2

\* The delay for one probe: never below MinWaitTime; when the product fits,
\* never above the window (or MinWaitTime), and a floored quarter of the
\* window when the window is below 2^24.
LEMMA RequeueBounds ==
  ASSUME NEW p \in Int, 1 <= p, p <= MaxInt32,
         NEW t \in Int, 1 <= t, t <= MaxInt32
  PROVE  /\ RequeueSeconds(p, t) >= MinWaitTime
         /\ ProductFits(p, t) =>
              /\ RequeueSeconds(p, t) <= IF p * t > MinWaitTime THEN p * t
                                         ELSE MinWaitTime
              /\ p * t < Two24 => RequeueSeconds(p, t) = QuarterOfWindow(p * t)
<1> DEFINE timeToWait == IF Int32ProductNegative(p, t) THEN 0
                         ELSE QuarterOfFloat32(Int32Product(p, t))
<1>1. RequeueSeconds(p, t) = IF timeToWait > MinWaitTime THEN timeToWait
                             ELSE MinWaitTime
  BY DEF RequeueSeconds, timeToWait
<1>2. timeToWait \in Nat
  BY TimeToWaitNat DEF timeToWait
<1>3. RequeueSeconds(p, t) >= MinWaitTime
  BY <1>1, <1>2, SMT DEF MinWaitTime
<1>4. ASSUME ProductFits(p, t)
      PROVE  /\ RequeueSeconds(p, t) <= IF p * t > MinWaitTime THEN p * t
                                        ELSE MinWaitTime
             /\ p * t < Two24 => RequeueSeconds(p, t) = QuarterOfWindow(p * t)
  <2> DEFINE w == p * t
  <2>1. ~Int32ProductNegative(p, t) /\ Int32Product(p, t) = w
    BY <1>4, ProductExact DEF w
  <2>2. w \in Nat /\ w <= MaxInt32
    BY <1>4, BelowQuotient, NatTimes, SMT DEF ProductFits, w
  <2>3. timeToWait = QuarterOfFloat32(w)
    BY <2>1 DEF timeToWait
  <2>4. CASE w < Two24
    <3>1. timeToWait = w \div 4
      BY <2>2, <2>3, <2>4, QuarterSmall, SMT DEF Two24
    <3>2. QED
      BY <1>1, <2>2, <2>4, <3>1, SMT DEF QuarterOfWindow, MinWaitTime, w
  <2>5. CASE Two24 <= w
    <3>1. timeToWait \in Nat /\ timeToWait <= w
      BY <2>2, <2>3, <2>5, QuarterLarge
    <3>2. QED
      BY <1>1, <2>2, <2>5, <3>1, SMT DEF MinWaitTime, w, Two24
  <2>6. QED
    BY <2>2, <2>4, <2>5, SMT DEF Two24
<1>5. QED
  BY <1>3, <1>4

(***************************************************************************)
(* The specification.  Every state holds the result of the last read of   *)
(* the sample pod, which is all RequeueTracksProbeWindow needs.            *)
(***************************************************************************)

\* The result is the one makeResultForLivenessProbeWait returns for the
\* sample last read.
ResultInv ==
  /\ sample \in Samples
  /\ result = MakeResultForLivenessProbeWait(sample)

\* Both the first and every later read set the result from the sample.
LEMMA ResultInvHolds == Spec => []ResultInv
<1>1. Init => ResultInv
  BY DEF Init, ResultInv
<1>2. ResultInv /\ [Resample]_vars => ResultInv'
  BY DEF ResultInv, Resample, vars
<1>3. QED
  BY <1>1, <1>2, PTL DEF Spec

\* For every probe period and failure threshold the API server accepts,
\* the RequeueAfter of makeResultForLivenessProbeWait is never below 10 s,
\* never longer than the liveness window when period x threshold fits in
\* int32, and exactly a floored quarter of the window below 2^24: the int32
\* product and the float32 conversion only bite above those bounds.
THEOREM ProbeWindowTracked == Spec => []RequeueTracksProbeWindow
<1>1. ResultInv => RequeueTracksProbeWindow
  <2> SUFFICES ASSUME ResultInv, sample.kind = "Probe"
               PROVE  RequeueTracksProbeWindow!2
    BY DEF RequeueTracksProbeWindow
  <2>1. sample \in ProbeSamples
    BY DEF ResultInv, Samples
  <2> DEFINE p == sample.period
             t == sample.threshold
  <2>2. /\ p \in Int /\ 1 <= p /\ p <= MaxInt32
        /\ t \in Int /\ 1 <= t /\ t <= MaxInt32
    <3>1. p \in Periods /\ t \in Thresholds
      BY <2>1 DEF ProbeSamples, p, t
    <3>2. p \in 1 .. MaxInt32 /\ t \in 1 .. MaxInt32
      BY <3>1, BackoffAssumption
    <3>3. QED
      BY <3>2, SMT
  <2>3. result.after = RequeueSeconds(p, t)
    BY <2>1 DEF ResultInv, MakeResultForLivenessProbeWait, ProbeSamples, p, t
  <2>4. ProbeWindow(sample) = p * t
    BY DEF ProbeWindow, p, t
  <2>5. 2^24 = Two24
    BY Powers DEF Two24
  <2>6. /\ RequeueSeconds(p, t) >= MinWaitTime
        /\ ProductFits(p, t) =>
             /\ RequeueSeconds(p, t) <= IF p * t > MinWaitTime THEN p * t
                                        ELSE MinWaitTime
             /\ p * t < Two24 => RequeueSeconds(p, t) = QuarterOfWindow(p * t)
    BY <2>2, RequeueBounds
  <2>7. QED
    BY <2>3, <2>4, <2>5, <2>6, Zenon DEF p, t
<1>2. QED
  BY <1>1, ResultInvHolds, PTL

=============================================================================
