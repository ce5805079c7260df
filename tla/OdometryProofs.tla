---------------------------- MODULE OdometryProofs ----------------------------
(***************************************************************************)
(* The pose of the odometry, for every range of the counters, every filter *)
(* limit and every amount of noise.                                        *)
(***************************************************************************)
EXTENDS Odometry, TLAPS

USE OdometryAssumption

LEMMA DiffInt == ASSUME NEW a \in Int, NEW b \in Int PROVE Diff(a, b) \in Int
BY DEF Diff

LEMMA PlusType ==
  ASSUME NEW sum \in [Wheel -> Count], NEW inc \in [Wheel -> Int]
  PROVE  Plus(sum, inc) \in [Wheel -> Count]
<1> SUFFICES ASSUME NEW w \in Wheel PROVE (sum[w] + inc[w]) % Modulus \in Count
  BY DEF Plus
<1>1. sum[w] \in Int /\ inc[w] \in Int
  BY DEF Count
<1>2. Modulus \in Nat /\ Modulus > 0
  OBVIOUS
<1> QED BY <1>1, <1>2 DEF Count

LEMMA ZerosType == Zeros \in [Wheel -> Count]
BY DEF Zeros, Count

(* Every variable keeps its type; in particular no increment that doCalc   *)
(* adds is larger than the filter allows, on any wheel.                    *)
THEOREM TypeCorrect == Spec => []TypeOK
<1>1. Init => TypeOK
  <2> SUFFICES ASSUME Init PROVE TypeOK
    OBVIOUS
  <2>1. retVal \in [Wheel -> Count]
    BY DEF Init, Count
  <2>2. Zeros \in [Wheel -> -MaxDiff .. MaxDiff]
    BY DEF Zeros
  <2>3. noise \in 0 .. MaxNoise + 1
    BY DEF Init
  <2>4. turned = Zeros /\ known = Zeros /\ origin = Zeros /\ static_p = Zeros
        /\ pos = Zeros /\ ang = Zeros /\ delta = Zeros
    BY DEF Init
  <2>5. hits \in 0 .. MaxHits
    BY DEF Init
  <2>6. firstIn \in BOOLEAN /\ m_stopped \in BOOLEAN /\ raced \in BOOLEAN
        /\ pc = "idle"
    BY DEF Init
  <2> QED BY <2>1, <2>2, <2>3, <2>4, <2>5, <2>6, ZerosType DEF TypeOK
<1>2. TypeOK /\ [Next]_vars => TypeOK'
  <2> SUFFICES ASSUME TypeOK, [Next]_vars PROVE TypeOK'
    OBVIOUS
  <2> USE DEF TypeOK
  <2>1. ASSUME NEW w \in Wheel, NEW at \in Positions, Answer(w, at) PROVE TypeOK'
    <3>1. at \in Count
      BY DEF Count
    <3> QED BY <2>1, <3>1 DEF Answer, Turn, calcVars, sampleVars, poseVars
  <2>2. ASSUME NEW w \in Wheel, NEW at \in Positions, NEW value \in Corrupted,
               NoisyAnswer(w, at, value)
        PROVE TypeOK'
    <3>1. at \in Count /\ value \in Count
      BY DEF Count
    <3> QED BY <2>2, <3>1 DEF NoisyAnswer, Turn, calcVars, sampleVars, poseVars
  <2>3. CASE Baseline
    BY <2>3, ZerosType DEF Baseline, encVars, poseVars
  <2>4. CASE Filter
    <3>1. static_p' \in [Wheel -> Count] /\ known' \in [Wheel -> Count]
      BY <2>4 DEF Filter, NextBaseline
    <3>2. delta' \in [Wheel -> -MaxDiff .. MaxDiff]
      <4>1. CASE Rejected
        BY <2>4, <4>1 DEF Filter
      <4>2. CASE ~Rejected
        <5>1. ASSUME NEW w \in Wheel PROVE Increment(w) \in -MaxDiff .. MaxDiff
          <6>1. Increment(w) \in Int
            BY DiffInt DEF Increment, Count
          <6>2. Abs(Increment(w)) <= MaxDiff
            BY <4>2, <6>1 DEF Rejected, Abs
          <6> QED BY <6>1, <6>2 DEF Abs
        <5> QED BY <2>4, <4>2, <5>1 DEF Filter
      <4> QED BY <4>1, <4>2
    <3>3. m_stopped' \in BOOLEAN
      BY <2>4 DEF Filter
    <3> QED BY <2>4, <3>1, <3>2, <3>3 DEF Filter, encVars, poseVars
  <2>5. CASE AddPosition
    <3>1. pos' \in [Wheel -> Count]
      BY <2>5, PlusType, delta \in [Wheel -> Int] DEF AddPosition
    <3> QED BY <2>5, <3>1, ZerosType
        DEF AddPosition, AddedTo, encVars, sampleVars
  <2>6. CASE AddAngle
    <3>1. ang' \in [Wheel -> Count]
      BY <2>6, PlusType, delta \in [Wheel -> Int] DEF AddAngle
    <3>2. Zeros \in [Wheel -> -MaxDiff .. MaxDiff]
      BY DEF Zeros
    <3> QED BY <2>6, <3>1, <3>2, ZerosType DEF AddAngle, AddedTo, encVars
  <2>7. CASE Report
    BY <2>7 DEF Report, encVars, calcVars, sampleVars, poseVars
  <2>8. CASE Reset
    <3>1. hits' \in 0 .. MaxHits
      BY <2>8 DEF Reset
    <3>2. pos' \in [Wheel -> Count] /\ ang' \in [Wheel -> Count]
      BY <2>8, ZerosType DEF Reset, ResetAngle
    <3> QED BY <2>8, <3>1, <3>2 DEF Reset, encVars, calcVars, sampleVars
  <2>9. CASE UNCHANGED vars
    BY <2>9 DEF vars, encVars, calcVars, sampleVars, poseVars
  <2> QED BY <2>1, <2>2, <2>3, <2>4, <2>5, <2>6, <2>7, <2>8, <2>9
      DEF Next, ChassisTask
<1> QED BY <1>1, <1>2, PTL DEF Spec

(* How far the pose is between the two additions, and that a pose with     *)
(* firstIn up and nothing added since is the origin.                       *)
Whole ==
  ~raced =>
    /\ pc \in {"idle", "report"} =>
         pos = ang /\ (firstIn => pos = Zeros)
    /\ pc = "addPosition" /\ ~firstIn => pos = ang
    /\ pc = "addAngle" /\ ~firstIn => pos = Plus(ang, delta)

LEMMA WholeKept == Spec => []Whole
<1>1. Init => Whole
  BY DEF Init, Whole
<1>2. Whole /\ [Next]_vars => Whole'
  <2> SUFFICES ASSUME Whole, [Next]_vars PROVE Whole'
    OBVIOUS
  <2> USE DEF Whole
  <2>1. ASSUME NEW w \in Wheel, NEW at \in Positions,
               \/ Answer(w, at)
               \/ \E value \in Corrupted : NoisyAnswer(w, at, value)
        PROVE  Whole'
    BY <2>1 DEF Answer, NoisyAnswer, Turn, calcVars, sampleVars, poseVars
  <2>2. CASE Baseline
    BY <2>2 DEF Baseline, poseVars
  <2>3. CASE Filter
    BY <2>3 DEF Filter, poseVars
  <2>4. CASE AddPosition
    BY <2>4 DEF AddPosition, AddedTo, sampleVars
  <2>5. CASE AddAngle
    BY <2>5 DEF AddAngle, AddedTo
  <2>6. CASE Report
    BY <2>6 DEF Report, calcVars, sampleVars, poseVars
  <2>7. CASE Reset
    BY <2>7 DEF Reset, AtWork, ResetAngle, calcVars, sampleVars
  <2>8. CASE UNCHANGED vars
    BY <2>8 DEF vars, calcVars, sampleVars, poseVars
  <2> QED BY <2>1, <2>2, <2>3, <2>4, <2>5, <2>6, <2>7, <2>8
      DEF Next, ChassisTask
<1> QED BY <1>1, <1>2, PTL DEF Spec

(* Outside doCalc, position and heading have taken the same increments,    *)
(* unless a reset met doCalc at work.                                      *)
THEOREM PoseStaysWhole == Spec => []PoseWhole
<1>1. Whole => PoseWhole
  BY DEF Whole, PoseWhole, Resting
<1> QED BY <1>1, WholeKept, PTL

----------------------------------------------------------------------------
(* Arithmetic of the counters, which wrap.                                 *)

Centred(x) == Diff(x, 0)

(* Counts of the same class: they differ by whole turns of the counter.    *)
Same(x, y) == \E k \in Int : x = y + k * Modulus

LEMMA Division ==
  ASSUME NEW x \in Int
  PROVE  x % Modulus \in 0 .. Modulus - 1 /\ Same(x, x % Modulus)
<1>1. Modulus \in Nat \ {0}
  OBVIOUS
<1>2. x % Modulus \in 0 .. Modulus - 1
  BY <1>1
<1>3. x = (x % Modulus) + (x \div Modulus) * Modulus /\ x \div Modulus \in Int
  BY <1>1
<1>4. QED
  BY <1>2, <1>3 DEF Same

(* No multiple of Modulus but 0 is smaller than it.                        *)
LEMMA NoMultiple ==
  ASSUME NEW k \in Int, -Modulus < k * Modulus, k * Modulus < Modulus
  PROVE  k = 0
<1>1. CASE k >= 1
  BY <1>1
<1>2. CASE k <= -1
  BY <1>2
<1>3. QED
  BY <1>1, <1>2

(* Being of the same class is an equivalence that sums respect.            *)
LEMMA SameSym ==
  ASSUME NEW x \in Int, NEW y \in Int, Same(x, y)
  PROVE  Same(y, x)
<1>1. PICK k \in Int : x = y + k * Modulus
  BY DEF Same
<1>2. y = x + (-k) * Modulus /\ -k \in Int
  BY <1>1
<1>3. QED
  BY <1>2 DEF Same

LEMMA SameRefl ==
  ASSUME NEW x \in Int
  PROVE  Same(x, x)
<1>1. 0 \in Int /\ x = x + 0 * Modulus
  OBVIOUS
<1>2. QED
  BY <1>1 DEF Same

LEMMA SameAdd ==
  ASSUME NEW x \in Int, NEW y \in Int, NEW u \in Int, NEW v \in Int, Same(x, y), Same(u, v)
  PROVE  Same(x + u, y + v) /\ Same(x - u, y - v)
<1>1. PICK k \in Int : x = y + k * Modulus
  BY DEF Same
<1>2. PICK l \in Int : u = v + l * Modulus
  BY DEF Same
<1>3. x + u = y + v + (k + l) * Modulus /\ x - u = y - v + (k - l) * Modulus
  BY <1>1, <1>2
<1>4. k + l \in Int /\ k - l \in Int
  OBVIOUS
<1>5. QED
  BY <1>3, <1>4 DEF Same

LEMMA SameTrans ==
  ASSUME NEW x \in Int, NEW y \in Int, NEW z \in Int, Same(x, y), Same(y, z)
  PROVE  Same(x, z)
<1>1. PICK k \in Int : x = y + k * Modulus
  BY DEF Same
<1>2. PICK l \in Int : y = z + l * Modulus
  BY DEF Same
<1>3. x = z + (k + l) * Modulus /\ k + l \in Int
  BY <1>1, <1>2
<1>4. QED
  BY <1>3 DEF Same

(* Diff yields the count of its class that lies about 0 ...                *)
LEMMA CentredSame ==
  ASSUME NEW x \in Int
  PROVE  /\ Centred(x) \in Int
         /\ Same(Centred(x), x)
         /\ -Modulus <= 2 * Centred(x)
         /\ 2 * Centred(x) < Modulus
<1> DEFINE d == x % Modulus
<1>1. d \in 0 .. Modulus - 1 /\ Same(d, x)
  BY Division, SameSym
<1>2. Centred(x) = IF 2 * d >= Modulus THEN d - Modulus ELSE d
  <2>1. x - 0 = x
    OBVIOUS
  <2>2. QED
    BY <2>1 DEF Centred, Diff
<1> HIDE DEF d
<1>3. CASE 2 * d >= Modulus
  <2>1. Centred(x) = d - Modulus
    BY <1>2, <1>3
  <2>2. Same(Modulus, 0)
    <3>1. 1 \in Int /\ Modulus = 0 + 1 * Modulus
      OBVIOUS
    <3>2. QED
      BY <3>1 DEF Same
  <2>3. Same(d - Modulus, x - 0)
    BY <1>1, <2>2, SameAdd
  <2>4. Same(d - Modulus, x)
    BY <2>3
  <2>5. QED
    BY <1>1, <1>3, <2>1, <2>4
<1>4. CASE ~(2 * d >= Modulus)
  BY <1>1, <1>2, <1>4
<1>5. QED
  BY <1>3, <1>4

(* The centred count is the only one of its class about 0.                 *)
LEMMA CentredUnique ==
  ASSUME NEW x \in Int, NEW y \in Int, Same(x, y),
         -Modulus <= 2 * x, 2 * x < Modulus, -Modulus <= 2 * y, 2 * y < Modulus
  PROVE  x = y
<1>1. PICK k \in Int : x = y + k * Modulus
  BY DEF Same
<1>2. k * Modulus \in Int
  BY <1>1
<1>3. -Modulus < k * Modulus /\ k * Modulus < Modulus
  BY <1>1, <1>2
<1>4. k = 0
  BY <1>3, NoMultiple
<1>5. QED
  BY <1>1, <1>4

(* ... the same one for the whole class ...                                *)
LEMMA CentredEqual ==
  ASSUME NEW x \in Int, NEW y \in Int, Same(x, y)
  PROVE  Centred(x) = Centred(y)
<1>1. Same(Centred(x), Centred(y))
  <2>1. Same(Centred(x), y)
    BY CentredSame, SameTrans
  <2>2. Same(y, Centred(y))
    BY CentredSame, SameSym
  <2>3. QED
    BY CentredSame, <2>1, <2>2, SameTrans
<1>2. QED
  BY <1>1, CentredSame, CentredUnique

(* ... the smallest one ...                                                *)
LEMMA CentredLeast ==
  ASSUME NEW x \in Int
  PROVE  Abs(Centred(x)) <= Abs(x)
<1>1. CASE -Modulus <= 2 * x /\ 2 * x < Modulus
  <2>1. Centred(x) = x
    BY <1>1, CentredSame, CentredUnique
  <2>2. QED
    BY <2>1 DEF Abs
<1>2. CASE ~(-Modulus <= 2 * x /\ 2 * x < Modulus)
  BY <1>2, CentredSame DEF Abs
<1>3. QED
  BY <1>1, <1>2

(* ... so that a sum is no farther from 0 than its parts together.         *)
LEMMA CentredTriangle ==
  ASSUME NEW x \in Int, NEW y \in Int
  PROVE  Abs(Centred(x + y)) <= Abs(Centred(x)) + Abs(Centred(y))
<1>1. Same(Centred(x) + Centred(y), x + y)
  BY CentredSame, SameAdd
<1>2. Centred(x + y) = Centred(Centred(x) + Centred(y))
  BY <1>1, CentredSame, CentredEqual
<1>3. Abs(Centred(x + y)) <= Abs(Centred(x) + Centred(y))
  BY <1>2, CentredSame, CentredLeast
<1>4. QED
  BY <1>3, CentredSame DEF Abs

(* The same of the difference of two counts.                               *)
LEMMA DiffSame ==
  ASSUME NEW a \in Int, NEW b \in Int
  PROVE  /\ Diff(a, b) \in Int
         /\ Diff(a, b) = Centred(a - b)
         /\ Same(Diff(a, b), a - b)
<1>1. a - b \in Int /\ (a - b) - 0 = a - b
  OBVIOUS
<1>2. Diff(a, b) = Centred(a - b)
  BY <1>1 DEF Centred, Diff
<1>3. QED
  BY <1>1, <1>2, CentredSame

LEMMA CentredTwice ==
  ASSUME NEW x \in Int
  PROVE  Centred(Centred(x)) = Centred(x)
BY CentredSame, CentredEqual

(* A difference is its own difference from 0.                              *)
LEMMA DiffZero ==
  ASSUME NEW a \in Int, NEW b \in Int
  PROVE  Diff(Diff(a, b), 0) = Diff(a, b) /\ Diff(a, a) = 0
<1>1. Diff(Diff(a, b), 0) = Diff(a, b)
  BY DiffSame, CentredTwice DEF Centred
<1>2. Diff(a, a) = 0
  <2>1. a - a = 0
    OBVIOUS
  <2>2. Same(Centred(0), 0)
    BY CentredSame
  <2>3. Centred(0) = 0
    BY <2>2, CentredSame, CentredUnique
  <2>4. QED
    BY <2>1, <2>3, DiffSame
<1>3. QED
  BY <1>1, <1>2

(* How far a pose p is off, at count k and baseline o.                     *)
LEMMA OffSame ==
  ASSUME NEW p \in Int, NEW k \in Int, NEW o \in Int
  PROVE  /\ Diff(p, Diff(k, o)) \in Int
         /\ Same(Diff(p, Diff(k, o)), p - k + o)
         /\ Diff(p, Diff(k, o)) = Centred(p - k + o)
<1>1. Diff(k, o) \in Int /\ Same(Diff(k, o), k - o)
  BY DiffSame
<1>2. Same(p, p)
  BY SameRefl
<1>3. Same(p - Diff(k, o), p - (k - o))
  BY <1>1, <1>2, SameAdd
<1>4. p - (k - o) = p - k + o
  OBVIOUS
<1>5. Same(p - Diff(k, o), p - k + o) /\ p - Diff(k, o) \in Int
  BY <1>1, <1>3, <1>4
<1>6. Diff(p, Diff(k, o)) = Centred(p - Diff(k, o))
  BY <1>1, DiffSame
<1>7. Centred(p - Diff(k, o)) = Centred(p - k + o)
  BY <1>5, CentredEqual
<1>8. QED
  BY <1>6, <1>7, CentredSame

(* What an accepted sample makes of a pose p that is off: k and t are the  *)
(* true counts at this sample and the last, s and r what was read of them. *)
AcceptedMoves(p, k, o, inc, s, r, t) ==
  LET off  == Diff(p, Diff(k, o))
      then == Diff(p + inc, Diff(t, o))
  IN  /\ Abs(then) <= Abs(off) + Abs(inc) + Abs(Diff(t, k))
      /\ Diff(then, Diff(r, t)) = Diff(off, Diff(s, k))
      /\ Diff(r, t) = Diff(s, k) => then = off

LEMMA AcceptedSample ==
  ASSUME NEW p \in Int, NEW k \in Int, NEW o \in Int, NEW inc \in Int,
         NEW s \in Int, NEW r \in Int, NEW t \in Int, inc = Diff(r, s)
  PROVE  AcceptedMoves(p, k, o, inc, s, r, t)
<1> DEFINE off  == Diff(p, Diff(k, o))
           then == Diff(p + inc, Diff(t, o))
           gap  == Diff(s, k)
           jump == Diff(r, t)
           step == Diff(t, k)
<1>1. /\ inc \in Int /\ Same(inc, r - s)
      /\ step \in Int /\ Same(step, t - k)
      /\ gap \in Int /\ Same(gap, s - k)
      /\ jump \in Int /\ Same(jump, r - t)
  BY DiffSame
<1>2. off \in Int /\ Same(off, p - k + o) /\ off = Centred(p - k + o)
  BY ZenonT(60), OffSame
<1>3. /\ then \in Int
      /\ Same(then, (p + inc) - t + o)
      /\ then = Centred((p + inc) - t + o)
  <2>1. p + inc \in Int
    OBVIOUS
  <2> QED BY ZenonT(60), <2>1, OffSame
<1> HIDE DEF off, then, gap, jump, step
<1>4. Same(then, p + (r - s) - t + o)
  <2> DEFINE base == p - t + o
  <2>1. Same(base + inc, base + (r - s))
    <3>1. base \in Int /\ r - s \in Int
      OBVIOUS
    <3> HIDE DEF base
    <3>2. Same(base, base)
      BY <3>1, SameRefl
    <3>3. QED
      BY <1>1, <3>1, <3>2, SameAdd
  <2>2. Same((p + inc) - t + o, p + (r - s) - t + o)
    BY <1>1, <2>1, base + inc = (p + inc) - t + o,
       base + (r - s) = p + (r - s) - t + o
  <2>3. (p + inc) - t + o \in Int /\ p + (r - s) - t + o \in Int
    BY <1>1
  <2>4. QED
    BY <1>3, <2>2, <2>3, SameTrans
<1>5. Abs(then) <= Abs(off) + Abs(inc) + Abs(step)
  <2>1. Same((off + inc) - step, (p - k + o + (r - s)) - (t - k))
    BY <1>1, <1>2, SameAdd
  <2>2. (p - k + o + (r - s)) - (t - k) = p + (r - s) - t + o
    OBVIOUS
  <2>3. Same(then, (off + inc) - step)
    BY <1>1, <1>2, <1>3, <1>4, <2>1, <2>2, SameSym, SameTrans
  <2>4. Centred(then) = then
    BY <1>1, <1>3, CentredTwice
  <2>5. then = Centred((off + inc) - step)
    BY <1>1, <1>2, <1>3, <2>3, <2>4, CentredEqual
  <2>6. Abs(then) <= Abs((off + inc) - step)
    BY <1>1, <1>2, <2>5, CentredLeast
  <2>7. QED
    BY <1>1, <1>2, <1>3, <2>6 DEF Abs
<1>6. Same(then - jump, off - gap) /\ then - jump \in Int /\ off - gap \in Int
  <2> DEFINE base == p - k + o - (s - k)
  <2>1. Same(then - jump, (p + (r - s) - t + o) - (r - t))
    BY <1>1, <1>3, <1>4, SameAdd
  <2>2. Same(off - gap, (p - k + o) - (s - k))
    BY <1>1, <1>2, SameAdd
  <2>3. (p + (r - s) - t + o) - (r - t) = base /\ base \in Int
    OBVIOUS
  <2>4. then - jump \in Int /\ off - gap \in Int
    BY <1>1, <1>2, <1>3
  <2>5. Same(then - jump, base) /\ Same(off - gap, base)
    BY <2>1, <2>2, <2>3
  <2> HIDE DEF base
  <2>6. Same(base, off - gap)
    BY <2>3, <2>4, <2>5, SameSym
  <2>7. QED
    BY <2>3, <2>4, <2>5, <2>6, SameTrans
<1>7. Diff(then, jump) = Diff(off, gap)
  <2>1. Centred(then - jump) = Centred(off - gap)
    BY <1>6, CentredEqual
  <2>2. QED
    BY <1>1, <1>2, <1>3, <2>1, DiffSame
<1>8. ASSUME jump = gap PROVE then = off
  <2>1. Same(gap, gap)
    BY <1>1, SameRefl
  <2>2. Same((then - jump) + gap, (off - gap) + gap)
    BY <1>1, <1>6, <2>1, SameAdd
  <2>3. (then - jump) + gap = then /\ (off - gap) + gap = off
    BY <1>1, <1>2, <1>3, <1>8
  <2>4. Centred(then) = then /\ Centred(off) = off
    BY <1>1, <1>2, <1>3, CentredTwice
  <2>5. QED
    BY <1>2, <1>3, <2>2, <2>3, <2>4, CentredEqual
<1>9. QED
  BY <1>5, <1>7, <1>8 DEF AcceptedMoves, off, then, gap, jump, step

(* What a rejected sample makes of it: it leaves out what the wheel turned.*)
LEMMA RejectedSample ==
  ASSUME NEW p \in Int, NEW k \in Int, NEW o \in Int,
         NEW s \in Int, NEW r \in Int, NEW t \in Int
  PROVE  LET off  == Diff(p, Diff(k, o))
             then == Diff(p, Diff(t, o))
             gap  == Diff(s, k)
             jump == Diff(r, t)
         IN  /\ Abs(then) <= Abs(off) + Abs(Diff(t, k))
             /\ jump = gap => Abs(Diff(then, jump)) <= Abs(Diff(off, gap)) + Abs(Diff(t, k))
<1> DEFINE off  == Diff(p, Diff(k, o))
           then == Diff(p, Diff(t, o))
           gap  == Diff(s, k)
           jump == Diff(r, t)
           step == Diff(t, k)
<1>1. /\ step \in Int /\ Same(step, t - k)
      /\ gap \in Int /\ jump \in Int
  BY DiffSame
<1>2. off \in Int /\ Same(off, p - k + o)
  BY OffSame
<1>3. then \in Int /\ Same(then, p - t + o) /\ then = Centred(p - t + o)
  BY OffSame
<1> HIDE DEF off, then, gap, jump, step
<1>4. Same(then, off - step)
  <2>1. Same(off - step, (p - k + o) - (t - k))
    BY <1>1, <1>2, SameAdd
  <2>2. (p - k + o) - (t - k) = p - t + o
    OBVIOUS
  <2>3. QED
    BY <1>1, <1>2, <1>3, <2>1, <2>2, SameSym, SameTrans
<1>5. Abs(then) <= Abs(off) + Abs(step)
  <2>1. Centred(then) = then
    BY <1>3, CentredTwice
  <2>2. then = Centred(off - step)
    BY <1>1, <1>2, <1>3, <1>4, <2>1, CentredEqual
  <2>3. Abs(then) <= Abs(off - step)
    BY <1>1, <1>2, <2>2, CentredLeast
  <2>4. QED
    BY <1>1, <1>2, <1>3, <2>3 DEF Abs
<1>6. ASSUME jump = gap
      PROVE  Abs(Diff(then, jump)) <= Abs(Diff(off, gap)) + Abs(step)
  <2>1. Same(then - jump, (off - step) - gap)
    BY <1>1, <1>2, <1>3, <1>4, <1>6, SameRefl, SameAdd
  <2>2. (off - step) - gap = (off - gap) + (-step)
    BY <1>1, <1>2
  <2>3. Centred(then - jump) = Centred((off - gap) + (-step))
    BY <1>1, <1>2, <1>3, <2>1, <2>2, CentredEqual
  <2>4. Abs(Centred((off - gap) + (-step)))
          <= Abs(Centred(off - gap)) + Abs(Centred(-step))
    BY <1>1, <1>2, CentredTriangle
  <2>5. Abs(Centred(-step)) <= Abs(step) /\ Centred(-step) \in Int
    BY <1>1, CentredLeast, CentredSame, Abs(-step) = Abs(step) DEF Abs
  <2>6. Diff(then, jump) = Centred(then - jump) /\ Diff(off, gap) = Centred(off - gap)
    BY <1>1, <1>2, <1>3, DiffSame
  <2>7. Centred(then - jump) \in Int /\ Centred(off - gap) \in Int
    BY <1>1, <1>2, <1>3, CentredSame
  <2>8. QED
    BY <1>1, <2>3, <2>4, <2>5, <2>6, <2>7 DEF Abs
<1>7. QED
  BY <1>5, <1>6 DEF off, then, gap, jump, step

(* A sample whose reading is as wrong as its baseline shows the true motion.*)
LEMMA SteadySample ==
  ASSUME NEW k \in Int, NEW s \in Int, NEW r \in Int, NEW t \in Int,
         Diff(r, t) = Diff(s, k)
  PROVE  Diff(r, s) = Diff(t, k)
<1>1. Same(Diff(r, t), r - t) /\ Same(Diff(r, t), s - k) /\ Diff(r, t) \in Int
  BY DiffSame
<1>2. Same(r - t, s - k)
  BY <1>1, SameSym, SameTrans
<1>3. Same((r - t) + (t - s), (s - k) + (t - s))
  BY <1>2, SameRefl, SameAdd
<1>4. Same(r - s, t - k)
  BY <1>3, (r - t) + (t - s) = r - s, (s - k) + (t - s) = t - k
<1>5. QED
  BY <1>4, CentredEqual, DiffSame

----------------------------------------------------------------------------
(* What one corrupted position may cost, and the odometry of a wheel in    *)
(* counts: what its last reading and the baseline are wrong by, and how far*)
(* its pose is off, the increment that doCalc is adding included.          *)
Most    == MaxDiff + 2 * MaxStep
Jump(w) == Diff(retVal[w], turned[w])
Gap(w)  == Diff(static_p[w], known[w])
Taken(w) == IF pc = "addPosition" THEN pos[w] + delta[w] ELSE pos[w]
Off(w)  == Diff(Taken(w), Diff(known[w], origin[w]))

(* What is paid for a corrupted position that no sample has met yet, and   *)
(* for one that the next sample will correct.                              *)
Pending(w) == IF Jump(w) \notin {0, Gap(w)} THEN Most ELSE 0
Held(w)    == IF Gap(w) # 0 THEN MaxStep ELSE 0

(* The corrupted positions so far pay for all of it: for the pose as it is,*)
(* and as it will be when the next sample is true.                         *)
Bounds(w) ==
  LET due == Pending(w) + Pending(1 - w)
  IN  /\ Abs(Off(w)) + due + Held(w) + Held(1 - w) <= noise * Most
      /\ \/ Abs(Diff(Off(w), Gap(w))) + due + Held(1 - w) <= noise * Most
         \/ Abs(Off(w)) + MaxDiff + MaxStep + due + Held(1 - w) <= noise * Most

Near(w) == Abs(Diff(turned[w], known[w])) <= MaxStep

Accounted ==
  /\ \A w \in Wheel : Near(w)
  /\ \A w \in Wheel : Jump(w) # 0 => noise >= 1
  /\ ~raced /\ ~firstIn => \A w \in Wheel : Bounds(w)

Typed ==
  /\ noise * Most \in Nat
  /\ \A w \in Wheel :
       /\ retVal[w] \in Int /\ turned[w] \in Int /\ static_p[w] \in Int
       /\ known[w] \in Int /\ origin[w] \in Int /\ pos[w] \in Int
       /\ Taken(w) \in Int
       /\ Jump(w) \in Int /\ Gap(w) \in Int /\ Off(w) \in Int
       /\ Diff(turned[w], known[w]) \in Int
       /\ Diff(Off(w), Gap(w)) \in Int
       /\ Abs(Off(w)) \in Nat /\ Abs(Diff(Off(w), Gap(w))) \in Nat
       /\ Pending(w) \in {0, Most} /\ Held(w) \in {0, MaxStep}

(* Types of the terms of the account.                                      *)
LEMMA MostType == Most \in Nat /\ MaxStep \in Nat /\ MaxDiff \in Nat
BY DEF Most

LEMMA AbsNat == ASSUME NEW x \in Int PROVE Abs(x) \in Nat
BY DEF Abs

LEMMA Products ==
  ASSUME NEW n \in Nat
  PROVE  n * Most \in Nat /\ (n + 1) * Most = n * Most + Most
                          /\ (n >= 1 => n * Most >= Most)
<1>1. Most \in Nat
  BY MostType
<1>2. n * Most \in Nat /\ (n + 1) * Most = n * Most + Most
  BY <1>1
<1>3. ASSUME n >= 1 PROVE n * Most >= Most
  <2>1. n - 1 \in Nat
    BY <1>3
  <2>2. (n - 1) * Most \in Nat
    BY <1>1, <2>1
  <2>3. n * Most = (n - 1) * Most + Most
    BY <1>1, <2>1
  <2>4. QED
    BY <1>1, <2>2, <2>3
<1>4. QED
  BY <1>2, <1>3

LEMMA AccountTyped == TypeOK => Typed
<1> SUFFICES ASSUME TypeOK PROVE Typed
  OBVIOUS
<1>1. noise * Most \in Nat
  BY Products DEF TypeOK
<1> SUFFICES ASSUME NEW w \in Wheel
    PROVE  /\ retVal[w] \in Int /\ turned[w] \in Int /\ static_p[w] \in Int
           /\ known[w] \in Int /\ origin[w] \in Int /\ pos[w] \in Int
           /\ Taken(w) \in Int
           /\ Jump(w) \in Int /\ Gap(w) \in Int /\ Off(w) \in Int
           /\ Diff(turned[w], known[w]) \in Int
           /\ Diff(Off(w), Gap(w)) \in Int
           /\ Abs(Off(w)) \in Nat /\ Abs(Diff(Off(w), Gap(w))) \in Nat
           /\ Pending(w) \in {0, Most} /\ Held(w) \in {0, MaxStep}
  BY <1>1 DEF Typed
<1>2. /\ retVal[w] \in Int /\ turned[w] \in Int /\ static_p[w] \in Int
      /\ known[w] \in Int /\ origin[w] \in Int /\ pos[w] \in Int
      /\ delta[w] \in Int
  BY DEF TypeOK, Count
<1>3. Taken(w) \in Int
  BY <1>2 DEF Taken
<1>4. Jump(w) \in Int /\ Gap(w) \in Int /\ Diff(turned[w], known[w]) \in Int
      /\ Diff(known[w], origin[w]) \in Int
  BY <1>2, DiffSame DEF Jump, Gap
<1>5. Off(w) \in Int
  BY <1>3, <1>4, DiffSame DEF Off
<1>6. Diff(Off(w), Gap(w)) \in Int
  BY <1>4, <1>5, DiffSame
<1>7. QED
  BY <1>2, <1>3, <1>4, <1>5, <1>6, AbsNat DEF Pending, Held

(* There are two wheels.                                                   *)
LEMMA OtherWheel == ASSUME NEW w \in Wheel PROVE 1 - w \in Wheel /\ 1 - (1 - w) = w
BY DEF Wheel

(* The readings of a wheel change what is pending, nothing else; a true one*)
(* leaves nothing pending, a corrupted one is paid for.                    *)
LEMMA ReadingAccounted ==
  ASSUME TypeOK, TypeOK', Typed, Typed', Accounted, NEW w \in Wheel,
         NEW at \in Positions, NEW value \in Count, Turn(w, at),
         retVal' = [retVal EXCEPT ![w] = value],
         \/ value = at /\ noise' = noise
         \/ noise' = noise + 1
  PROVE  Accounted'
<1> DEFINE v == 1 - w
<1>1. v \in Wheel /\ v # w /\ \A u \in Wheel : u \in {v, w}
  BY DEF Wheel
<1> HIDE DEF v
<1>2. /\ turned' = [turned EXCEPT ![w] = at] /\ Abs(Diff(at, known[w])) <= MaxStep
      /\ UNCHANGED <<static_p, delta, known, origin, firstIn, pos, raced, pc>>
  BY DEF Turn, calcVars, sampleVars, poseVars
<1>3. turned'[w] = at /\ turned'[v] = turned[v]
      /\ retVal'[w] = value /\ retVal'[v] = retVal[v]
  BY <1>1, <1>2 DEF TypeOK
<1>4. \A u \in Wheel : Near(u)'
  BY <1>1, <1>2, <1>3 DEF Near, Accounted
<1>5. at \in Int
  BY DEF Count
<1>6. value = at => Jump(w)' = 0
  BY <1>3, <1>5, DiffZero DEF Jump
<1>7. Jump(v)' = Jump(v)
  BY <1>3 DEF Jump
<1>8. \A u \in Wheel : Jump(u)' # 0 => noise' >= 1
  BY <1>1, <1>6, <1>7 DEF Accounted, TypeOK
<1>9. ASSUME ~raced', ~firstIn', NEW u \in Wheel PROVE Bounds(u)'
  <2>1. /\ Gap(u)' = Gap(u) /\ Held(u)' = Held(u) /\ Held(1 - u)' = Held(1 - u)
        /\ Off(u)' = Off(u) /\ Diff(Off(u), Gap(u))' = Diff(Off(u), Gap(u))
        /\ Pending(v)' = Pending(v)
    BY <1>2, <1>7 DEF Gap, Held, Off, Taken, Pending
  <2>2. Bounds(u)
    BY <1>2, <1>9 DEF Accounted
  <2>3. Pending(w)' <= Pending(w) + (noise' * Most - noise * Most)
    <3>1. CASE value = at /\ noise' = noise
      <4>1. Pending(w)' = 0
        BY <1>6, <3>1 DEF Pending
      <4>2. Pending(w) \in Nat
        BY MostType DEF Typed
      <4>3. noise' * Most - noise * Most = 0
        BY <3>1 DEF Typed
      <4> QED BY <4>1, <4>2, <4>3
    <3>2. CASE noise' = noise + 1
      <4>1. noise' * Most = noise * Most + Most
        BY <3>2, Products DEF TypeOK
      <4>2. Pending(w)' \in {0, Most} /\ Pending(w) \in {0, Most}
        BY DEF Typed
      <4>3. noise * Most \in Nat
        BY DEF Typed
      <4> QED BY <4>1, <4>2, <4>3, MostType
    <3> QED BY <3>1, <3>2
  <2>4. Pending(u)' + Pending(1 - u)'
          <= Pending(u) + Pending(1 - u) + (noise' * Most - noise * Most)
    <3>1. /\ noise' * Most \in Nat /\ noise * Most \in Nat
          /\ Pending(w) \in Nat /\ Pending(v) \in Nat /\ Pending(w)' \in Nat
      BY <1>1, MostType DEF Typed
    <3>2. CASE u = w
      BY <2>1, <2>3, <3>1, <3>2 DEF v
    <3>3. CASE u = v
      BY <2>1, <2>3, <3>1, <3>3 DEF v, Wheel
    <3> QED BY <1>1, <3>2, <3>3
  <2>5. /\ noise' * Most \in Nat /\ noise * Most \in Nat
        /\ Pending(u) \in Nat /\ Pending(1 - u) \in Nat
        /\ Pending(u)' \in Nat /\ Pending(1 - u)' \in Nat
        /\ Held(u) \in Nat /\ Held(1 - u) \in Nat
        /\ Abs(Off(u)) \in Nat /\ Abs(Diff(Off(u), Gap(u))) \in Nat
    BY OtherWheel, MostType DEF Typed
  <2>6. /\ Abs(Off(u))' = Abs(Off(u))
        /\ Abs(Diff(Off(u), Gap(u)))' = Abs(Diff(Off(u), Gap(u)))
    BY <2>1
  <2> QED BY <2>1, <2>2, <2>4, <2>5, <2>6, MostType DEF Bounds
<1> QED BY <1>4, <1>8, <1>9 DEF Accounted

(* At the baseline of a pose nothing is off; a corrupted position in it has*)
(* been paid for.                                                          *)
LEMMA BaselineAccounted ==
  ASSUME TypeOK, TypeOK', Typed, Typed', Whole, Accounted, Baseline
  PROVE  Accounted'
<1>1. /\ pc = "idle" /\ firstIn /\ ~firstIn' /\ static_p' = retVal /\ known' = turned
      /\ origin' = (IF raced THEN Zeros ELSE turned)
      /\ UNCHANGED <<retVal, turned, noise, pos, raced, pc>>
  BY DEF Baseline, encVars, poseVars
<1>2. \A w \in Wheel : Jump(w)' = Jump(w) /\ Gap(w)' = Jump(w)
  BY <1>1 DEF Jump, Gap
<1>3. \A w \in Wheel : Diff(turned[w], turned[w]) = 0
  BY DiffZero DEF Typed
<1>4. \A w \in Wheel : Near(w)'
  BY <1>1, <1>3 DEF Near, Abs
<1>5. \A w \in Wheel : Jump(w)' # 0 => noise' >= 1
  BY <1>1, <1>2 DEF Accounted
<1>6. ASSUME ~raced, NEW w \in Wheel PROVE Bounds(w)'
  <2>1. Off(w)' = 0
    <3>1. pos = Zeros
      BY <1>1, <1>6 DEF Whole
    <3>2. Taken(w)' = 0
      BY <1>1, <3>1 DEF Taken, Zeros
    <3>3. Diff(known'[w], origin'[w]) = 0
      BY <1>1, <1>3, <1>6
    <3>4. Diff(0, 0) = 0
      BY DiffZero
    <3> QED BY <3>2, <3>3, <3>4 DEF Off
  <2>2. Pending(w)' = 0 /\ Pending(1 - w)' = 0
    BY <1>2, OtherWheel DEF Pending
  <2>3. /\ Held(w)' \in {0, MaxStep} /\ Held(1 - w)' \in {0, MaxStep}
        /\ noise' * Most \in Nat
    BY OtherWheel DEF Typed
  <2>4. Abs(0) = 0
    BY DEF Abs
  <2>5. CASE noise' >= 1
    <3>1. noise' * Most >= MaxDiff + 2 * MaxStep
      <4>1. noise' \in Nat
        BY DEF TypeOK
      <4>2. noise' * Most >= Most
        BY <2>5, <4>1, Products
      <4>3. Most = MaxDiff + 2 * MaxStep
        BY DEF Most
      <4> QED BY <4>2, <4>3
    <3>2. Held(w)' + Held(1 - w)' <= 2 * MaxStep
          /\ Held(1 - w)' \in Nat /\ Held(1 - w)' <= MaxStep
      BY <2>3, MostType
    <3>3. Abs(Off(w))' = 0
      BY <2>1, <2>4
    <3>4. 0 + (0 + 0) + Held(w)' + Held(1 - w)' <= noise' * Most
          /\ 0 + MaxDiff + MaxStep + (0 + 0) + Held(1 - w)' <= noise' * Most
      BY <2>3, <3>1, <3>2, MostType
    <3> QED BY <2>2, <3>3, <3>4 DEF Bounds
  <2>6. CASE ~(noise' >= 1)
    <3>1. Gap(w)' = 0 /\ Gap(1 - w)' = 0
      BY <1>2, <1>5, <2>6, OtherWheel
    <3>2. Held(w)' = 0 /\ Held(1 - w)' = 0
      BY <3>1 DEF Held
    <3>3. Diff(Off(w), Gap(w))' = 0
      BY <2>1, <3>1, DiffZero
    <3> QED BY <2>1, <2>2, <2>3, <2>4, <3>2, <3>3 DEF Bounds
  <2> QED BY <2>5, <2>6
<1> QED BY <1>1, <1>4, <1>5, <1>6 DEF Accounted

(* Before the next sample a corrupted position is either pending, or it is *)
(* in the baseline, or gone.                                               *)
LEMMA HeldNext ==
  ASSUME Typed, Typed', NEW w \in Wheel, Gap(w)' = Jump(w)
  PROVE  /\ Held(w)' <= Held(w) + Pending(w)
         /\ Jump(w) # Gap(w) => Held(w)' + MaxStep <= Held(w) + Pending(w)
         /\ Jump(w) = 0 => Held(w)' = 0
<1>1. Held(w)' = IF Jump(w) # 0 THEN MaxStep ELSE 0
  BY DEF Held
<1>2. CASE Jump(w) = Gap(w)
  BY <1>1, <1>2, MostType DEF Held, Pending, Typed
<1>3. CASE Jump(w) = 0 /\ Jump(w) # Gap(w)
  <2>1. Held(w)' = 0 /\ Held(w) = MaxStep /\ Pending(w) = 0
    BY <1>1, <1>3 DEF Held, Pending
  <2> QED BY <2>1, MostType
<1>4. CASE Jump(w) \notin {0, Gap(w)}
  <2>1. Held(w)' = MaxStep /\ Pending(w) = Most /\ Held(w) \in Nat
    BY <1>1, <1>4, MostType DEF Pending, Typed
  <2> QED BY <1>4, <2>1, MostType DEF Most
<1> QED BY <1>2, <1>3, <1>4

(* A sample settles what was pending: an accepted one takes it into the    *)
(* pose, a rejected one leaves out what the wheels turned.                 *)
LEMMA AcceptedAccounted ==
  ASSUME TypeOK, TypeOK', Typed, Typed', Accounted, ~raced,
         Filter, ~Rejected, NEW w \in Wheel,
         \A u \in Wheel : Gap(u)' = Jump(u) /\ Jump(u)' = Jump(u) /\ Pending(u)' = 0
  PROVE  Bounds(w)'
<1> DEFINE v == 1 - w
<1>1. v \in Wheel /\ Bounds(w) /\ Near(w)
  BY OtherWheel DEF Filter, Accounted
<1> HIDE DEF v
<1>2. Off(w)' = Diff(pos[w] + Diff(retVal[w], static_p[w]),
                     Diff(turned[w], origin[w]))
  <2>1. Taken(w)' = pos[w] + Increment(w)
    BY DEF Filter, Taken, poseVars
  <2> QED BY <2>1 DEF Filter, Off, Increment
<1>3. Off(w) = Diff(pos[w], Diff(known[w], origin[w]))
  BY DEF Filter, Off, Taken
<1>4. /\ Abs(Off(w))' <= Abs(Off(w)) + Abs(Increment(w)) + Abs(Diff(turned[w], known[w]))
      /\ Diff(Off(w)', Jump(w)) = Diff(Off(w), Gap(w))
      /\ Jump(w) = Gap(w) => Off(w)' = Off(w)
  <2>1. /\ retVal[w] \in Int /\ turned[w] \in Int /\ static_p[w] \in Int
        /\ known[w] \in Int /\ origin[w] \in Int /\ pos[w] \in Int
    BY DEF Typed
  <2> DEFINE p == pos[w]
             k == known[w]
             o == origin[w]
             s == static_p[w]
             r == retVal[w]
             t == turned[w]
             inc == Diff(r, s)
  <2>2. /\ p \in Int /\ k \in Int /\ o \in Int /\ s \in Int /\ r \in Int
        /\ t \in Int /\ inc \in Int
    BY <2>1, DiffSame
  <2>3. /\ Off(w)' = Diff(p + inc, Diff(t, o)) /\ Off(w) = Diff(p, Diff(k, o))
        /\ Jump(w) = Diff(r, t) /\ Gap(w) = Diff(s, k) /\ Increment(w) = inc
        /\ Diff(turned[w], known[w]) = Diff(t, k)
    BY <1>2, <1>3 DEF Jump, Gap, Increment
  <2>4. inc = Diff(r, s)
    OBVIOUS
  <2> HIDE DEF p, k, o, s, r, t, inc
  <2>5. AcceptedMoves(p, k, o, inc, s, r, t)
    BY <2>2, <2>4, AcceptedSample
  <2> QED BY <2>3, <2>5 DEF AcceptedMoves
<1>5. Increment(w) \in Int /\ Abs(Increment(w)) <= MaxDiff
  <2>1. Increment(w) \in Int
    BY DiffSame DEF Increment, Typed
  <2>2. Abs(Increment(w)) \in Int
    BY <2>1 DEF Abs
  <2> QED BY <2>1, <2>2 DEF Rejected
<1>6. Abs(Off(w))' <= Abs(Off(w)) + MaxDiff + MaxStep
  <2>1. Abs(Increment(w)) \in Nat /\ Abs(Diff(turned[w], known[w])) \in Nat
        /\ Abs(Off(w)) \in Nat /\ Abs(Off(w))' \in Nat
    BY <1>5, AbsNat DEF Typed
  <2> QED BY <1>1, <1>4, <1>5, <2>1, MostType DEF Near
<1>7. /\ Held(w)' <= Held(w) + Pending(w) /\ Held(v)' <= Held(v) + Pending(v)
      /\ Jump(w) = 0 => Held(w)' = 0
  BY <1>1, HeldNext
<1>8. /\ noise' = noise /\ noise * Most \in Nat
      /\ Pending(w)' = 0 /\ Pending(v)' = 0
      /\ Pending(w) \in {0, Most} /\ Pending(v) \in {0, Most}
      /\ Held(w) \in {0, MaxStep} /\ Held(v) \in {0, MaxStep}
      /\ Held(w)' \in {0, MaxStep} /\ Held(v)' \in {0, MaxStep}
      /\ Abs(Off(w)) \in Nat /\ Abs(Off(w))' \in Nat
      /\ Abs(Diff(Off(w), Gap(w))) \in Nat
      /\ MaxDiff \in Nat /\ MaxStep \in Nat /\ Most = MaxDiff + 2 * MaxStep
  BY <1>1 DEF Typed, Filter, encVars, Most
<1>9. /\ Abs(Off(w)) + (Pending(w) + Pending(v)) + Held(w) + Held(v) <= noise * Most
      /\ \/ Abs(Diff(Off(w), Gap(w))) + (Pending(w) + Pending(v)) + Held(v) <= noise * Most
         \/ Abs(Off(w)) + MaxDiff + MaxStep + (Pending(w) + Pending(v)) + Held(v)
              <= noise * Most
  BY <1>1 DEF Bounds, v
<1>10. Abs(Diff(Off(w), Gap(w)))' = Abs(Diff(Off(w), Gap(w)))
  BY <1>4
<1>11. SUFFICES
         /\ Abs(Off(w))' + Held(w)' + Held(v)' <= noise * Most
         /\ \/ Abs(Diff(Off(w), Gap(w))) + Held(v)' <= noise * Most
            \/ Abs(Off(w))' + MaxDiff + MaxStep + Held(v)' <= noise * Most
  BY <1>8, <1>10 DEF Bounds, v
<1>12. CASE Jump(w) = Gap(w)
  <2>1. Abs(Off(w))' = Abs(Off(w))
    BY <1>4, <1>12
  <2>2. Held(w)' = Held(w)
    BY <1>12 DEF Held
  <2> QED BY <1>7, <1>8, <1>9, <2>1, <2>2
<1>13. CASE Jump(w) = 0 /\ Jump(w) # Gap(w)
  <2>1. Abs(Off(w))' = Abs(Diff(Off(w), Gap(w)))
    <3>1. Diff(Off(w)', 0) = Off(w)'
      <4>1. Diff(retVal[w], static_p[w]) \in Int /\ pos[w] \in Int
            /\ Diff(turned[w], origin[w]) \in Int
        BY DiffSame DEF Typed
      <4>2. pos[w] + Diff(retVal[w], static_p[w]) \in Int
        BY <4>1
      <4> QED BY <1>2, <4>1, <4>2, DiffZero
    <3> QED BY <1>4, <1>13, <3>1
  <2> QED BY <1>6, <1>7, <1>8, <1>9, <1>13, <2>1
<1>14. CASE Jump(w) \notin {0, Gap(w)}
  <2>1. Pending(w) = Most
    BY <1>14 DEF Pending
  <2> QED BY <1>6, <1>7, <1>8, <1>9, <2>1
<1> QED BY <1>12, <1>13, <1>14

LEMMA RejectedAccounted ==
  ASSUME TypeOK, TypeOK', Typed, Typed', Accounted, ~raced,
         Filter, Rejected, NEW w \in Wheel,
         \A u \in Wheel : Gap(u)' = Jump(u) /\ Jump(u)' = Jump(u) /\ Pending(u)' = 0
  PROVE  Bounds(w)'
<1> DEFINE v == 1 - w
<1>1. v \in Wheel /\ Bounds(w) /\ Near(w) /\ Near(v) /\ \A u \in Wheel : u \in {w, v}
  BY OtherWheel DEF Filter, Accounted, Wheel
<1>2. v = 1 - w
  OBVIOUS
<1> HIDE DEF v
<1>3. Off(w)' = Diff(pos[w], Diff(turned[w], origin[w]))
  BY DEF Filter, Off, Taken, poseVars
<1>4. Off(w) = Diff(pos[w], Diff(known[w], origin[w]))
  BY DEF Filter, Off, Taken
<1>5. /\ Abs(Off(w))' <= Abs(Off(w)) + Abs(Diff(turned[w], known[w]))
      /\ Jump(w) = Gap(w) =>
           Abs(Diff(Off(w)', Jump(w)))
             <= Abs(Diff(Off(w), Gap(w))) + Abs(Diff(turned[w], known[w]))
  BY ZenonT(60), <1>3, <1>4, RejectedSample DEF Typed, Jump, Gap
<1>6. PICK j \in Wheel : Abs(Increment(j)) > MaxDiff
  BY DEF Rejected
<1>7. Jump(j) # Gap(j)
  <2> SUFFICES ASSUME Jump(j) = Gap(j) PROVE FALSE
    OBVIOUS
  <2>1. Increment(j) = Diff(turned[j], known[j])
    BY SteadySample DEF Increment, Jump, Gap, Typed
  <2>2. Abs(Increment(j)) <= MaxStep
    BY <2>1 DEF Accounted, Near
  <2>3. Abs(Increment(j)) \in Nat
    BY <2>1, AbsNat DEF Typed
  <2> QED BY <1>6, <2>2, <2>3, MostType
<1>8. /\ Held(w)' <= Held(w) + Pending(w) /\ Held(v)' <= Held(v) + Pending(v)
      /\ Jump(w) # Gap(w) => Held(w)' + MaxStep <= Held(w) + Pending(w)
      /\ Jump(v) # Gap(v) => Held(v)' + MaxStep <= Held(v) + Pending(v)
      /\ Jump(w) = 0 => Held(w)' = 0
  BY <1>1, HeldNext
<1>9. /\ noise' = noise /\ noise * Most \in Nat
      /\ Pending(w)' = 0 /\ Pending(v)' = 0
      /\ Pending(w) \in {0, Most} /\ Pending(v) \in {0, Most}
      /\ Held(w) \in {0, MaxStep} /\ Held(v) \in {0, MaxStep}
      /\ Held(w)' \in {0, MaxStep} /\ Held(v)' \in {0, MaxStep}
      /\ Abs(Off(w)) \in Nat /\ Abs(Off(w))' \in Nat
      /\ Abs(Diff(Off(w), Gap(w))) \in Nat /\ Abs(Diff(Off(w), Gap(w)))' \in Nat
      /\ MaxDiff \in Nat /\ MaxStep \in Nat /\ Most = MaxDiff + 2 * MaxStep
  BY <1>1 DEF Typed, Filter, encVars, Most
<1>10. /\ Abs(Off(w)) + (Pending(w) + Pending(v)) + Held(w) + Held(v) <= noise * Most
       /\ \/ Abs(Diff(Off(w), Gap(w))) + (Pending(w) + Pending(v)) + Held(v) <= noise * Most
          \/ Abs(Off(w)) + MaxDiff + MaxStep + (Pending(w) + Pending(v)) + Held(v)
               <= noise * Most
  BY <1>1, <1>2 DEF Bounds
<1>11. /\ Abs(Off(w))' <= Abs(Off(w)) + MaxStep
       /\ Jump(w) = Gap(w) =>
            Abs(Diff(Off(w), Gap(w)))' <= Abs(Diff(Off(w), Gap(w))) + MaxStep
  <2>1. Abs(Diff(turned[w], known[w])) \in Nat
        /\ Abs(Diff(turned[w], known[w])) <= MaxStep
    BY <1>1, AbsNat DEF Typed, Near
  <2>2. Abs(Diff(Off(w), Gap(w)))' = Abs(Diff(Off(w)', Jump(w)))
    OBVIOUS
  <2> QED BY <1>5, <1>9, <2>1, <2>2
<1>12. SUFFICES
         /\ Abs(Off(w))' + Held(w)' + Held(v)' <= noise * Most
         /\ \/ Abs(Diff(Off(w), Gap(w)))' + Held(v)' <= noise * Most
            \/ Abs(Off(w))' + MaxDiff + MaxStep + Held(v)' <= noise * Most
  BY <1>2, <1>9 DEF Bounds
<1>13. CASE Jump(w) = Gap(w)
  <2>1. Jump(v) # Gap(v)
    BY <1>1, <1>7, <1>13
  <2> QED BY <1>8, <1>9, <1>10, <1>11, <1>13, <2>1
<1>14. CASE Jump(w) = 0 /\ Jump(w) # Gap(w)
  <2>1. Abs(Diff(Off(w), Gap(w)))' = Abs(Off(w))'
    <3>1. Diff(Off(w)', 0) = Off(w)'
      <4>1. pos[w] \in Int /\ Diff(turned[w], origin[w]) \in Int
        BY DiffSame DEF Typed
      <4> QED BY <1>3, <4>1, DiffZero
    <3> QED BY <1>14, <3>1
  <2>2. Held(w) = MaxStep /\ Pending(w) = 0 /\ Held(w)' = 0
    BY <1>8, <1>14 DEF Held, Pending
  <2> QED BY <1>8, <1>9, <1>10, <1>11, <2>1, <2>2
<1>15. CASE Jump(w) \notin {0, Gap(w)}
  <2>1. Pending(w) = Most
    BY <1>15 DEF Pending
  <2> QED BY <1>8, <1>9, <1>10, <1>11, <1>15, <2>1
<1> QED BY <1>13, <1>14, <1>15

LEMMA SampleAccounted ==
  ASSUME TypeOK, TypeOK', Typed, Typed', Accounted, Filter
  PROVE  Accounted'
<1>1. /\ ~firstIn /\ static_p' = retVal /\ known' = turned
      /\ UNCHANGED <<retVal, turned, noise, firstIn, raced>>
  BY DEF Filter, NextBaseline, encVars, poseVars
<1>2. \A w \in Wheel : Gap(w)' = Jump(w) /\ Jump(w)' = Jump(w)
  BY <1>1 DEF Jump, Gap
<1>3. \A w \in Wheel : Pending(w)' = 0
  BY <1>2 DEF Pending
<1>4. \A w \in Wheel : Near(w)'
  <2>1. \A w \in Wheel : Diff(turned[w], turned[w]) = 0
    BY DiffZero DEF Typed
  <2> QED BY <1>1, <2>1 DEF Near, Abs
<1>5. \A w \in Wheel : Jump(w)' # 0 => noise' >= 1
  BY <1>1, <1>2 DEF Accounted
<1>6. ASSUME ~raced, NEW w \in Wheel PROVE Bounds(w)'
  BY <1>2, <1>3, <1>6, AcceptedAccounted, RejectedAccounted
<1> QED BY <1>1, <1>4, <1>5, <1>6 DEF Accounted

(* The addition itself wraps, and nothing else about it matters here.      *)
LEMMA AdditionAccounted ==
  ASSUME TypeOK, TypeOK', Typed, Typed', Accounted, AddPosition
  PROVE  Accounted'
<1>1. /\ pc = "addPosition" /\ pc' = "addAngle" /\ pos' = Plus(pos, delta)
      /\ raced' = (raced \/ firstIn) /\ (~raced' => origin' = origin)
      /\ UNCHANGED <<retVal, turned, noise, static_p, known, firstIn>>
  BY DEF AddPosition, AddedTo, encVars, sampleVars
<1>2. \A w \in Wheel : /\ Jump(w)' = Jump(w) /\ Gap(w)' = Gap(w)
                       /\ Near(w)' = Near(w)
                       /\ Held(w)' = Held(w) /\ Pending(w)' = Pending(w)
  BY <1>1 DEF Jump, Gap, Near, Held, Pending
<1>3. ASSUME ~raced', NEW w \in Wheel PROVE Off(w)' = Off(w)
  <2>1. pos[w] + delta[w] \in Int /\ pos'[w] \in Int
        /\ known[w] \in Int /\ origin[w] \in Int
    BY DEF Typed, TypeOK
  <2>2. pos'[w] = (pos[w] + delta[w]) % Modulus
    BY <1>1 DEF Plus
  <2>3. Same(pos'[w], pos[w] + delta[w])
    BY <2>1, <2>2, Division, SameSym
  <2>4. Off(w)' = Diff(pos'[w], Diff(known[w], origin[w]))
    BY <1>1, <1>3 DEF Off, Taken
  <2>5. Off(w) = Diff(pos[w] + delta[w], Diff(known[w], origin[w]))
    BY <1>1 DEF Off, Taken
  <2> DEFINE d == Diff(known[w], origin[w])
  <2>6. d \in Int
    BY <2>1, DiffSame
  <2>7. Off(w)' = Diff(pos'[w], d) /\ Off(w) = Diff(pos[w] + delta[w], d)
    BY <2>4, <2>5
  <2> HIDE DEF d
  <2>8. Same(d, d)
    BY <2>6, SameRefl
  <2>9. Same(pos'[w] - d, (pos[w] + delta[w]) - d)
    BY <2>1, <2>3, <2>6, <2>8, SameAdd
  <2>10. Centred(pos'[w] - d) = Centred((pos[w] + delta[w]) - d)
    BY <2>1, <2>6, <2>9, CentredEqual
  <2>11. Diff(pos'[w], d) = Centred(pos'[w] - d)
         /\ Diff(pos[w] + delta[w], d) = Centred((pos[w] + delta[w]) - d)
    BY <2>1, <2>6, DiffSame
  <2> QED BY <2>7, <2>10, <2>11
<1>4. ASSUME ~raced', ~firstIn', NEW w \in Wheel PROVE Bounds(w)'
  BY <1>1, <1>2, <1>3, <1>4, OtherWheel DEF Accounted, Bounds
<1> QED BY <1>1, <1>2, <1>4 DEF Accounted

(* The rest of doCalc and a reset leave the account as it is.              *)
LEMMA RestAccounted ==
  ASSUME Accounted, AddAngle \/ Report \/ UNCHANGED vars
  PROVE  Accounted'
<1>1. /\ UNCHANGED <<retVal, turned, noise, static_p, known, firstIn, pos>>
      /\ pc' = pc \/ (pc # "addPosition" /\ pc' # "addPosition")
      /\ pc' = pc => delta' = delta
      /\ ~raced' => ~raced /\ origin' = origin
  <2>1. CASE AddAngle
    BY <2>1 DEF AddAngle, AddedTo, encVars
  <2>2. CASE Report
    BY <2>2 DEF Report, encVars, calcVars, sampleVars, poseVars
  <2>3. CASE UNCHANGED vars
    BY <2>3 DEF vars, encVars, calcVars, sampleVars, poseVars
  <2> QED BY <2>1, <2>2, <2>3
<1>2. \A w \in {0, 1} : /\ Jump(w)' = Jump(w) /\ Gap(w)' = Gap(w)
                        /\ Near(w)' = Near(w) /\ Taken(w)' = Taken(w)
  BY <1>1 DEF Jump, Gap, Near, Taken
<1>3. \A w \in {0, 1} : /\ Held(w)' = Held(w) /\ Pending(w)' = Pending(w)
                        /\ (~raced' => Off(w)' = Off(w))
  BY <1>1, <1>2 DEF Held, Pending, Off
<1>4. ASSUME ~raced', ~firstIn', NEW w \in Wheel PROVE Bounds(w)'
  <2>1. w \in {0, 1} /\ 1 - w \in {0, 1}
    BY DEF Wheel
  <2>2. Bounds(w)
    BY <1>1, <1>4 DEF Accounted
  <2> QED BY <1>1, <1>2, <1>3, <1>4, <2>1, <2>2 DEF Bounds
<1> QED BY <1>1, <1>2, <1>4 DEF Accounted, Wheel

LEMMA ResetAccounted == ASSUME Accounted, Reset PROVE Accounted'
<1>1. firstIn' /\ UNCHANGED <<retVal, turned, noise, known>>
  BY DEF Reset, encVars, calcVars, sampleVars
<1> QED BY <1>1 DEF Accounted, Near, Jump

(* The account holds at first, and every step keeps it.                    *)
LEMMA AccountInit == Init => Accounted
<1> SUFFICES ASSUME Init PROVE Accounted
  OBVIOUS
<1>1. \A w \in Wheel : turned[w] = 0 /\ known[w] = 0
  BY DEF Init, Zeros
<1>2. Diff(0, 0) = 0
  BY DiffZero
<1>3. \A w \in Wheel : Near(w)
  BY <1>1, <1>2 DEF Near, Abs
<1>4. ASSUME NEW w \in Wheel, Jump(w) # 0 PROVE noise >= 1
  <2>1. retVal # turned
    BY <1>1, <1>2, <1>4 DEF Jump
  <2> QED BY <2>1 DEF Init
<1> QED BY <1>3, <1>4 DEF Accounted, Init

LEMMA AccountStep ==
  TypeOK /\ TypeOK' /\ Typed /\ Typed' /\ Whole /\ Accounted /\ [Next]_vars
    => Accounted'
<1> SUFFICES ASSUME TypeOK, TypeOK', Typed, Typed', Whole, Accounted, [Next]_vars
             PROVE  Accounted'
  OBVIOUS
<1>1. ASSUME NEW w \in Wheel, NEW at \in Positions, Answer(w, at)
      PROVE  Accounted'
  BY <1>1, ReadingAccounted DEF Answer, Count
<1>2. ASSUME NEW w \in Wheel, NEW at \in Positions, NEW value \in Corrupted,
             NoisyAnswer(w, at, value)
      PROVE  Accounted'
  BY <1>2, ReadingAccounted DEF NoisyAnswer, Count
<1>3. CASE Baseline
  BY <1>3, BaselineAccounted
<1>4. CASE Filter
  BY <1>4, SampleAccounted
<1>5. CASE AddPosition
  BY <1>5, AdditionAccounted
<1>6. CASE AddAngle \/ Report \/ UNCHANGED vars
  BY <1>6, RestAccounted
<1>7. CASE Reset
  BY <1>7, ResetAccounted
<1> QED BY <1>1, <1>2, <1>3, <1>4, <1>5, <1>6, <1>7 DEF Next, ChassisTask

(* Every corrupted position costs the pose at most the filter's limit and  *)
(* the motion of two samples, whatever was lost, wrapped or read twice.    *)
THEOREM NoiseStaysBounded == Spec => []NoiseBounded
<1>1. TypeOK /\ Typed /\ Accounted => NoiseBounded
  <2> SUFFICES ASSUME Typed, Accounted, Resting, ~raced, ~firstIn, NEW w \in Wheel
               PROVE  Abs(Error(w)) <= noise * (MaxDiff + 2 * MaxStep)
    BY DEF NoiseBounded
  <2>1. Off(w) = Error(w)
    BY DEF Resting, Off, Taken, Error
  <2>2. Bounds(w)
    BY DEF Accounted
  <2>3. /\ Abs(Off(w)) \in Nat /\ noise * Most \in Nat
        /\ Pending(w) \in Nat /\ Pending(1 - w) \in Nat
        /\ Held(w) \in Nat /\ Held(1 - w) \in Nat
    BY OtherWheel, MostType DEF Typed
  <2>4. Abs(Off(w)) <= noise * Most
    BY <2>2, <2>3 DEF Bounds
  <2> QED BY <2>1, <2>4 DEF Most
<1>2. Spec => []Accounted
  BY AccountInit, AccountStep, AccountTyped, TypeCorrect, WholeKept, PTL DEF Spec
<1> QED BY <1>1, <1>2, AccountTyped, TypeCorrect, PTL

==============================================================================
