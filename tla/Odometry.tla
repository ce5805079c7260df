------------------------------- MODULE Odometry -------------------------------
(***************************************************************************)
(* The odometry of src/src/Mileage.cxx: CChassisDevice::report() feeds the *)
(* positions in _retVal to doCalc, which filters them, differences them    *)
(* and adds the differences to the pose; a message 0xA005 resets the pose  *)
(* in the dispatch task, which may preempt doCalc between any two          *)
(* statements.  The statements up to the increments share only firstIn     *)
(* with the reset and are one step; the additions are steps of their own.  *)
(*                                                                         *)
(* The chassis is a DOUBLE_DIFF one, the only one forwardKinematicsTrans   *)
(* serves.  The kinematics are linear in the increments of the wheels up   *)
(* to the heading, so a component of the pose is kept as what it has taken *)
(* from each wheel: pos for m_x and m_y, ang for m_angle.                  *)
(***************************************************************************)
EXTENDS Integers

CONSTANTS
  Modulus,      \* encoder counts wrap here (2^32); so do the sums kept here
  MaxDiff,      \* ENCODER_MAX_DIFF
  CriticalDelta,\* critical_delta, in whole counts
  Positions,    \* where a wheel may be (bound)
  MaxStep,      \* counts a wheel turns between two samples of the odometry
  Corrupted,    \* what a corrupted or uninitialised position may be (bound)
  MaxNoise,     \* bound: corrupted positions in a behaviour
  MaxHits       \* bound: resets that find doCalc at work

ASSUME OdometryAssumption ==
  /\ Modulus \in Nat /\ MaxDiff \in Nat /\ MaxStep \in Nat
  /\ MaxNoise \in Nat /\ MaxHits \in Nat /\ CriticalDelta \in Nat
  /\ MaxStep <= MaxDiff
  /\ 2 * MaxDiff < Modulus
  /\ Positions \cup Corrupted \subseteq 0 .. Modulus - 1

VARIABLES
  retVal,     \* _retVal: the last position read from each wheel
  static_p,
  firstIn,
  pos,        \* what m_x and m_y have taken from each wheel
  ang,        \* what m_angle has
  delta,      \* wheelPos: the increments of the sample doCalc is adding
  m_stopped,
  pc,         \* where the chassis task is in report() and doCalc
  turned,     \* where each wheel really was when it answered last
  known,      \* history: where it was when doCalc sampled it last
  origin,     \* history: where it was at the baseline of the pose, if not raced
  noise,      \* history: corrupted positions so far
  raced,      \* history: increments were added after a reset, to its pose
  hits        \* history: resets so far that found doCalc at work

encVars  == <<retVal, turned, noise>>
sampleVars == <<static_p, delta, m_stopped, known>>
calcVars == <<sampleVars, origin>>
poseVars == <<pos, ang, raced, hits>>
vars == <<encVars, calcVars, firstIn, poseVars, pc>>

Wheel == {0, 1}

Count == 0 .. Modulus - 1

(* The difference of two counts as an int32_t.                             *)
Diff(a, b) ==
  LET d == (a - b) % Modulus IN IF 2 * d >= Modulus THEN d - Modulus ELSE d

Abs(d) == IF d < 0 THEN -d ELSE d

Plus(sum, inc) == [w \in Wheel |-> (sum[w] + inc[w]) % Modulus]

Zeros == [w \in Wheel |-> 0]

(* The device is a heap object and its constructor leaves _retVal as it    *)
(* finds it; static_p is cleared.                                          *)
Init ==
  /\ retVal \in [Wheel -> Corrupted \cup {0}]
  /\ static_p = Zeros
  /\ firstIn = TRUE
  /\ pos = Zeros
  /\ ang = Zeros
  /\ delta = Zeros
  /\ m_stopped = TRUE
  /\ pc = "idle"
  /\ turned = Zeros
  /\ known = Zeros
  /\ origin = Zeros
  /\ noise = IF retVal = turned THEN 0 ELSE 1
  /\ raced = FALSE
  /\ hits = 0

----------------------------------------------------------------------------
(* The wheels.  A query may be aborted after any of its answers, or before *)
(* the first: then report() sees the positions of earlier queries.         *)

Turn(w, at) ==
  /\ pc = "idle"
  /\ Abs(Diff(at, known[w])) <= MaxStep
  /\ turned' = [turned EXCEPT ![w] = at]
  /\ UNCHANGED <<calcVars, firstIn, poseVars, pc>>

Answer(w, at) ==
  /\ Turn(w, at)
  /\ retVal' = [retVal EXCEPT ![w] = at]
  /\ UNCHANGED noise

(* A corrupted position.                                                   *)
NoisyAnswer(w, at, value) ==
  /\ noise < MaxNoise
  /\ Turn(w, at)
  /\ retVal' = [retVal EXCEPT ![w] = value]
  /\ noise' = noise + 1

----------------------------------------------------------------------------
(* The chassis task.                                                       *)

(* The first sample is only a baseline; doCalc returns 1.                  *)
Baseline ==
  /\ pc = "idle"
  /\ firstIn
  /\ firstIn' = FALSE
  /\ static_p' = retVal
  /\ known' = turned
  /\ origin' = IF raced THEN Zeros ELSE turned
  /\ UNCHANGED <<encVars, poseVars, delta, m_stopped, pc>>

IncrementUnwrapped(w) == retVal[w] - static_p[w]

Increment(w) == Diff(retVal[w], static_p[w])

RejectedByFirstWheel == Abs(Increment(0)) > MaxDiff

Rejected == \E w \in Wheel : Abs(Increment(w)) > MaxDiff

(* The loop over the wheels ends at the first that jumps.                  *)
Visited(w) == \A v \in 0 .. w : Abs(Increment(v)) <= MaxDiff

KeptWhenRejected == IF Rejected THEN static_p ELSE retVal

(* The baseline after a sample, accepted or not.                           *)
NextBaseline == retVal

(* One wheel with a large jump gives up the sample for all of them, and    *)
(* doCalc returns 2; of the wheels before it, m_stopped keeps the trace.   *)
Filter ==
  /\ pc = "idle"
  /\ ~firstIn
  /\ static_p' = NextBaseline
  /\ known' = turned
  /\ m_stopped' = (/\ m_stopped
                   /\ \A w \in Wheel :
                        Visited(w) => Abs(Increment(w)) <= CriticalDelta)
  /\ IF Rejected
       THEN UNCHANGED <<delta, pc>>
       ELSE /\ delta' = [w \in Wheel |-> Increment(w)]
            /\ pc' = "addPosition"
  /\ UNCHANGED <<encVars, firstIn, poseVars, origin>>

(* The history of an addition: after a reset, it goes to the new pose.     *)
AddedTo ==
  /\ raced' = (raced \/ firstIn)
  /\ origin' = IF raced' THEN Zeros ELSE origin

AddPosition ==
  /\ pc = "addPosition"
  /\ pos' = Plus(pos, delta)
  /\ AddedTo
  /\ pc' = "addAngle"
  /\ UNCHANGED <<encVars, sampleVars, firstIn, ang, hits>>

AddAngle ==
  /\ pc = "addAngle"
  /\ ang' = Plus(ang, delta)
  /\ AddedTo
  /\ delta' = Zeros  \* wheelPos ends with doCalc
  /\ pc' = "report"
  /\ UNCHANGED <<encVars, static_p, m_stopped, known, firstIn, pos, hits>>

(* doCalc has returned 0: the pose is reported.                            *)
Report ==
  /\ pc = "report"
  /\ pc' = "idle"
  /\ UNCHANGED <<encVars, calcVars, firstIn, poseVars>>

----------------------------------------------------------------------------
(* The dispatch task.  A reset that falls between the load and the store   *)
(* of an addition has no effect on what is being added to.                 *)

ResetAngleForgotten(survives) == ang

ResetAngle(survives) == IF survives THEN ang ELSE Zeros

AtWork == pc \in {"addPosition", "addAngle"}

Reset ==
  /\ hits' = IF AtWork THEN hits + 1 ELSE hits
  /\ hits' <= MaxHits
  /\ firstIn' = TRUE
  /\ \E survives \in BOOLEAN :
       /\ survives => AtWork
       /\ pos' = IF survives /\ pc = "addPosition" THEN pos ELSE Zeros
       /\ ang' = ResetAngle(survives /\ pc = "addAngle")
  /\ raced' = FALSE
  /\ UNCHANGED <<encVars, calcVars, pc>>

ChassisTask == Baseline \/ Filter \/ AddPosition \/ AddAngle \/ Report

Next ==
  \/ \E w \in Wheel, at \in Positions :
       \/ Answer(w, at)
       \/ \E value \in Corrupted : NoisyAnswer(w, at, value)
  \/ ChassisTask
  \/ Reset

Spec == Init /\ [][Next]_vars

(* The chassis task goes on: its queries end, answered or aborted.         *)
FairSpec == Spec /\ WF_vars(ChassisTask)

----------------------------------------------------------------------------
(* Properties.                                                             *)

(* Every variable has its type; an increment is one the filter accepts.    *)
TypeOK ==
  /\ retVal \in [Wheel -> Count]
  /\ static_p \in [Wheel -> Count]
  /\ firstIn \in BOOLEAN
  /\ pos \in [Wheel -> Count]
  /\ ang \in [Wheel -> Count]
  /\ delta \in [Wheel -> -MaxDiff .. MaxDiff]
  /\ m_stopped \in BOOLEAN
  /\ pc \in {"idle", "addPosition", "addAngle", "report"}
  /\ turned \in [Wheel -> Count]
  /\ known \in [Wheel -> Count]
  /\ origin \in [Wheel -> Count]
  /\ noise \in 0 .. MaxNoise + 1
  /\ raced \in BOOLEAN
  /\ hits \in 0 .. MaxHits

Resting == pc = "idle"

(* Position and heading have taken the same increments whenever doCalc is  *)
(* not at work, and nothing after a reset -- unless the reset fell into    *)
(* doCalc itself, after which the pose stays wrong until the next one.     *)
PoseWhole ==
  Resting /\ ~raced =>
    /\ pos = ang
    /\ firstIn => pos = Zeros

(* How far the pose is from what a wheel has turned since its baseline.    *)
Error(w) == Diff(pos[w], Diff(known[w], origin[w]))

(* Aborted queries, stale positions and wrapping counters cost nothing     *)
(* lasting, and each corrupted position at most ENCODER_MAX_DIFF and the   *)
(* motion of two samples, whichever of "accepted" and "rejected" it and    *)
(* the true position after it meet.                                        *)
NoiseBounded ==
  Resting /\ ~raced /\ ~firstIn =>
    \A w \in Wheel : Abs(Error(w)) <= noise * (MaxDiff + 2 * MaxStep)

(* The filter does not latch: once resets end, samples are accepted and    *)
(* reported again and again, whatever jumps there were.                    *)
FilterRecovers == <>[]~firstIn => []<>(pc = "report")

==============================================================================
