-------------------------- MODULE GyroDecoderProofs --------------------------
(***************************************************************************)
(* Proofs about GyroDecoder, for every buffer size and every set of bytes: *)
(* the index stays in the buffer, a frame is routed once, and what is      *)
(* routed is what came.                                                    *)
(***************************************************************************)
EXTENDS GyroDecoder, TLAPS

(* What After returns: every cell is a byte and the index is a cell.       *)
LEMMA AfterType ==
  ASSUME TypeOK, NEW b \in Bytes
  PROVE  /\ After(State, b).buf \in [Index -> 0 .. 255]
         /\ After(State, b).idx \in Index
         /\ After(State, b).head \in BOOLEAN
<1>1. b \in 0 .. 255
  BY DecoderAssumption
<1>2. CASE Restarts(State, b)
  <2>1. After(State, b) = [buf |-> buf, idx |-> 0, head |-> HeadAfter(State, b)]
    BY <1>2 DEF After, State
  <2>2. QED
    BY <2>1, DecoderAssumption DEF TypeOK, Index, HeadAfter
<1>3. CASE ~Restarts(State, b)
  <2>1. After(State, b) = [buf  |-> [buf EXCEPT ![idx] = b],
                           idx  |-> Clamp(idx + 1),
                           head |-> HeadAfter(State, b)]
    BY <1>3 DEF After, State
  <2>2. Clamp(idx + 1) \in Index
    BY DecoderAssumption DEF TypeOK, Index, Clamp
  <2>3. [buf EXCEPT ![idx] = b] \in [Index -> 0 .. 255]
    BY <1>1 DEF TypeOK
  <2>4. QED
    BY <2>1, <2>2, <2>3 DEF HeadAfter
<1>4. QED
  BY <1>2, <1>3

(* The outcomes of routing are among those Outcome lists.                  *)
LEMMA OutcomeType ==
  ASSUME NEW s, NEW b, NEW outcome \in Outcomes(s, b)
  PROVE  outcome \in Outcome
<1>1. \A code : Kind(code) \in {"imu", "motion", "other"}
  BY DEF Kind
<1>2. Routed(s, b) \in Outcome
  BY <1>1 DEF Routed, Outcome
<1>3. QED
  BY <1>1, <1>2 DEF Outcomes, Outcome

(* Only the byte that completes a body is routed.                          *)
LEMMA OutcomeOfPartialBody ==
  ASSUME NEW s, NEW b, ~Completes(s, b), NEW outcome \in Outcomes(s, b)
  PROVE  outcome = "none"
<1>1. Routed(s, b) = "none"
  BY DEF Routed
<1>2. QED
  BY <1>1 DEF Outcomes

(* Type correctness: no byte sequence drives rx_wr_index out of rx_buffer. *)
THEOREM TypeCorrect == Spec => []TypeOK
<1>1. ASSUME Init PROVE TypeOK
  <2>1. buf \in [Index -> 0 .. 255]
    BY <1>1, DecoderAssumption DEF Init
  <2>2. idx \in Index
    BY <1>1, DecoderAssumption DEF Init, Index
  <2>3. head \in BOOLEAN /\ isImuReady \in BOOLEAN /\ isMotionReady \in BOOLEAN
    BY <1>1 DEF Init
  <2>4. routed \in Outcome /\ routes \in 0 .. 2
    BY <1>1 DEF Init, Outcome
  <2>5. QED
    BY <2>1, <2>2, <2>3, <2>4 DEF TypeOK
<1>2. ASSUME TypeOK, [Next]_vars PROVE TypeOK'
  <2>1. ASSUME NEW b \in Bytes, DecodeFrame(b) PROVE TypeOK'
    <3>1. PICK outcome \in Outcomes(State, b) :
            /\ buf' = After(State, b).buf
            /\ idx' = After(State, b).idx
            /\ head' = After(State, b).head
            /\ routed' = outcome
            /\ isImuReady' = (isImuReady \/ outcome = "imu")
            /\ isMotionReady' = (isMotionReady \/ outcome = "motion")
            /\ routes' = IF Restarts(State, b) THEN 0
                         ELSE IF outcome # "none" /\ routes < 2 THEN routes + 1
                         ELSE routes
      BY <2>1 DEF DecodeFrame
    <3>2. buf' \in [Index -> 0 .. 255] /\ idx' \in Index /\ head' \in BOOLEAN
      BY <1>2, <3>1, AfterType
    <3>3. routed' \in Outcome
      BY <3>1, OutcomeType
    <3>4. isImuReady' \in BOOLEAN /\ isMotionReady' \in BOOLEAN
      BY <3>1
    <3>5. routes' \in 0 .. 2
      BY <1>2, <3>1 DEF TypeOK
    <3>6. QED
      BY <3>2, <3>3, <3>4, <3>5 DEF TypeOK
  <2>2. CASE UNCHANGED vars
    BY <1>2, <2>2 DEF vars, TypeOK
  <2>3. QED
    BY <1>2, <2>1, <2>2 DEF Next
<1>3. QED
  BY <1>1, <1>2, PTL DEF Spec

(* The strengthening: nothing is routed before the first byte of a body is *)
(* stored, and a routed body that leaves room in the buffer has its length *)
(* behind the index.                                                       *)
Behind ==
  /\ idx = 0 => routes = 0
  /\ routes >= 1 /\ buf[0] # BufSize =>
       /\ routes = 1
       /\ buf[0] < BufSize
       /\ idx >= buf[0]

(* Behind is preserved, and it implies RoutedOnce.                         *)
THEOREM RoutesOnce == Spec => []RoutedOnce
<1>1. Init => Behind
  BY DEF Init, Behind
<1>2. ASSUME TypeOK, Behind, [Next]_vars PROVE Behind'
  <2>1. ASSUME NEW b \in Bytes, DecodeFrame(b) PROVE Behind'
    <3>1. PICK outcome \in Outcomes(State, b) :
            /\ buf' = After(State, b).buf
            /\ idx' = After(State, b).idx
            /\ routes' = IF Restarts(State, b) THEN 0
                         ELSE IF outcome # "none" /\ routes < 2 THEN routes + 1
                         ELSE routes
      BY <2>1 DEF DecodeFrame
    <3>2. CASE Restarts(State, b)
      BY <3>1, <3>2 DEF Behind
    <3>3. CASE ~Restarts(State, b)
      <4>1. buf' = [buf EXCEPT ![idx] = b] /\ idx' = Clamp(idx + 1)
        BY <3>1, <3>3 DEF After, State
      <4>2. idx' \in Nat /\ idx' # 0 /\ (idx + 1 # BufSize => idx' = idx + 1)
            /\ idx' >= idx
        BY <1>2, <4>1, DecoderAssumption DEF TypeOK, Index, Clamp
      <4>3. b \in 0 .. 255 /\ buf[0] \in 0 .. 255 /\ buf'[0] \in 0 .. 255
            /\ (idx # 0 => buf'[0] = buf[0])
        BY <1>2, <4>1, DecoderAssumption DEF TypeOK, Index
      <4>4. Completes(State, b) => idx + 1 = buf'[0]
        BY <4>1 DEF Completes, State
      <4>5. CASE outcome = "none"
        <5>1. routes' = routes
          BY <3>1, <3>3, <4>5
        <5>2. CASE idx = 0
          BY <1>2, <5>1, <5>2, <4>2 DEF Behind
        <5>3. CASE idx # 0
          <6>1. idx' >= idx /\ idx' # 0 /\ buf'[0] = buf[0]
            BY <5>3, <4>2, <4>3
          <6>2. idx \in Nat /\ BufSize \in Nat
            BY <1>2, DecoderAssumption DEF TypeOK, Index
          <6>3. idx' \in Nat /\ buf[0] \in Nat
            BY <4>2, <4>3
          <6>4. QED
            BY <1>2, <5>1, <6>1, <6>2, <6>3 DEF Behind
        <5>4. QED
          BY <5>2, <5>3
      <4>6. CASE outcome # "none"
        <5>1. idx + 1 = buf'[0]
          BY <3>1, <4>4, <4>6, OutcomeOfPartialBody
        <5>2. CASE buf'[0] = BufSize
          BY <4>2, <5>2 DEF Behind
        <5>3. CASE buf'[0] # BufSize
          <6>1. routes = 0
            BY <1>2, <5>1, <5>3, <4>3, DecoderAssumption
               DEF Behind, TypeOK, Index
          <6>2. routes' = 1
            BY <3>1, <3>3, <4>6, <6>1
          <6>3. idx' = buf'[0] /\ buf'[0] < BufSize
            BY <1>2, <4>2, <5>1, <5>3, DecoderAssumption DEF TypeOK, Index
          <6>4. QED
            BY <4>2, <6>2, <6>3 DEF Behind
        <5>4. QED
          BY <5>2, <5>3
      <4>7. QED
        BY <4>5, <4>6
    <3>4. QED
      BY <3>2, <3>3
  <2>2. CASE UNCHANGED vars
    BY <1>2, <2>2 DEF vars, Behind
  <2>3. QED
    BY <1>2, <2>1, <2>2 DEF Next
<1>3. TypeOK /\ Behind => RoutedOnce
  BY DEF TypeOK, Behind, RoutedOnce
<1>4. QED
  BY <1>1, <1>2, <1>3, TypeCorrect, PTL DEF Spec

(* What the decoder has of the bytes since the last A5 5A: the first ones  *)
(* of its buffer are they, its index is their number, and its flag says    *)
(* whether the last one was A5.                                            *)
Follows ==
  /\ frame \in Seq(Bytes) /\ Len(frame) <= BufSize
  /\ over \in BOOLEAN /\ (over => Len(frame) = BufSize)
  /\ head <=> frame # <<>> /\ frame[Len(frame)] = HEAD
  /\ idx = IF Len(frame) < BufSize THEN Len(frame) ELSE BufSize - 1
  /\ \A k \in 1 .. Len(frame) : buf[k - 1] = frame[k]

(* A byte that does not restart a frame is stored where it came.           *)
LEMMA FollowsStored ==
  ASSUME TypeOK, Follows, NEW b \in Bytes, ~Restarts(State, b), Came(b),
         buf' = After(State, b).buf, idx' = After(State, b).idx,
         head' = After(State, b).head
  PROVE  /\ Follows'
         /\ frame' # <<>> /\ frame'[Len(frame')] = b
         /\ buf' = [buf EXCEPT ![idx] = b]
         /\ idx + 1 = Len(frame')
<1>1. /\ buf' = [buf EXCEPT ![idx] = b] /\ idx' = Clamp(idx + 1)
      /\ head' = (b = HEAD)
  BY DEF After, State, HeadAfter
<1>2. ~ (b = START /\ frame # <<>> /\ Last(frame) = HEAD)
  BY DEF Restarts, State, Follows, Last
<1>3. /\ frame \in Seq(Bytes) /\ Len(frame) \in Nat /\ BufSize \in Nat /\ BufSize > 1
      /\ buf \in [0 .. BufSize - 1 -> 0 .. 255] /\ b \in 0 .. 255
  BY DecoderAssumption DEF Follows, TypeOK, Index
<1>4. CASE Len(frame) < BufSize
  <2>1. frame' = Append(frame, b) /\ over' = over
    BY <1>2, <1>4 DEF Came
  <2>2. /\ frame' \in Seq(Bytes) /\ Len(frame') = Len(frame) + 1
        /\ frame'[Len(frame) + 1] = b
        /\ \A k \in 1 .. Len(frame) : frame'[k] = frame[k]
    BY <1>3, <2>1
  <2>3. idx = Len(frame) /\ idx' = IF Len(frame') < BufSize THEN Len(frame') ELSE BufSize - 1
    BY <1>1, <1>3, <1>4, <2>2 DEF Follows, Clamp
  <2>4. \A k \in 1 .. Len(frame') : buf'[k - 1] = frame'[k]
    <3> TAKE k \in 1 .. Len(frame')
    <3>1. CASE k = Len(frame) + 1
      BY <1>1, <1>3, <1>4, <2>2, <2>3, <3>1
    <3>2. CASE k # Len(frame) + 1
      <4>1. k \in 1 .. Len(frame) /\ k - 1 \in 0 .. BufSize - 1 /\ k - 1 # idx
        BY <1>3, <1>4, <2>2, <2>3, <3>2
      <4>2. QED
        BY <1>1, <1>3, <2>2, <4>1 DEF Follows
    <3>3. QED
      BY <3>1, <3>2
  <2>5. frame' # <<>> /\ frame'[Len(frame')] = b
    BY <1>3, <2>2
  <2>6. over' \in BOOLEAN /\ (over' => Len(frame') = BufSize)
    BY <1>4, <2>1 DEF Follows
  <2>7. head' <=> frame' # <<>> /\ frame'[Len(frame')] = HEAD
    BY <1>1, <2>5
  <2>8. Len(frame') <= BufSize /\ idx + 1 = Len(frame')
    BY <1>3, <1>4, <2>2, <2>3
  <2>9. Follows'
    BY <2>2, <2>3, <2>4, <2>6, <2>7, <2>8 DEF Follows
  <2>10. QED
    BY <1>1, <2>5, <2>8, <2>9
<1>5. CASE Len(frame) = BufSize
  <2>1. frame' = [frame EXCEPT ![BufSize] = b] /\ over' = TRUE
    BY <1>2, <1>3, <1>5 DEF Came
  <2>2. /\ frame' \in Seq(Bytes) /\ Len(frame') = BufSize
        /\ frame'[BufSize] = b
        /\ \A k \in 1 .. BufSize : k # BufSize => frame'[k] = frame[k]
    BY <1>3, <1>5, <2>1
  <2>3. idx = BufSize - 1 /\ idx' = BufSize - 1
    BY <1>1, <1>3, <1>5 DEF Follows, Clamp
  <2>4. \A k \in 1 .. Len(frame') : buf'[k - 1] = frame'[k]
    <3> TAKE k \in 1 .. Len(frame')
    <3>1. CASE k = BufSize
      BY <1>1, <1>3, <2>2, <2>3, <3>1
    <3>2. CASE k # BufSize
      <4>1. k \in 1 .. Len(frame) /\ k - 1 \in 0 .. BufSize - 1 /\ k - 1 # idx
        BY <1>3, <1>5, <2>2, <2>3, <3>2
      <4>2. QED
        BY <1>1, <1>3, <1>5, <2>2, <3>2, <4>1 DEF Follows
    <3>3. QED
      BY <3>1, <3>2
  <2>5. frame' # <<>> /\ frame'[Len(frame')] = b
    BY <1>3, <2>2
  <2>6. head' <=> frame' # <<>> /\ frame'[Len(frame')] = HEAD
    BY <1>1, <2>5
  <2>7. Len(frame') <= BufSize /\ idx + 1 = Len(frame')
    BY <1>3, <2>2, <2>3
  <2>8. idx' = IF Len(frame') < BufSize THEN Len(frame') ELSE BufSize - 1
    BY <1>3, <2>2, <2>3
  <2>9. Follows'
    BY <2>1, <2>2, <2>4, <2>6, <2>7, <2>8 DEF Follows
  <2>10. QED
    BY <1>1, <2>5, <2>7, <2>9
<1>6. QED
  BY <1>3, <1>4, <1>5 DEF Follows

(* The sum is taken of the same bytes.                                     *)
LEMMA SumsAgree ==
  ASSUME TypeOK, Follows, Len(frame) >= 2, buf[0] = Len(frame)
  PROVE  SumMatches(buf) <=>
           frame[Len(frame) - 1] =
             SumOf([k \in 1 .. Len(frame) - 2 |-> frame[k]]) % 256
<1>1. Len(frame) \in Nat /\ \A k \in 1 .. Len(frame) : buf[k - 1] = frame[k]
  BY DEF Follows
<1>2. [k \in 1 .. Len(frame) - 2 |-> buf[k - 1]] =
        [k \in 1 .. Len(frame) - 2 |-> frame[k]]
  BY <1>1
<1>3. BodySum(buf, Len(frame) - 2) =
        SumOf([k \in 1 .. Len(frame) - 2 |-> frame[k]])
  BY <1>2 DEF BodySum
<1>4. buf[Len(frame) - 2] = frame[Len(frame) - 1]
  <2>1. Len(frame) - 1 \in 1 .. Len(frame) /\ (Len(frame) - 1) - 1 = Len(frame) - 2
    BY <1>1
  <2>2. QED
    BY <1>1, <2>1
<1>5. QED
  BY <1>1, <1>3, <1>4 DEF SumMatches

(* What is routed is what came, and all of it that is well-formed is.      *)
LEMMA StepRoutes ==
  ASSUME TypeOK, TypeOK', Follows, NEW b \in Bytes, DecodeFrame(b)
  PROVE  Follows' /\ FramesRouted'
<1>1. PICK outcome \in Outcomes(State, b) :
        /\ buf' = After(State, b).buf /\ idx' = After(State, b).idx
        /\ head' = After(State, b).head /\ routed' = outcome /\ Came(b)
  BY DEF DecodeFrame
<1>2. CASE Restarts(State, b)
  <2>1. After(State, b) = [buf |-> buf, idx |-> 0, head |-> (b = HEAD)]
    BY <1>2 DEF After, State, HeadAfter
  <2>2. b = START /\ b # HEAD /\ frame # <<>> /\ Last(frame) = HEAD
    BY <1>2 DEF Restarts, State, Follows, Last, START, HEAD
  <2>3. frame' = <<>> /\ over' = FALSE
    BY <1>1, <2>2 DEF Came
  <2>4. Follows'
    <3>1. idx' = 0 /\ head' = (b = HEAD)
      BY <1>1, <2>1
    <3>2. /\ frame' \in Seq(Bytes) /\ Len(frame') = 0
          /\ BufSize \in Nat /\ 0 < BufSize
      BY <2>3, DecoderAssumption
    <3>3. \A k \in 1 .. Len(frame') : buf'[k - 1] = frame'[k]
      BY <3>2
    <3>4. head' <=> frame' # <<>> /\ frame'[Len(frame')] = HEAD
      BY <2>2, <2>3, <3>1
    <3>5. over' \in BOOLEAN /\ (over' => Len(frame') = BufSize)
      BY <2>3
    <3>6. idx' = IF Len(frame') < BufSize THEN Len(frame') ELSE BufSize - 1
      BY <3>1, <3>2
    <3>7. Len(frame') <= BufSize
      BY <3>2
    <3>8. QED
      BY <3>2, <3>3, <3>4, <3>5, <3>6, <3>7 DEF Follows
  <2>5. ~Completes(State, b)
    BY <2>2 DEF Completes
  <2>6. routed' = "none"
    BY <1>1, <2>5, OutcomeOfPartialBody
  <2>7. QED
    BY <2>3, <2>4, <2>6 DEF FramesRouted, WellFormed
<1>3. CASE ~Restarts(State, b)
  <2>1. /\ Follows' /\ frame' # <<>> /\ frame'[Len(frame')] = b
        /\ buf' = [buf EXCEPT ![idx] = b] /\ idx + 1 = Len(frame')
    BY <1>1, <1>3, FollowsStored
  <2>2. /\ frame' \in Seq(Bytes) /\ Len(frame') \in Nat \ {0}
        /\ Len(frame') <= BufSize /\ buf'[0] = frame'[1]
    <3>1. frame' \in Seq(Bytes) /\ Len(frame') \in Nat \ {0} /\ Len(frame') <= BufSize
      BY <2>1 DEF Follows
    <3>2. 1 \in 1 .. Len(frame') /\ 1 - 1 = 0
      BY <3>1
    <3>3. QED
      BY <2>1, <3>1, <3>2 DEF Follows
  <2>3. Completes(State, b) <=>
          b \notin {HEAD, START} /\ Len(frame') = frame'[1]
    BY <2>1, <2>2 DEF Completes, State
  <2>4. CASE ~Completes(State, b)
    <3>1. routed' = "none"
      BY <1>1, <2>4, OutcomeOfPartialBody
    <3>2. ~WellFormed(frame')
      BY <2>1, <2>3, <2>4 DEF WellFormed
    <3>3. QED
      BY <2>1, <3>1, <3>2 DEF FramesRouted
  <2>5. CASE Completes(State, b)
    <3>1. b \notin {HEAD, START} /\ Len(frame') = frame'[1] /\ buf'[0] = frame'[1]
      BY <2>2, <2>3, <2>5
    <3>2. CASE frame'[1] = 1
      BY <2>1, <2>2, <3>1, <3>2 DEF FramesRouted, WellFormed
    <3>3. CASE frame'[1] # 1
      <4>1. Len(frame') >= 2 /\ buf'[1] = frame'[2]
        <5>1. Len(frame') >= 2
          BY <2>2, <3>1, <3>3
        <5>2. 2 \in 1 .. Len(frame') /\ 2 - 1 = 1
          BY <2>2, <5>1
        <5>3. QED
          BY <2>1, <5>1, <5>2 DEF Follows
      <4>2. After(State, b).buf = buf'
        BY <1>1
      <4>3. routed' = IF SumMatches(buf') THEN Kind(buf'[1]) ELSE "badSum"
        <5>1. Routed(State, b) = IF SumMatches(buf') THEN Kind(buf'[1]) ELSE "badSum"
          BY <2>5, <3>1, <3>3, <4>2 DEF Routed
        <5>2. Routed(State, b) # "pastStart"
          BY <5>1 DEF Kind
        <5>3. QED
          BY <1>1, <5>1, <5>2 DEF Outcomes
      <4>4. SumMatches(buf') <=> WellFormed(frame')
        <5>1. (Len(frame) >= 2 /\ buf[0] = Len(frame))'
          BY <3>1, <4>1
        <5>2. (SumMatches(buf) <=>
                frame[Len(frame) - 1] =
                  SumOf([k \in 1 .. Len(frame) - 2 |-> frame[k]]) % 256)'
          BY <2>1, <5>1, SumsAgree, PTL
        <5>3. QED
          BY <2>1, <3>1, <4>1, <5>2 DEF WellFormed
      <4>5. Kind(frame'[2]) \in {"imu", "motion", "other"}
        BY DEF Kind
      <4>6. CASE ~over'
        BY <2>1, <4>1, <4>3, <4>4, <4>5, <4>6 DEF FramesRouted
      <4>7. CASE over'
        <5>1. frame'[1] = BufSize
          BY <2>1, <3>1, <4>7 DEF Follows
        <5>2. QED
          BY <2>1, <4>7, <5>1 DEF FramesRouted
      <4>8. QED
        BY <4>6, <4>7
    <3>4. QED
      BY <3>2, <3>3
  <2>6. QED
    BY <2>4, <2>5
<1>4. QED
  BY <1>2, <1>3

(* From every state the decoder can be in, whatever garbage came before,   *)
(* a well-formed frame is routed, and nothing else.                        *)
THEOREM RoutesWhatCame == Spec => []FramesRouted
<1>1. Init => Follows /\ FramesRouted
  <2> SUFFICES ASSUME Init PROVE Follows /\ FramesRouted
    OBVIOUS
  <2>1. frame = <<>> /\ over = FALSE /\ idx = 0 /\ head = FALSE /\ routed = "none"
    BY DEF Init
  <2>2. /\ frame \in Seq(Bytes) /\ Len(frame) = 0
        /\ BufSize \in Nat /\ 0 < BufSize
    BY <2>1, DecoderAssumption
  <2>3. \A k \in 1 .. Len(frame) : buf[k - 1] = frame[k]
    BY <2>2
  <2>4. Follows
    <3>1. head <=> frame # <<>> /\ frame[Len(frame)] = HEAD
      BY <2>1
    <3>2. over \in BOOLEAN /\ (over => Len(frame) = BufSize)
      BY <2>1
    <3>3. idx = IF Len(frame) < BufSize THEN Len(frame) ELSE BufSize - 1
      BY <2>1, <2>2
    <3>4. Len(frame) <= BufSize
      BY <2>2
    <3>5. QED
      BY <2>2, <2>3, <3>1, <3>2, <3>3, <3>4 DEF Follows
  <2>5. FramesRouted
    BY <2>1, <2>2 DEF FramesRouted, WellFormed
  <2>6. QED
    BY <2>4, <2>5
<1>2. TypeOK /\ TypeOK' /\ Follows /\ FramesRouted /\ [Next]_vars
        => Follows' /\ FramesRouted'
  <2> SUFFICES ASSUME TypeOK, TypeOK', Follows, FramesRouted, [Next]_vars
               PROVE  Follows' /\ FramesRouted'
    OBVIOUS
  <2>1. CASE Next
    BY <2>1, StepRoutes DEF Next
  <2>2. CASE UNCHANGED vars
    BY <2>2 DEF vars, Follows, FramesRouted, WellFormed
  <2>3. QED
    BY <2>1, <2>2
<1>3. QED
  BY <1>1, <1>2, TypeCorrect, PTL DEF Spec

==============================================================================
