---------------------------- MODULE GyroDecoder ----------------------------
(***************************************************************************)
(* The framing of the gyro's UART stream: Decode_frame, UART2_CommandRoute *)
(* and Sum_check of src/src/Gyro.cxx, one byte at a time.                  *)
(*                                                                         *)
(* A frame is A5 5A, then a body whose byte 0 is the length of the body,   *)
(* byte 1 the message code, and whose last byte but one is the sum of the  *)
(* bytes before it; the gyro ends a body with AA.  b_rx_over of RC_Flag is *)
(* raised and lowered within one call and needs no variable.               *)
(***************************************************************************)
EXTENDS Integers, Sequences, SequencesExt

CONSTANTS
  BufSize,   \* RX_BUFFER_SIZE
  Bytes,     \* the bytes the UART may deliver
  HeapBytes  \* what rx_buffer, never initialised, may hold at the start

HEAD   == 165    \* 0xA5
START  == 90     \* 0x5A
IMU    == 161    \* 0xA1
MOTION == 162    \* 0xA2

ASSUME DecoderAssumption ==
  /\ BufSize \in Nat /\ BufSize > 1
  /\ Bytes \subseteq 0 .. 255
  /\ HeapBytes \subseteq 0 .. 255

VARIABLES
  buf,           \* rx_buffer
  idx,           \* rx_wr_index
  head,          \* b_uart_head of RC_Flag: the last byte was A5
  isImuReady,
  isMotionReady,
  routed,        \* what UART2_CommandRoute made of the last byte
  routes,        \* frames routed since the last A5 5A, counted up to 2
  frame,         \* the bytes that came since the last A5 5A, ...
  over           \* ... more than BufSize of them: frame ends in the last one

vars ==
  <<buf, idx, head, isImuReady, isMotionReady, routed, routes, frame, over>>

Index == 0 .. BufSize - 1

Outcome == {"none", "imu", "motion", "other", "badSum", "pastStart"}

(* In a method these are the members of CGyroDevice, not the variables of  *)
(* the same names in Gyro.cxx: rx_wr_index and RC_Flag have initialisers,  *)
(* rx_buffer holds what the heap held.                                     *)
Init ==
  /\ buf \in [Index -> HeapBytes]
  /\ idx = 0
  /\ head = FALSE
  /\ isImuReady = FALSE
  /\ isMotionReady = FALSE
  /\ routed = "none"
  /\ routes = 0
  /\ frame = <<>>
  /\ over = FALSE

----------------------------------------------------------------------------
(* The decoder as a function of its state s = [buf, idx, head] and a byte. *)

(* A full buffer keeps overwriting its last cell.                          *)
NoClamp(n) == n

Clamp(n) == IF n = BufSize THEN n - 1 ELSE n

HeadLatched(s, b) == s.head \/ b = HEAD

(* A5 raises the flag, every other byte lowers it.                         *)
HeadAfter(s, b) == b = HEAD

Restarts(s, b) == b = START /\ s.head

(* The state after one byte: A5 5A rewinds, any other byte is stored.      *)
After(s, b) ==
  IF Restarts(s, b)
    THEN [s EXCEPT !.idx = 0, !.head = HeadAfter(s, b)]
    ELSE [buf  |-> [s.buf EXCEPT ![s.idx] = b],
          idx  |-> Clamp(s.idx + 1),
          head |-> HeadAfter(s, b)]

CompletesAtLeast(s, b) ==
  /\ b \notin {HEAD, START}
  /\ s.idx + 1 >= [s.buf EXCEPT ![s.idx] = b][0]

(* A stored byte other than A5 and 5A that fills the announced length.     *)
Completes(s, b) ==
  /\ b \notin {HEAD, START}
  /\ s.idx + 1 = [s.buf EXCEPT ![s.idx] = b][0]

(* Sum_check on a body; a body of length 1 is compared with rx_buffer[-1]. *)
SumOf(seq) == FoldLeft(+, 0, seq)

BodySum(body, n) == SumOf([k \in 1 .. n |-> body[k - 1]])

SumMatches(body) ==
  LET len == body[0] IN
  len >= 2 /\ BodySum(body, len - 2) % 256 = body[len - 2]

Kind(code) ==
  CASE code = IMU    -> "imu"
    [] code = MOTION -> "motion"
    [] OTHER         -> "other"

(* What UART2_CommandRoute makes of the byte.  With an announced length of *)
(* 1 the outcome hangs on the byte before the buffer.                      *)
Routed(s, b) ==
  LET body == After(s, b).buf IN
  IF ~Completes(s, b) THEN "none"
  ELSE IF body[0] = 1 THEN "pastStart"
  ELSE IF SumMatches(body) THEN Kind(body[1])
  ELSE "badSum"

----------------------------------------------------------------------------
State == [buf |-> buf, idx |-> idx, head |-> head]

(* The byte before the buffer may happen to be the sum, 0; then the body   *)
(* is routed by the code an earlier frame left in rx_buffer[1].            *)
Outcomes(s, b) ==
  IF Routed(s, b) = "pastStart" THEN {"badSum", Kind(After(s, b).buf[1])}
                                ELSE {Routed(s, b)}

(* What came, whatever the decoder has made of it.                         *)
Came(b) ==
  IF b = START /\ frame # <<>> /\ Last(frame) = HEAD
    THEN frame' = <<>> /\ over' = FALSE
  ELSE IF Len(frame) < BufSize
    THEN frame' = Append(frame, b) /\ UNCHANGED over
  ELSE frame' = [frame EXCEPT ![BufSize] = b] /\ over' = TRUE

DecodeFrame(b) ==
  LET after == After(State, b) IN
  \E outcome \in Outcomes(State, b) :
    /\ buf' = after.buf
    /\ idx' = after.idx
    /\ head' = after.head
    /\ routed' = outcome
    /\ isImuReady' = (isImuReady \/ outcome = "imu")
    /\ isMotionReady' = (isMotionReady \/ outcome = "motion")
    /\ routes' = IF Restarts(State, b) THEN 0
                 ELSE IF outcome # "none" /\ routes < 2 THEN routes + 1
                 ELSE routes
    /\ Came(b)

Next == \E b \in Bytes : DecodeFrame(b)

Spec == Init /\ [][Next]_vars

----------------------------------------------------------------------------
(* Properties.                                                             *)

(* Every variable has its type; in particular rx_wr_index is a cell of     *)
(* rx_buffer after every byte, so no store falls outside it.               *)
TypeOK ==
  /\ buf \in [Index -> 0 .. 255]
  /\ idx \in Index
  /\ head \in BOOLEAN
  /\ isImuReady \in BOOLEAN
  /\ isMotionReady \in BOOLEAN
  /\ routed \in Outcome
  /\ routes \in 0 .. 2

(* A frame is routed once: after its last byte no further byte completes   *)
(* it again until the next A5 5A, however many arrive -- except a frame    *)
(* that fills the whole buffer.                                            *)
RoutedOnce == buf[0] # BufSize => routes <= 1

(* A body as the gyro sends it: byte 0 is its length, the last byte but    *)
(* one the sum of those before it, and the last one, AA, no header byte.   *)
WellFormed(body) ==
  LET n == Len(body) IN
  /\ n >= 2 /\ body[1] = n
  /\ body[n] \notin {HEAD, START}
  /\ body[n - 1] = SumOf([k \in 1 .. n - 2 |-> body[k]]) % 256

(* The decoder resynchronises: whatever came before, a well-formed frame   *)
(* is routed by its code with its last byte.  And nothing is made up from  *)
(* what an earlier frame has left in rx_buffer: what is routed by its code *)
(* came as a well-formed frame since the last A5 5A -- but for an announced*)
(* length of 1, and for one that fills the buffer and is found again.      *)
FramesRouted ==
  /\ ~over /\ WellFormed(frame) => routed = Kind(frame[2])
  /\ routed \in {"imu", "motion", "other"} =>
       (~over /\ WellFormed(frame)) \/ frame[1] \in {1, BufSize}

============================================================================
