----------------------------- MODULE WheelDrive -----------------------------
(***************************************************************************)
(* One wheel between the chassis and its motor driver: setVelocities and   *)
(* getPositions of src/src/Mileage.cxx, encode and decode of the CANopen   *)
(* protocols in src/DriverProtocol, and the driver at the other end of the *)
(* bus.  Numbers travel as four bytes, the lowest first; a byte has Base   *)
(* values here.                                                            *)
(***************************************************************************)
EXTENDS Integers, Sequences

CONSTANTS
  Base,        \* values of a byte
  Speeds       \* wheel speeds that the kinematics ask for, in halves

VARIABLES
  fitted,      \* the wheel: how many there are, which it is, m_inverse, brand
  commanded,   \* the speed last asked for, rounded
  target,      \* the speed the driver has understood
  position,    \* the driver's encoder, a 32-bit counter
  travelled    \* the way the wheel was told to go

wheelVars == <<fitted, commanded, target, position, travelled>>

Width == Base * Base * Base * Base

(* The number that bytes holding n mean to a signed 32-bit variable.       *)
Signed(n) ==
  IF n % Width < Width \div 2 THEN n % Width ELSE (n % Width) - Width

WheelInit ==
  /\ \E n \in 2 .. 4 : \E i \in 0 .. n - 1, inverse \in {1, -1},
        brand \in {"Copley", "CopleyPosition", "JingZhi"} :
       fitted = [wheels |-> n, index |-> i, inverse |-> inverse, brand |-> brand]
  /\ commanded = 0
  /\ target = 0
  /\ position = 0
  /\ travelled = 0

----------------------------------------------------------------------------
(* The board.                                                              *)

(* Half a unit is added away from zero, and the rest cut off.              *)
Rounded(halves) ==
  IF halves >= 0 THEN (halves + 1) \div 2 ELSE -((1 - halves) \div 2)

(* Motors are mounted mirror-wise: the same signs on the way out,          *)
VelocitySign ==
  fitted.inverse *
    IF \/ fitted.wheels = 2 /\ fitted.index = 0
       \/ fitted.wheels = 4 /\ fitted.index \in {1, 2}
      THEN -1 ELSE 1

PositionSignUnmirrored == fitted.inverse

(* and on the way back.                                                    *)
PositionSign ==
  fitted.inverse *
    CASE fitted.wheels = 2 -> IF fitted.index = 0 THEN -1 ELSE 1
      [] fitted.wheels = 3 -> 1
      [] fitted.wheels = 4 -> IF fitted.index \in {1, 2} THEN -1 ELSE 1

(* encode: val & 0xFF, val >>= 8, four times.                              *)
Bytes(val) ==
  [k \in 1 .. 4 |-> (val \div CASE k = 1 -> 1 [] k = 2 -> Base
                               [] k = 3 -> Base * Base
                               [] k = 4 -> Base * Base * Base) % Base]

Frame(kind, data) == [kind |-> kind, data |-> data]
Zeros == <<0, 0, 0, 0>>

Encode(cmd, val) ==
  CASE cmd = "speed" -> Frame(IF fitted.brand = "CopleyPosition"
                                THEN "set 60FF" ELSE "set 2341", Bytes(val))
    [] cmd = "position" -> Frame("read 6064", Zeros)
    [] cmd = "state"    -> Frame("read 1002", Zeros)

(* decode shifts the value down and adds each byte at the top.             *)
Value(data) ==
  LET Down(t, b) == (t \div Base) + b * Base * Base * Base
  IN  Down(Down(Down(Down(0, data[1]), data[2]), data[3]), data[4])

(* The type, the value (the last one where the code writes none), and      *)
(* whether the driver is well.                                             *)
Decode(frame, last) ==
  CASE \/ frame = Frame("done 2341", Zeros)
       \/ frame = Frame("done 60FF", Zeros) /\ fitted.brand # "JingZhi"
         -> [ct |-> "speed", val |-> last, ok |-> TRUE]
    [] frame.kind = "is 6064"
         -> [ct |-> "position", val |-> Signed(Value(frame.data)), ok |-> TRUE]
    [] frame.kind = "is 1002"
         -> [ct |-> "state", val |-> Signed(Value(frame.data)), ok |-> FALSE]
    [] OTHER -> [ct |-> "undefined", val |-> last, ok |-> TRUE]

----------------------------------------------------------------------------
(* The driver (external): it takes a speed as its protocol's manual says,  *)
(* turns the motor, and answers each request with its own number.          *)

Understood(frame) ==
  Signed(frame.data[1] + Base * (frame.data[2] + Base *
           (frame.data[3] + Base * frame.data[4])))

Answer(frame) ==
  CASE frame.kind = "set 2341"  -> Frame("done 2341", Zeros)
    [] frame.kind = "set 60FF"  -> Frame("done 60FF", Zeros)
    [] frame.kind = "read 6064" -> Frame("is 6064", Bytes(position))
    [] frame.kind = "read 1002" -> Frame("is 1002", Bytes(0))

SetVelocities(halves) ==
  /\ commanded' = Rounded(halves)
  /\ target' = Understood(Encode("speed", Signed(VelocitySign * Rounded(halves))))
  /\ UNCHANGED <<fitted, position, travelled>>

(* The encoder and the way are counted in 32 bits.                         *)
Turn ==
  /\ position' = (position + target) % Width
  /\ travelled' = (travelled + commanded) % Width
  /\ UNCHANGED <<fitted, commanded, target>>

WheelNext == Turn \/ \E halves \in Speeds : SetVelocities(halves)

----------------------------------------------------------------------------
(* Properties.                                                             *)

(* Odometry measures what was commanded: for every number of wheels, each  *)
(* wheel, direction of mounting and brand, the answer to a query decodes   *)
(* to the way the wheel was told to go, across the wrap of the encoder,    *)
(* and no answer to another request is taken for one to a query.           *)
MeasuredAsCommanded ==
  LET answer(cmd) == Decode(Answer(Encode(cmd, commanded)), 0) IN
  /\ answer("position").ct = "position" /\ answer("position").ok
  /\ (PositionSign * answer("position").val) % Width = travelled
  /\ answer("speed").ct # "position"
  /\ answer("state").ct # "position"

============================================================================
