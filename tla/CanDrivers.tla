----------------------------- MODULE CanDrivers -----------------------------
(***************************************************************************)
(* The protocols of src/DriverProtocol, those that the Makefile leaves out *)
(* too, with the motor drivers they speak to: the board opens them, sends  *)
(* rounds of commands, one frame to each motor, and takes the answers in   *)
(* the order in which they come.  Some protocols bring their motors into   *)
(* operation before that, and some meanwhile, in the place of the commands. *)
(*                                                                         *)
(* A number is four bytes of Base values.  What decode says of a driver's  *)
(* health is left out, and so are the speed that a query carries, the      *)
(* emergency button that some drivers tell of, and the assertion that ends *)
(* CProtocolHLS's encode.                                                  *)
(***************************************************************************)
EXTENDS Integers, Sequences, FiniteSets, SequencesExt

CONSTANTS
  Base,             \* values of a byte
  NumMotors,
  MotorSpeeds,      \* speeds the board asks for, in encoder steps
  MotorPositions,   \* what encoders may show
  MaxMotorRestarts

VARIABLES
  canDriver,    \* the board's object: isInitSend and its counters
  canMotors,
  canAnswers,   \* on their way to the board
  canGot,       \* what the board made of the last one
  canRestarts

Motors == 0 .. NumMotors - 1

----------------------------------------------------------------------------
(* Protocols with the service data objects of CANopen: the object that     *)
(* holds the speed and how many bytes of it are set, the objects to read,  *)
(* steps of an encoder to a unit of speed, how often the driver is told to *)
(* start, and the messages that bring a motor into operation.              *)
Sdo == [brand |-> "", family |-> "sdo", speed |-> "60FF", bytes |-> 4, position |-> "6064",
        state |-> "6041", unit |-> 4, when |-> "never", init |-> <<>>]
Named(brand) == [Sdo EXCEPT !.brand = brand]

Copley == [Named("Copley") EXCEPT !.speed = "2341", !.state = "1002", !.unit = 1]
CopleyPosition == [Copley EXCEPT !.brand = "CopleyPosition", !.speed = "60FF",
                                 !.when = "open", !.init = <<"6060=03">>]
JingZhi == [Copley EXCEPT !.brand = "JingZhi"]
Motec == [Named("Motec") EXCEPT !.bytes = 2, !.position = "6063", !.when = "open",
                                !.init = <<"6060=03", "6040=86", "6040=07", "6040=0F">>]
Kinco == [Named("Kinco") EXCEPT !.position = "6063", !.when = "open",
                                !.init = <<"6060=03", "6040=0F", "6040=2F", "6040=3F">>]
Delta == [Named("Delta") EXCEPT !.when = "encode",
                                !.init = <<"6060=03", "6040=06", "6040=07", "6040=0F",
                                           "6083=3E8", "6084=7D0">>]
HlsCanopen == [Named("HlsCanopen") EXCEPT
                 !.position = "6063", !.when = "encode",
                 !.init = <<"6060=03", "6040=06", "6040=07", "6040=0F">>]
MingZhi == [Named("MingZhi") EXCEPT
              !.position = "700A", !.when = "between",
              !.init = <<"6040=06", "6040=07", "6040=0F", "6060=03", "6041">>]

Own(brand, unit) == [Named(brand) EXCEPT !.family = brand, !.unit = unit]

Protocols ==
  {Copley, CopleyPosition, JingZhi, Motec, Kinco, Delta, HlsCanopen, MingZhi,
   Own("RL", 1), Own("Castd", 4), Own("Keya", 4), Own("HLS", 4)}

Protocol == canDriver.protocol

----------------------------------------------------------------------------
(* Numbers of drives and identifiers of frames.                            *)
DriveId(w) == IF Protocol.family = "Keya" THEN 1 + w \div 2 ELSE 1 + w

CalcRxID(id) == CASE Protocol.family = "RL"    -> 2 * id
                  [] Protocol.family = "Castd" -> id
                  [] Protocol.family = "HLS"   -> 256 + id
                  [] OTHER                     -> 1536 + id

CalcTxID(id) == CASE Protocol.family = "RL"    -> 2 * id - 1
                  [] Protocol.family = "Castd" -> 16 + id
                  [] Protocol.family = "HLS"   -> 1792 + id
                  [] OTHER                     -> 1408 + id

RxId(w) == CalcRxID(DriveId(w))
TxId(w) == CalcTxID(DriveId(w))

(* getMotorIndex.  Some protocols tell motors apart by what is inside.     *)
GetMotorIndex(msg) ==
  LET those == SelectSeq([i \in 1 .. NumMotors |-> i - 1], LAMBDA w : msg.id = TxId(w))
  IN  CASE Protocol.family = "Castd" -> CHOOSE w \in Motors : RxId(w) = msg.sub
        [] Protocol.family = "Keya"  -> those[msg.sub]
        [] OTHER                     -> those[1]

----------------------------------------------------------------------------
(* Numbers in bytes, the lowest first.                                     *)
Power == <<1, Base, Base * Base, Base * Base * Base, Base * Base * Base * Base>>
Low(val, n) == [k \in 1 .. n |-> (val \div Power[k]) % Base]

Unsigned(data) ==
  FoldLeft(LAMBDA t, k : t + data[k] * Power[k], 0, [k \in DOMAIN data |-> k])
Number(data) ==
  LET n == Unsigned(data) IN
  IF 2 * n < Power[Len(data) + 1] THEN n ELSE n - Power[Len(data) + 1]

Swapped(data) == <<data[2], data[1], data[4], data[3]>>

(* Division cuts off: half a unit is added away from zero, or just added.  *)
Cut(n, unit) == IF n >= 0 THEN n \div unit ELSE -((-n) \div unit)
Scaled(val) ==
  IF Protocol.unit = 1 THEN val
  ELSE Cut(val + IF Protocol.family \in {"Castd", "Keya"} \/ val >= 0
                 THEN Protocol.unit \div 2 ELSE -(Protocol.unit \div 2), Protocol.unit)

Frame(w, op, object, data) ==
  [id |-> RxId(w), op |-> op, object |-> object, sub |-> 0, data |-> data]
Zeros == <<0, 0, 0, 0>>

(* encode, but for the messages of the start.                              *)
EncodeSdo(w, cmd, val) ==
  CASE cmd = "speed"    -> Frame(w, "set", Protocol.speed, Low(Scaled(val), 4))
    [] cmd = "position" -> Frame(w, "get", Protocol.position, Zeros)
    [] cmd = "state"    -> Frame(w, "get", Protocol.state, Zeros)

EncodeRL(w, cmd, val) ==
  CASE cmd = "speed"    -> Frame(w, "10", "10", Reverse(Low(Scaled(val), 4)))
    [] cmd = "position" -> Frame(w, "00", "01", Reverse(Low(val, 4)))
    [] cmd = "state"    -> Frame(w, "00", "10", Reverse(Low(val, 4)))

EncodeCastd(w, cmd, val) ==
  CASE cmd = "speed"    -> Frame(w, "03", "08", Low(Scaled(val), 4))
    [] cmd = "position" -> Frame(w, "01", "01", Low(val, 4))
    [] cmd = "state"    -> Frame(w, "01", "00", Low(val, 4))

EncodeKeya(w, cmd, val) ==
  LET To(op, object, data) == [Frame(w, op, object, data) EXCEPT !.sub = 1 + (w % 2)]
  IN  CASE cmd = "speed"    -> To("set", "2000", Low(Scaled(val), 2) \o <<0, 0>>)
        [] cmd = "position" -> To("get", "2104", Zeros)
        [] cmd = "state"    -> To("get", "2112", Zeros)

EncodeHLS(w, cmd, val) ==
  LET To(op, object, data) == [Frame(w, op, object, data) EXCEPT !.sub = TxId(w) % 256]
  IN  CASE cmd = "speed"    -> To("28", "00", Reverse(Low(Scaled(val), 2)))
        [] cmd = "position" -> To("0D", "1D", <<>>)
        [] cmd = "state"    -> To("0A", "5B", <<>>)

EncodeCommand(w, cmd, val) ==
  CASE Protocol.family = "sdo"   -> EncodeSdo(w, cmd, val)
    [] Protocol.family = "RL"    -> EncodeRL(w, cmd, val)
    [] Protocol.family = "Castd" -> EncodeCastd(w, cmd, val)
    [] Protocol.family = "Keya"  -> EncodeKeya(w, cmd, val)
    [] Protocol.family = "HLS"   -> EncodeHLS(w, cmd, val)

----------------------------------------------------------------------------
(* The messages of the start.                                              *)
InitFrame(w, k) == Frame(w, "init", Protocol.init[k], Zeros)
InitCount == NumMotors * Len(Protocol.init)

(* encode of Delta and HlsCanopen: the k-th message to each motor in turn. *)
EncodeOrInit(d, w, cmd, val) ==
  LET Command == [driver |-> [d EXCEPT !.isInitSend = TRUE,
                                       !.msgCount = IF d.isInitSend THEN @ ELSE 0],
                  frame  |-> EncodeCommand(w, cmd, val)]
  IN  IF ~d.isInitSend /\ d.msgCount < InitCount
      THEN [driver |-> [d EXCEPT !.msgCount = @ + 1],
            frame  |-> InitFrame(w, 1 + d.msgCount \div NumMotors)]
      ELSE Command

(* encode of MingZhi: a message that is for nobody, and one of the start,  *)
(* all of a motor's before the next motor's.                               *)
InitBetween(d) ==
  LET at == InitCount - d.msgCount IN
  IF d.count >= 1
  THEN [driver |-> [d EXCEPT !.count = 0, !.msgCount = @ - 1,
                             !.isInitSend = (d.msgCount = 1)],
        frame  |-> InitFrame(at \div Len(Protocol.init), 1 + (at % Len(Protocol.init)))]
  ELSE [driver |-> [d EXCEPT !.count = @ + 1],
        frame  |-> [InitFrame(0, 1) EXCEPT !.id = 1552]]

Encode(d, w, cmd, val) ==
  CASE Protocol.when = "encode" -> EncodeOrInit(d, w, cmd, val)
    [] Protocol.when = "between" /\ ~d.isInitSend -> InitBetween(d)
    [] OTHER -> [driver |-> d, frame |-> EncodeCommand(w, cmd, val)]

(* getInitMsg, until it gives none.                                        *)
InitMessages ==
  LET k == Len(Protocol.init) IN
  CASE Protocol.brand = "CopleyPosition" ->
         [i \in 1 .. NumMotors |-> InitFrame(NumMotors - i, 1)]
    [] Protocol.when = "open" ->
         [i \in 1 .. InitCount |-> InitFrame((i - 1) \div k, 1 + ((i - 1) % k))]
    [] Protocol.brand = "HlsCanopen" ->
         [i \in 1 .. NumMotors |->
            [InitFrame(0, 1) EXCEPT !.id = 0, !.op = "start", !.sub = i]]
    [] OTHER -> <<>>

Opened ==
  CASE Protocol.when = "encode" -> [canDriver EXCEPT !.msgCount = 0, !.isInitSend = FALSE]
    [] Protocol.brand = "Motec" -> [canDriver EXCEPT !.isInitSend = TRUE]
    [] OTHER -> canDriver

----------------------------------------------------------------------------
(* decode: the type, and the value where it gives one.                     *)
Decoded(ct, val) == [ct |-> ct, val |-> val]

DecodeSdo(msg) ==
  CASE msg.op = "done" /\ msg.object = Protocol.speed -> Decoded("speed", 0)
    [] msg.op = "is" /\ msg.object = Protocol.position ->
         Decoded("position", Number(msg.data))
    [] msg.op = "is" /\ msg.object = Protocol.state -> Decoded("state", Number(msg.data))
    [] OTHER -> Decoded("undefined", 0)

DecodeRL(msg) ==
  Decoded(CASE msg.object = "01" -> "position" [] msg.object = "10" -> "state"
            [] OTHER -> "undefined", Number(Reverse(msg.data)))

DecodeCastd(msg) ==
  Decoded(CASE msg.op = "03" /\ msg.object = "08" -> "speed"
            [] msg.op = "01" /\ msg.object = "01" -> "position"
            [] msg.op = "01" /\ msg.object = "00" -> "state"
            [] OTHER -> "undefined", Number(msg.data))

DecodeKeya(msg) ==
  CASE msg.object = "2000" -> Decoded("speed", Number(msg.data))
    [] msg.object = "2104" -> Decoded("position", Number(msg.data))
    [] msg.object = "2112" -> Decoded("state", Unsigned(SubSeq(msg.data, 1, 3)))

DecodeHLS(msg) ==
  CASE msg.op = "29" /\ msg.object = "00" -> Decoded("speed", 0)
    [] msg.op = "0E" /\ msg.object = "1D" ->
         Decoded("position", Number(Swapped(msg.data)))
    [] msg.op = "0B" /\ msg.object = "5B" ->
         Decoded("state", Unsigned(Reverse(SubSeq(msg.data, 1, 2))))
    [] OTHER -> Decoded("undefined", 0)

(* Some protocols decode nothing before the start is over.                 *)
Deaf == ~canDriver.isInitSend
        /\ (Protocol.when \in {"encode", "between"} \/ Protocol.brand = "Motec")

Decode(msg) ==
  CASE Deaf -> Decoded("speed", 0)
    [] Protocol.family = "sdo"   -> DecodeSdo(msg)
    [] Protocol.family = "RL"    -> DecodeRL(msg)
    [] Protocol.family = "Castd" -> DecodeCastd(msg)
    [] Protocol.family = "Keya"  -> DecodeKeya(msg)
    [] Protocol.family = "HLS"   -> DecodeHLS(msg)

(* MingZhi starts again when a motor is not in operation (its state's low  *)
(* bits are not all set: a number that is odd, here).  A mutant sends the  *)
(* start to the last motor only.                                           *)
AfterDecodeOne(result) ==
  IF Protocol.when = "between" /\ canDriver.isInitSend /\ result.ct = "state"
     /\ result.val % 2 = 0
  THEN [canDriver EXCEPT !.isInitSend = FALSE, !.msgCount = Len(Protocol.init)]
  ELSE canDriver
AfterDecode(result) ==
  IF /\ Protocol.when = "between" /\ canDriver.isInitSend
     /\ result.ct = "state" /\ result.val % 2 = 0
  THEN [canDriver EXCEPT !.isInitSend = FALSE, !.msgCount = InitCount]
  ELSE canDriver

----------------------------------------------------------------------------
(* The motors (external).  One is in operation after all messages of its   *)
(* start, in their order, and turns as it is told from then on.            *)
Stages == (IF Protocol.brand = "HlsCanopen" THEN <<"start">> ELSE <<>>) \o Protocol.init
Operational(m) == m.stage = Len(Stages)

Heard(m, what) ==
  LET at == {k \in DOMAIN Stages : Stages[k] = what /\ k <= m.stage + 1}
  IN  IF at = {} THEN m
      ELSE [m EXCEPT !.stage = CHOOSE k \in at : \A j \in at : j <= k]

ToMotor(w, f) == \/ f.op = "start" /\ f.sub = DriveId(w)
                 \/ f.id = RxId(w) /\ (Protocol.family = "Keya" => f.sub = 1 + (w % 2))

IsSpeed(f) == CASE Protocol.family = "sdo"   -> f.op = "set"
                [] Protocol.family = "RL"    -> f.op = "10"
                [] Protocol.family = "Castd" -> f.op = "03"
                [] Protocol.family = "Keya"  -> f.op = "set"
                [] Protocol.family = "HLS"   -> f.op = "28"

Understood(f) ==
  Number(CASE Protocol.family = "sdo"   -> SubSeq(f.data, 1, Protocol.bytes)
           [] Protocol.family = "Keya"  -> SubSeq(f.data, 1, 2)
           [] Protocol.family = "Castd" -> f.data
           [] OTHER                     -> Reverse(f.data))

MotorTakes(m, f) ==
  CASE f.op = "start" -> Heard(m, "start")
    [] f.op = "init"  -> Heard(m, f.object)
    [] IsSpeed(f)     -> IF Operational(m) THEN [m EXCEPT !.target = Understood(f)] ELSE m
    [] OTHER          -> m

(* What the motor answers with the number n.                               *)
Answer(w, f, n) ==
  LET data == Low(n, 4)
      To(op, object, bytes, sub) ==
        [id |-> TxId(w), op |-> op, object |-> object, data |-> bytes, sub |-> sub]
  IN  CASE Protocol.family = "sdo" ->
             To(IF f.op = "get" \/ f.object = "6041" THEN "is" ELSE "done", f.object, data, 0)
        [] Protocol.family = "RL"    -> To("00", f.object, Reverse(data), 0)
        [] Protocol.family = "Castd" -> To(f.op, f.object, data, RxId(w))
        [] Protocol.family = "Keya"  -> To("is", f.object, data, f.sub)
        [] Protocol.family = "HLS"   ->
             To(CASE f.op = "28" -> "29" [] f.op = "0D" -> "0E" [] f.op = "0A" -> "0B",
                f.object, IF f.op = "0D" THEN Swapped(data)
                          ELSE Reverse(SubSeq(data, 1, 2)), f.sub)

----------------------------------------------------------------------------
CanInit ==
  /\ \E p \in Protocols :
       canDriver = [protocol |-> p, open |-> FALSE, isInitSend |-> FALSE, count |-> 0,
                    msgCount |-> IF p.when = "between" THEN NumMotors * Len(p.init) ELSE 0]
  /\ canMotors = [w \in Motors |-> [stage |-> 0, target |-> 0, meant |-> 0,
                                    lost |-> FALSE]]
  /\ canAnswers = {} /\ canGot = [ct |-> "none"] /\ canRestarts = 0

Sent(motors, f) ==
  [w \in Motors |-> IF ToMotor(w, f) THEN MotorTakes(motors[w], f) ELSE motors[w]]

(* doInit.  What motors answer decodes to nothing and is left out.         *)
Open ==
  LET motors == FoldLeft(Sent, canMotors, InitMessages)
  IN  /\ ~canDriver.open
      /\ canDriver' = [Opened EXCEPT !.open = TRUE]
      /\ canMotors' = [w \in Motors |-> [motors[w] EXCEPT !.lost = FALSE]]
      /\ canGot' = [ct |-> "none"]
      /\ UNCHANGED <<canAnswers, canRestarts>>

(* What a motor tells: where it is, or whether it is in operation.         *)
Told(m, f, position) ==
  CASE f.object \in {Protocol.state, "10", "00", "2112", "5B"} /\ ~IsSpeed(f) ->
         [kind |-> "state", truth |-> IF Operational(m) THEN 1 ELSE 0]
    [] f.op = "init" \/ IsSpeed(f) -> [kind |-> "other", truth |-> 0]
    [] OTHER -> [kind |-> "position", truth |-> position]

(* sendSpeedCmd, sendQueryCmd: one frame for each motor.                   *)
Round(cmd, vals, position) ==
  LET One(at, w) ==
        LET val == IF cmd = "speed" THEN vals[w] ELSE 0
            e   == Encode(at.driver, w, cmd, val)
            f   == e.frame
            all == Sent(at.motors, f)
        IN  [driver |-> e.driver,
             motors |-> [all EXCEPT
               ![w].meant = IF f.op # "init" /\ IsSpeed(f) /\ Operational(all[w])
                            THEN val ELSE @],
             answers |-> at.answers \union
               { LET told == Told(all[v], f, position[v])
                 IN  [from |-> v, told |-> told, msg |-> Answer(v, f, told.truth)] :
                   v \in {v \in Motors : ToMotor(v, f)} }]
  IN  /\ canDriver.open /\ canAnswers = {}
      /\ \E end \in {FoldLeft(One,
                         [driver |-> canDriver, motors |-> canMotors, answers |-> {}],
                         [i \in 1 .. NumMotors |-> i - 1])} :
           /\ canDriver' = end.driver
           /\ canMotors' = end.motors
           /\ canAnswers' = end.answers
      /\ canGot' = [ct |-> "none"]
      /\ UNCHANGED canRestarts

(* waitCmdRet takes one answer.                                            *)
Receive(a) ==
  LET result == Decode(a.msg)
  IN  /\ canAnswers' = canAnswers \ {a}
      /\ canGot' = [ct |-> result.ct, val |-> result.val, deaf |-> Deaf,
                    wheel |-> GetMotorIndex(a.msg), from |-> a.from, told |-> a.told]
      /\ canDriver' = AfterDecode(result)
      /\ canMotors' = [w \in Motors |->
           [canMotors[w] EXCEPT !.lost = @ /\ canDriver.isInitSend = canDriver'.isInitSend]]
      /\ UNCHANGED canRestarts

MotorRestarts(w) ==
  /\ canRestarts < MaxMotorRestarts
  /\ canRestarts' = canRestarts + 1
  /\ canMotors' = [canMotors EXCEPT ![w] =
       [@ EXCEPT !.stage = 0, !.target = 0, !.meant = 0, !.lost = TRUE]]
  /\ canGot' = [ct |-> "none"]
  /\ UNCHANGED <<canDriver, canAnswers>>

Alternate(one, other) == [w \in Motors |-> IF w % 2 = 0 THEN one ELSE other]

AllOf(numbers) == {Alternate(one, other) : one, other \in numbers}
Nothing == Alternate(0, 0)

Rounds ==
  {[cmd |-> "speed", vals |-> vals, position |-> Nothing] : vals \in AllOf(MotorSpeeds)}
    \cup {[cmd |-> "position", vals |-> Nothing, position |-> at] : at \in AllOf(MotorPositions)}
    \cup {[cmd |-> "state", vals |-> Nothing, position |-> Nothing]}

CanNext ==
  \/ Open
  \/ \E r \in Rounds : Round(r.cmd, r.vals, r.position)
  \/ \E a \in canAnswers : Receive(a)
  \/ \E w \in Motors : MotorRestarts(w)

----------------------------------------------------------------------------
Ready == /\ canDriver.open
         /\ Protocol.when \in {"encode", "between"} => canDriver.isInitSend

Size(n) == IF n < 0 THEN -n ELSE n

(* Every driver and its motors understand each other.  When a driver has   *)
(* done with its start, all motors are in operation, but for one that has  *)
(* restarted since (MingZhi's starts again once that one has said so),     *)
(* whatever the order of rounds, answers and restarts; a motor turns as it *)
(* was told, to half a unit (a unit and a half where the code only adds),  *)
(* however many motors share an identifier; and what is taken for a        *)
(* position is one, whole, and of the motor it is taken for.               *)
DriversUnderstood ==
  /\ \A w \in Motors :
       LET m   == canMotors[w]
           off == Size(Protocol.unit * m.target - m.meant)
       IN  /\ Ready => Operational(m) \/ m.lost
           /\ IF Protocol.family \in {"Castd", "Keya"} THEN 2 * off < 3 * Protocol.unit
              ELSE 2 * off <= Protocol.unit
  /\ canGot.ct # "none" =>
       /\ canGot.wheel = canGot.from
       /\ canGot.ct = "position" <=> canGot.told.kind = "position" /\ ~canGot.deaf
       /\ canGot.ct = "position" => canGot.val = canGot.told.truth
       /\ canGot.ct = "state" /\ canGot.told.kind = "state" =>
            canGot.val = canGot.told.truth

============================================================================
