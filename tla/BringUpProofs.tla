---------------------------- MODULE BringUpProofs ----------------------------
(***************************************************************************)
(* Proofs about BringUp, for every set of configurations, drive counts and *)
(* heap bytes: a host that keeps to its side meets no fault, and a running *)
(* chassis has an identifier for each wheel.                               *)
(***************************************************************************)
EXTENDS BringUp, TLAPS

(* The number of wheels of every chassis type.                             *)
LEMMA WheelCountType ==
  ASSUME NEW type \in 0 .. 8
  PROVE  WheelCount(type) \in 0 .. 4
<1>1. \/ type = 0 \/ type = 1 \/ type = 2 \/ type = 3 \/ type = 4 \/ type = 5
      \/ type = 6 \/ type = 7 \/ type = 8
  OBVIOUS
<1>2. QED
  BY <1>1 DEF WheelCount

(* The first wheels grow with their number.                                *)
LEMMA FirstWheelsGrow ==
  ASSUME NEW m \in Int, NEW n \in Int, m <= n
  PROVE  FirstWheels(m) \subseteq FirstWheels(n) /\ FirstWheels(n) \subseteq 0 .. 3
BY DEF FirstWheels

(* A new driver and no driver have the type of driver.                     *)
DriverType == [exists : BOOLEAN, mode : {"speed", "position"},
               ids : SUBSET (0 .. 3)]

LEMMA DriversTyped ==
  /\ NoDriver \in DriverType
  /\ \A brand : NewDriver(brand) \in DriverType /\ NewDriver(brand).exists
<1>1. {} \in SUBSET (0 .. 3) /\ Wheels \in SUBSET (0 .. 3)
  BY DEF Wheels, FirstWheels
<1>2. \A brand : Mode(brand) \in {"speed", "position"}
  BY DEF Mode
<1>3. QED
  BY <1>1, <1>2 DEF NoDriver, NewDriver, DriverType

(* setProtocol preserves the types it touches.                             *)
LEMMA SetProtocolType ==
  ASSUME protocol \in 0 .. 255, driver \in DriverType,
         inUse \in {"none", "live", "deleted"},
         NEW brand \in 0 .. 255, SetProtocol(brand)
  PROVE  /\ protocol' \in 0 .. 255
         /\ driver' \in DriverType
         /\ inUse' \in {"none", "live", "deleted"}
BY DriversTyped DEF SetProtocol

(* Type correctness of bring-up.                                           *)
THEOREM TypeCorrect == Spec => []TypeOK
<1> USE BringUpAssumption
<1>1. ASSUME Init PROVE TypeOK
  <2>1. driver \in DriverType
    BY <1>1, DriversTyped DEF Init
  <2>2. protocol \in 0 .. 255 /\ chassisType \in 0 .. 8 /\ openSem \in 0 .. SemMax
        /\ msgCount \in {Unset} \cup 0 .. 4
    BY <1>1 DEF Init, DoubleDiff
  <2>3. paramInited \in BOOLEAN /\ faithful \in BOOLEAN
    BY <1>1 DEF Init
  <2>4. QED
    BY <1>1, <2>1, <2>2, <2>3 DEF Init, TypeOK, DriverType
<1>2. ASSUME TypeOK, [Next]_vars PROVE TypeOK'
  <2> USE <1>2
  <2>1. ASSUME NEW c \in Configs, ConfigChassisType(c) PROVE TypeOK'
    <3>1. c.brand \in 0 .. 255 /\ c.type \in 0 .. 8
      OBVIOUS
    <3>2. protocol' \in 0 .. 255 /\ driver' \in DriverType
          /\ inUse' \in {"none", "live", "deleted"}
      BY ZenonT(60), <2>1, <3>1, SetProtocolType DEF ConfigChassisType, TypeOK, DriverType
    <3>3. openSem' \in 0 .. SemMax
      BY <2>1 DEF ConfigChassisType, SetStart, TypeOK
    <3>4. heard' \in Configs \cup {None}
      BY <2>1 DEF ConfigChassisType, TypeOK
    <3>5. faithful' \in BOOLEAN
      BY <2>1 DEF ConfigChassisType, TypeOK, KeepsTo
    <3>6. QED
      BY <2>1, <3>1, <3>2, <3>3, <3>4, <3>5
         DEF ConfigChassisType, TypeOK, DriverType
  <2>2. ASSUME NEW n \in DriveCounts, InitializeParam(n) PROVE TypeOK'
    <3>1. ConfiguredIds(n) \in SUBSET (0 .. 3)
      BY DEF ConfiguredIds, FirstWheels
    <3>2. driver' \in DriverType
      BY <2>2, <3>1 DEF InitializeParam, TypeOK, DriverType
    <3>3. faithful' \in BOOLEAN /\ paramInited' \in BOOLEAN
          /\ fault' \in {"none", "nullDriver", "dangling"}
      BY <2>2 DEF InitializeParam, TypeOK
    <3>4. QED
      BY <2>2, <3>2, <3>3 DEF InitializeParam, TypeOK, DriverType, taskVars
  <2>3. CASE WaitStart
    BY <2>3 DEF WaitStart, Goto, TypeOK, confVars, hostVars
  <2>4. CASE PollInited
    BY <2>4 DEF PollInited, Goto, TypeOK, confVars, hostVars
  <2>5. CASE OpenCan
    BY <2>5 DEF OpenCan, Goto, TypeOK, confVars, hostVars
  <2>6. CASE EnterGetInitMsg
    BY <2>6 DEF EnterGetInitMsg, EnterDriver, Goto, TypeOK, confVars, hostVars
  <2>7. CASE GetInitMsg
    <3> DEFINE count == IF msgCount = Unset THEN FirstCount ELSE msgCount
    <3>1. count \in 0 .. 4 /\ WheelCount(chassisType) \in 0 .. 4
      BY WheelCountType DEF TypeOK, FirstCount
    <3>2. \/ /\ count > 0
             /\ initialised' = initialised \cup {count - 1}
             /\ msgCount' = count - 1
          \/ initialised' = initialised /\ msgCount' = count
          \/ initialised' = initialised /\ msgCount' = WheelCount(chassisType)
      BY <2>7 DEF GetInitMsg, MoreInitMsgs, CountTaken
    <3> HIDE DEF count
    <3>3. count > 0 => count - 1 \in 0 .. 3 /\ count - 1 \in 0 .. 4
      BY <3>1
    <3>4. initialised \subseteq 0 .. 3
      BY DEF TypeOK
    <3>5. msgCount' \in 0 .. 4 /\ initialised' \subseteq 0 .. 3
      BY ZenonT(60), <3>1, <3>2, <3>3, <3>4
    <3>6. QED
      BY <2>7, <3>5 DEF GetInitMsg, Goto, TypeOK, confVars, hostVars
  <2>8. CASE EnterEncode
    BY <2>8 DEF EnterEncode, EnterDriver, Goto, TypeOK, confVars, hostVars
  <2>9. CASE Encode
    BY <2>9 DEF Encode, Goto, TypeOK, confVars, hostVars
  <2>10. CASE UseAfterDelete
    BY <2>10 DEF UseAfterDelete, Goto, TypeOK, confVars, hostVars
  <2>11. CASE UNCHANGED vars
    BY <2>11 DEF vars, TypeOK, confVars, hostVars, taskVars
  <2>12. QED
    BY <2>1, <2>2, <2>3, <2>4, <2>5, <2>6, <2>7, <2>8, <2>9, <2>10, <2>11
       DEF Next, ChassisTask
<1>3. QED
  BY <1>1, <1>2, PTL DEF Spec

(* What a host that keeps to its side can rely on: its first configuration *)
(* is the one in force, with a live driver, and past the poll of isInited  *)
(* the driver has all its identifiers.                                     *)
Kept ==
  /\ fault = "none"
  /\ inUse # "deleted"
  /\ heard # None =>
       /\ heard.brand = protocol
       /\ heard.type = chassisType
       /\ driver.exists
       /\ driver.mode = Mode(protocol)
       /\ FirstWheels(2) \subseteq driver.ids
  /\ heard = None => chassisType = DoubleDiff /\ ~paramInited
  /\ paramInited => Wheels \subseteq driver.ids
  /\ pc \notin {"waitStart", "poll"} => paramInited

KeptInv ==
  /\ inUse # "none" => pc \in {"getInitMsg", "encode"}
  /\ faithful => Kept

(* A configuration the host keeps to replaces no driver but the missing    *)
(* first one.                                                              *)
LEMMA FaithfulConfig ==
  ASSUME TypeOK, KeptInv, NEW c \in Configs, ConfigChassisType(c), faithful'
  PROVE  /\ faithful /\ Kept /\ heard' = c
         /\ \/ /\ heard = None
                /\ driver' = NewDriver(c.brand)
                /\ inUse = "none" /\ inUse' = "none"
                /\ protocol' = c.brand
             \/ /\ heard = c
                /\ UNCHANGED <<driver, inUse, protocol>>
<1>1. faithful /\ KeepsTo(c)
  BY DEF ConfigChassisType, TypeOK
<1>2. Kept
  BY <1>1 DEF KeptInv
<1>3. c # None
  BY BringUpAssumption DEF None
<1>4. CASE heard = None
  <2>1. c.brand # protocol /\ c.brand \in Supported
    BY <1>1, <1>4 DEF KeepsTo
  <2>2. inUse = "none"
    BY <1>2, <1>4 DEF Kept, KeptInv
  <2>3. driver' = NewDriver(c.brand) /\ inUse' = "none" /\ protocol' = c.brand
    BY <2>1, <2>2 DEF ConfigChassisType, SetProtocol
  <2>4. heard' = c
    BY <1>4 DEF ConfigChassisType
  <2>5. QED
    BY <1>1, <1>2, <1>4, <2>2, <2>3, <2>4
<1>5. CASE heard # None
  <2>1. heard = c /\ protocol = c.brand
    BY <1>1, <1>2, <1>5 DEF KeepsTo, Kept
  <2>2. UNCHANGED <<driver, inUse, protocol>> /\ heard' = c
    BY <1>5, <2>1 DEF ConfigChassisType, SetProtocol
  <2>3. QED
    BY <1>1, <1>2, <2>1, <2>2
<1>6. QED
  BY <1>4, <1>5

(* KeptInv is inductive.                                                   *)
THEOREM KeptInductive == Spec => []KeptInv
<1>1. Init => KeptInv
  BY DEF Init, KeptInv, Kept, NoDriver
<1>2. ASSUME TypeOK, KeptInv, [Next]_vars PROVE KeptInv'
  <2>1. ASSUME NEW c \in Configs, ConfigChassisType(c) PROVE KeptInv'
    <3>1. inUse' # "none" => pc' \in {"getInitMsg", "encode"}
      BY <1>2, <2>1 DEF KeptInv, ConfigChassisType, SetProtocol
    <3>2. ASSUME faithful' PROVE Kept'
      <4>1. /\ faithful /\ Kept /\ heard' = c
            /\ \/ /\ heard = None
                   /\ driver' = NewDriver(c.brand)
                   /\ inUse = "none" /\ inUse' = "none"
                   /\ protocol' = c.brand
                \/ /\ heard = c
                   /\ UNCHANGED <<driver, inUse, protocol>>
        BY <1>2, <2>1, <3>2, FaithfulConfig
      <4>2. c # None
        BY BringUpAssumption DEF None
      <4>3. chassisType' = c.type /\ UNCHANGED <<paramInited, pc, fault>>
        BY <2>1 DEF ConfigChassisType
      <4>4. CASE heard = None
        <5>1. driver' = NewDriver(c.brand) /\ inUse' = "none"
              /\ protocol' = c.brand
          BY <4>1, <4>2, <4>4
        <5>2. Wheels = FirstWheels(2)
          BY <4>1, <4>4 DEF Kept, Wheels, WheelCount, DoubleDiff
        <5>3. driver'.exists /\ driver'.mode = Mode(c.brand)
              /\ driver'.ids = FirstWheels(2)
          BY <5>1, <5>2 DEF NewDriver
        <5>4. ~paramInited' /\ pc' \in {"waitStart", "poll"}
          BY <4>1, <4>3, <4>4 DEF Kept
        <5>5. QED
          BY <4>1, <4>2, <4>3, <5>1, <5>3, <5>4 DEF Kept
      <4>5. CASE heard = c
        <5>1. UNCHANGED <<driver, inUse, protocol, chassisType, heard>>
          BY <4>1, <4>2, <4>3, <4>5 DEF Kept
        <5>2. Wheels' = Wheels
          BY <5>1 DEF Wheels
        <5>3. QED
          BY <4>1, <4>3, <5>1, <5>2 DEF Kept
      <4>6. QED
        BY <4>1, <4>4, <4>5
    <3>3. QED
      BY <3>1, <3>2 DEF KeptInv
  <2>2. ASSUME NEW n \in DriveCounts, InitializeParam(n) PROVE KeptInv'
    <3>1. UNCHANGED <<protocol, chassisType, heard, pc, inUse>>
      BY <2>2 DEF InitializeParam, taskVars
    <3>2. ASSUME faithful' PROVE Kept'
      <4>1. faithful /\ Kept /\ heard # None /\ n >= WheelCount(chassisType)
        BY <1>2, <2>2, <3>2 DEF InitializeParam, TypeOK, KeptInv, Kept
      <4>2. UNCHANGED fault /\ paramInited'
            /\ driver' = IF chassisType # SingleSteerPrec /\ n > 0
                           THEN [driver EXCEPT !.ids = @ \cup ConfiguredIds(n)]
                           ELSE driver
        BY <2>2, <4>1 DEF InitializeParam, Kept
      <4>3. driver \in DriverType
        BY <1>2 DEF TypeOK, DriverType
      <4>4. driver'.exists = driver.exists /\ driver'.mode = driver.mode
            /\ driver.ids \subseteq driver'.ids
        BY <4>2, <4>3 DEF DriverType
      <4>5. Wheels \subseteq driver'.ids
        <5>1. n \in Int /\ WheelCount(chassisType) \in 0 .. 4
          BY <1>2, BringUpAssumption, WheelCountType DEF TypeOK
        <5>2. CASE chassisType # SingleSteerPrec /\ n > 0
          <6>1. FirstWheels(n) \subseteq driver'.ids
            BY <4>2, <4>3, <5>2 DEF DriverType, ConfiguredIds
          <6>2. QED
            BY <4>1, <5>1, <6>1, FirstWheelsGrow DEF Wheels
        <5>3. CASE chassisType = SingleSteerPrec
          <6>1. Wheels \subseteq FirstWheels(2)
            BY <5>3 DEF Wheels, WheelCount, SingleSteerPrec, FirstWheels
          <6>2. QED
            BY <4>1, <4>4, <6>1 DEF Kept
        <5>4. CASE ~(n > 0)
          BY <4>1, <5>1, <5>4 DEF Wheels, FirstWheels
        <5>5. QED
          BY <5>2, <5>3, <5>4
      <4>6. Wheels' = Wheels
        BY <3>1 DEF Wheels
      <4>7. QED
        BY <3>1, <4>1, <4>2, <4>4, <4>5, <4>6 DEF Kept
    <3>3. QED
      BY <1>2, <3>1, <3>2 DEF KeptInv
  <2> USE <1>2 DEF KeptInv, Kept, confVars, hostVars, Goto, Wheels
  <2>3. CASE WaitStart
    BY <2>3 DEF WaitStart
  <2>4. CASE PollInited
    BY <2>4 DEF PollInited
  <2>5. CASE OpenCan
    BY <2>5 DEF OpenCan
  <2>6. CASE EnterGetInitMsg
    BY <2>6 DEF EnterGetInitMsg, EnterDriver
  <2>7. CASE GetInitMsg
    <3>1. pc' \in {"initMsg", "run"} /\ inUse' = "none" /\ pc = "getInitMsg"
      BY <2>7 DEF GetInitMsg
    <3>2. UNCHANGED <<confVars, paramInited, hostVars, fault>>
      BY <2>7 DEF GetInitMsg
    <3>3. QED
      BY <3>1, <3>2
  <2>8. CASE EnterEncode
    BY <2>8 DEF EnterEncode, EnterDriver
  <2>9. CASE Encode
    BY <2>9 DEF Encode
  <2>10. CASE UseAfterDelete
    BY <2>10 DEF UseAfterDelete
  <2>11. CASE UNCHANGED vars
    BY <2>11 DEF vars, taskVars
  <2>12. QED
    BY <2>1, <2>2, <2>3, <2>4, <2>5, <2>6, <2>7, <2>8, <2>9, <2>10, <2>11
       DEF Next, ChassisTask
<1>3. QED
  BY <1>1, <1>2, TypeCorrect, PTL DEF Spec

(* No null or deleted driver is ever called for such a host.               *)
THEOREM FaultFree == Spec => []NoFault
<1>1. KeptInv => NoFault
  BY DEF KeptInv, Kept, NoFault
<1>2. QED
  BY <1>1, KeptInductive, PTL

(* Every wheel of a running chassis has its identifier.                    *)
THEOREM AllWheelsAddressable == Spec => []WheelsAddressable
<1>1. KeptInv => WheelsAddressable
  BY DEF KeptInv, Kept, WheelsAddressable
<1>2. QED
  BY <1>1, KeptInductive, PTL

(* How far the initialisation of the drivers is: in position mode, the     *)
(* wheels from msgCount on have their message.                             *)
Initialising ==
  /\ pc \in {"waitStart", "poll", "open"} => msgCount = Unset /\ initialised = {}
  /\ pc \in {"initMsg", "getInitMsg"} =>
       IF driver.mode = "position"
         THEN \/ msgCount = Unset /\ initialised = {}
              \/ /\ msgCount \in 0 .. WheelCount(chassisType)
                 /\ initialised = Wheels \ FirstWheels(msgCount)
         ELSE initialised = {}
  /\ pc \in {"run", "encode"} /\ can = "open" =>
       initialised = IF driver.mode = "position" THEN Wheels ELSE {}

(* One more message, for the last wheel without one.                       *)
LEMMA OneMoreWheel ==
  ASSUME NEW n \in 0 .. 4, NEW k \in 1 .. n
  PROVE  (FirstWheels(n) \ FirstWheels(k)) \cup {k - 1}
            = FirstWheels(n) \ FirstWheels(k - 1)
<1>1. \A w \in 0 .. 3 : w < k - 1 <=> w < k /\ w # k - 1
  OBVIOUS
<1>2. k - 1 \in 0 .. 3 /\ k - 1 < n
  OBVIOUS
<1>3. QED
  BY <1>1, <1>2 DEF FirstWheels

(* The messages sent are those the count says, at every step.              *)
THEOREM InitialisationSent == Spec => []AllWheelsInitialised
<1>1. Init => (faithful => Initialising)
  BY DEF Init, Initialising
<1>2. ASSUME TypeOK, KeptInv, faithful => Initialising, [Next]_vars
      PROVE  (faithful => Initialising)'
  <2> USE <1>2
  <2>1. ASSUME NEW c \in Configs, ConfigChassisType(c), faithful'
        PROVE  Initialising'
    <3>1. /\ faithful /\ Kept /\ heard' = c
          /\ \/ heard = None
             \/ heard = c /\ UNCHANGED <<driver, inUse, protocol>>
      BY <2>1, FaithfulConfig
    <3>2. UNCHANGED <<pc, can, msgCount, initialised>> /\ chassisType' = c.type
      BY <2>1 DEF ConfigChassisType
    <3>3. CASE heard = None
      BY <3>1, <3>2, <3>3 DEF Kept, Initialising
    <3>4. CASE heard = c /\ UNCHANGED <<driver, inUse, protocol>>
      <4>1. c # None
        BY BringUpAssumption DEF None
      <4>2. chassisType' = chassisType
        BY <3>1, <3>2, <3>4, <4>1 DEF Kept
      <4>3. Wheels' = Wheels
        BY <4>2 DEF Wheels
      <4>4. QED
        BY <3>1, <3>2, <3>4, <4>2, <4>3 DEF Initialising
    <3>5. QED
      BY <3>1, <3>3, <3>4
  <2>2. ASSUME NEW n \in DriveCounts, InitializeParam(n), faithful'
        PROVE  Initialising'
    <3>1. UNCHANGED <<chassisType, pc, can, msgCount, initialised>> /\ faithful
      BY <2>2 DEF InitializeParam, taskVars, TypeOK
    <3>2. driver'.mode = driver.mode
      BY <2>2 DEF InitializeParam, TypeOK
    <3>3. Wheels' = Wheels
      BY <3>1 DEF Wheels
    <3>4. QED
      BY <3>1, <3>2, <3>3 DEF Initialising
  <2>3. CASE GetInitMsg
    <3> DEFINE n     == WheelCount(chassisType)
               count == IF msgCount = Unset THEN n ELSE msgCount
    <3>1. UNCHANGED <<confVars, can, faithful>> /\ pc = "getInitMsg"
      BY <2>3 DEF GetInitMsg, Goto, hostVars
    <3>2. n \in 0 .. 4 /\ Wheels = FirstWheels(n) /\ Wheels' = Wheels
      BY <3>1, WheelCountType DEF TypeOK, Wheels, confVars
    <3>3. IF driver.mode = "position" /\ count > 0
            THEN /\ initialised' = initialised \cup {count - 1}
                 /\ msgCount' = count - 1
                 /\ pc' = "initMsg"
            ELSE pc' = "run" /\ initialised' = initialised
      BY <2>3 DEF GetInitMsg, MoreInitMsgs, CountTaken, FirstCount, Goto
    <3>4. ASSUME faithful PROVE Initialising'
      <4>1. CASE driver.mode = "speed"
        BY <3>1, <3>3, <3>4, <4>1 DEF Initialising, confVars
      <4>2. CASE driver.mode = "position"
        <5>1. count \in 0 .. n /\ initialised = Wheels \ FirstWheels(count)
          <6>1. CASE msgCount = Unset /\ initialised = {}
            BY <3>2, <6>1
          <6>2. CASE /\ msgCount \in 0 .. n
                     /\ initialised = Wheels \ FirstWheels(msgCount)
            BY <3>2, <6>2 DEF Unset
          <6>3. QED
            BY <3>1, <3>4, <4>2, <6>1, <6>2 DEF Initialising
        <5>2. CASE count > 0
          <6>1. count \in 1 .. n /\ count - 1 \in 0 .. n
            BY <3>2, <5>1, <5>2
          <6>2. initialised' = Wheels \ FirstWheels(count - 1)
            BY <3>2, <3>3, <4>2, <5>1, <5>2, <6>1, OneMoreWheel
          <6> HIDE DEF count
          <6>3. QED
            BY <3>1, <3>2, <3>3, <4>2, <5>2, <6>1, <6>2
               DEF Initialising, confVars
        <5>3. CASE count = 0
          <6>1. FirstWheels(0) = {}
            BY DEF FirstWheels
          <6>2. initialised' = Wheels /\ pc' = "run"
            BY <3>3, <5>1, <5>3, <6>1
          <6>3. QED
            BY <3>1, <3>2, <4>2, <6>2 DEF Initialising, confVars
        <5>4. QED
          BY <3>2, <5>1, <5>2, <5>3
      <4>3. QED
        BY <4>1, <4>2 DEF TypeOK
    <3>5. QED
      BY <3>1, <3>4
  <2> USE DEF Initialising, Wheels, Goto, confVars, hostVars
  <2>4. CASE WaitStart
    BY <2>4 DEF WaitStart
  <2>5. CASE PollInited
    BY <2>5 DEF PollInited
  <2>6. CASE OpenCan
    BY <2>6 DEF OpenCan
  <2>7. CASE EnterGetInitMsg
    BY <2>7 DEF EnterGetInitMsg, EnterDriver
  <2>8. CASE EnterEncode
    BY <2>8 DEF EnterEncode, EnterDriver
  <2>9. CASE Encode
    BY <2>9 DEF Encode
  <2>10. CASE UseAfterDelete
    BY <2>10 DEF UseAfterDelete
  <2>11. CASE UNCHANGED vars
    BY <2>11 DEF vars, taskVars
  <2>12. QED
    BY <2>1, <2>2, <2>3, <2>4, <2>5, <2>6, <2>7, <2>8, <2>9, <2>10, <2>11
       DEF Next, ChassisTask
<1>3. (faithful => Initialising) => AllWheelsInitialised
  BY DEF Initialising, AllWheelsInitialised
<1>4. QED
  BY <1>1, <1>2, <1>3, TypeCorrect, KeptInductive, PTL DEF Spec

==============================================================================
