------------------------------- MODULE BringUp -------------------------------
(***************************************************************************)
(* From power-up to a running chassis: the host configures the board over  *)
(* UDP (0xA004 names the drivers' brand and the chassis type, 0xA005 the   *)
(* drives), and the chassis task waits for both, opens the CAN device,     *)
(* sends the drivers their initialisation messages and starts to drive.    *)
(*                                                                         *)
(* The two tasks share the driver object: setProtocol (chassis.cxx) deletes *)
(* and replaces it in the dispatch task, initializeParam (Mileage.cxx)     *)
(* writes the motor identifiers into it there, and the chassis task, of    *)
(* lower priority, may be preempted inside one of its methods.             *)
(***************************************************************************)
EXTENDS Integers

CONSTANTS
  Configs,      \* what 0xA004 may say: records [brand, type]
  DriveCounts,  \* how many drives 0xA005 may list
  HeapBytes,    \* what _protocol, never initialised, may hold at power-up
  SemMax        \* largest count of openSem

ASSUME BringUpAssumption ==
  /\ Configs \subseteq [brand : 0 .. 255, type : 0 .. 8]
  /\ DriveCounts \subseteq 0 .. 4
  /\ HeapBytes \subseteq 0 .. 255
  /\ SemMax \in Nat \ {0}

VARIABLES
  protocol,     \* _protocol
  driver,       \* _driverProtocol: NoDriver, or the object it points to
  chassisType,  \* m_chassisType
  paramInited,  \* m_param_inited
  openSem,
  pc,           \* where the chassis task is
  inUse,        \* the object whose method it is in: "none", "live", "deleted"
  can,          \* can1_fd: "closed", "open", or "failed" (negative)
  msgCount,     \* the static of CProtocolCopleyCAN::getInitMsg
  initialised,  \* wheels whose driver was sent its initialisation message
  fault,        \* what the chassis or the dispatch task ran into
  heard,        \* history: the first configuration the host sent
  faithful      \* history: the host has kept to its side (below)

hostVars == <<heard, faithful>>
taskVars == <<pc, inUse, can, msgCount, initialised>>
confVars == <<protocol, driver, chassisType>>
vars == <<confVars, paramInited, openSem, taskVars, fault, hostVars>>

(* num_of_wheel().                                                         *)
WheelCount(type) ==
  CASE type \in {4, 5}    -> 1     \* SINGLE_STEER_PREC, SINGLE_STEER_AFTER
    [] type \in {1, 6}    -> 2     \* DOUBLE_DIFF, DOUBLE_STEER
    [] type = 2           -> 3     \* TRICYCLE
    [] type \in {3, 7, 8} -> 4     \* QUAD_MACNUM, QUAD_STEER, QUAD_DIFF
    [] OTHER              -> 0

DoubleDiff      == 1
SingleSteerPrec == 4

FirstWheels(n) == {w \in 0 .. 3 : w < n}

Wheels == FirstWheels(WheelCount(chassisType))

(* The brands setProtocol makes a driver for, and the mode it gives it:    *)
(* CanOpen, CanOpenPosition, JingZhiCanopen.                               *)
Supported == {2, 5, 12}

Mode(brand) == IF brand = 5 THEN "position" ELSE "speed"

NoDriver == [exists |-> FALSE, mode |-> "speed", ids |-> {}]

(* A new driver gives an identifier to the wheels the chassis has now.     *)
NewDriver(brand) == [exists |-> TRUE, mode |-> Mode(brand), ids |-> Wheels]

Unset == -100     \* msgCount before the first call

None == [brand |-> -1, type |-> -1]

Init ==
  /\ protocol \in HeapBytes
  /\ driver = NoDriver
  /\ chassisType = DoubleDiff
  /\ paramInited = FALSE
  /\ openSem = 0
  /\ pc = "waitStart"
  /\ inUse = "none"
  /\ can = "closed"
  /\ msgCount = Unset
  /\ initialised = {}
  /\ fault = "none"
  /\ heard = None
  /\ faithful = TRUE

----------------------------------------------------------------------------
(* The dispatch task.                                                      *)

SetProtocolAlways(brand) ==
  /\ protocol' = brand
  /\ driver' = IF brand \in Supported THEN NewDriver(brand) ELSE NoDriver
  /\ inUse' = IF inUse = "live" THEN "deleted" ELSE inUse

(* setProtocol.  The brand it has already is left alone; any other one     *)
(* deletes the driver, whoever is using it.                                *)
SetProtocol(brand) ==
  IF protocol = brand
    THEN UNCHANGED <<protocol, driver, inUse>>
    ELSE /\ protocol' = brand
         /\ driver' = IF brand \in Supported THEN NewDriver(brand) ELSE NoDriver
         /\ inUse' = IF inUse = "live" THEN "deleted" ELSE inUse

SetStart == openSem' = IF openSem < SemMax THEN openSem + 1 ELSE openSem

(* A host keeps to its side when it always sends one configuration of a    *)
(* supported brand, however often, with the brand not happening to be what *)
(* the heap held.                                                          *)
KeepsTo(c) ==
  /\ c.brand \in Supported
  /\ IF heard = None THEN c.brand # protocol ELSE c = heard

(* configChassisTypeFunc: setProtocol, setChassisType, setStart.  (A       *)
(* message that cannot be decoded, or says there is no chassis, changes    *)
(* nothing.)                                                               *)
ConfigChassisType(c) ==
  /\ fault = "none"
  /\ SetProtocol(c.brand)
  /\ chassisType' = c.type
  /\ SetStart
  /\ heard' = IF heard = None THEN c ELSE heard
  /\ faithful' = (faithful /\ KeepsTo(c))
  /\ UNCHANGED <<paramInited, pc, can, msgCount, initialised, fault>>

IdsOfPair(n) == FirstWheels(n) \cap {0, 1}

(* The drives whose identifiers the loop of initializeParam sets.          *)
ConfiguredIds(n) == FirstWheels(n)

(* initializeParam with n drives: the identifiers go into the driver, which *)
(* must exist unless the chassis is a single front steering wheel; too few *)
(* drives only print a line.                                               *)
InitializeParam(n) ==
  LET loops == chassisType # SingleSteerPrec /\ n > 0 IN
  /\ fault = "none"
  /\ IF loops /\ ~driver.exists
       THEN fault' = "nullDriver" /\ UNCHANGED <<driver, paramInited>>
       ELSE /\ driver' = IF loops
                           THEN [driver EXCEPT !.ids = @ \cup ConfiguredIds(n)]
                           ELSE driver
            /\ paramInited' = TRUE
            /\ UNCHANGED fault
  /\ faithful' = (faithful /\ heard # None /\ n >= WheelCount(heard.type))
  /\ UNCHANGED <<protocol, chassisType, openSem, taskVars, heard>>

----------------------------------------------------------------------------
(* The chassis task.                                                       *)

Goto(label) ==
  /\ fault = "none"
  /\ pc' = label
  /\ UNCHANGED <<confVars, paramInited, hostVars>>

WaitStart ==
  /\ pc = "waitStart"
  /\ openSem > 0
  /\ openSem' = openSem - 1
  /\ Goto("poll")
  /\ UNCHANGED <<inUse, can, msgCount, initialised, fault>>

(* doInit's loop of isInited() and sleep(1).                               *)
PollInited ==
  /\ pc = "poll"
  /\ paramInited
  /\ Goto("open")
  /\ UNCHANGED <<openSem, inUse, can, msgCount, initialised, fault>>

(* open() fails: doInit returns 1, which task_chassis ignores.             *)
OpenCan ==
  /\ pc = "open"
  /\ \/ can' = "open" /\ Goto("initMsg")
     \/ can' = "failed" /\ Goto("run")
  /\ UNCHANGED <<openSem, inUse, msgCount, initialised, fault>>

(* A method of *_driverProtocol is entered: getInitMsg or encode.          *)
EnterDriver(from, method) ==
  /\ pc = from
  /\ IF driver.exists
       THEN inUse' = "live" /\ Goto(method) /\ UNCHANGED fault
       ELSE Goto(from) /\ fault' = "nullDriver" /\ UNCHANGED inUse
  /\ UNCHANGED <<openSem, can, msgCount, initialised>>

EnterGetInitMsg == EnterDriver("initMsg", "getInitMsg")
EnterEncode     == EnterDriver("run", "encode")

CountsDownToMinusOne(count) == count >= 0

(* There is a wheel left to initialise.                                    *)
MoreInitMsgs(count) == count > 0

CountKept(count) == count

CountTaken(count) == count - 1

CountAtStart == 2

(* The value the static takes on its first use.                            *)
FirstCount == WheelCount(chassisType)

(* The rest of getInitMsg, and the write of the message it made.  A driver *)
(* in speed mode makes none; one in position mode counts the static down.  *)
GetInitMsg ==
  LET count == IF msgCount = Unset THEN FirstCount ELSE msgCount IN
  /\ pc = "getInitMsg"
  /\ inUse = "live"
  /\ IF driver.mode = "position" /\ MoreInitMsgs(count)
       THEN /\ initialised' = initialised \cup {count - 1}
            /\ msgCount' = CountTaken(count)
            /\ Goto("initMsg")
       ELSE /\ msgCount' = IF driver.mode = "position"
                             THEN WheelCount(chassisType)
                             ELSE count
            /\ Goto("run")
            /\ UNCHANGED initialised
  /\ inUse' = "none"
  /\ UNCHANGED <<openSem, can, fault>>

(* The rest of encode, and the write of the frame.                         *)
Encode ==
  /\ pc = "encode"
  /\ inUse = "live"
  /\ inUse' = "none"
  /\ Goto("run")
  /\ UNCHANGED <<openSem, can, msgCount, initialised, fault>>

(* The task goes on inside an object that was deleted under it.            *)
UseAfterDelete ==
  /\ inUse = "deleted"
  /\ Goto(pc)
  /\ fault' = "dangling"
  /\ UNCHANGED <<openSem, inUse, can, msgCount, initialised>>

ChassisTask ==
  \/ WaitStart \/ PollInited \/ OpenCan
  \/ EnterGetInitMsg \/ GetInitMsg
  \/ EnterEncode \/ Encode
  \/ UseAfterDelete

Next ==
  \/ \E c \in Configs : ConfigChassisType(c)
  \/ \E n \in DriveCounts : InitializeParam(n)
  \/ ChassisTask

Spec == Init /\ [][Next]_vars

(* The chassis task is scheduled whenever it can run.                      *)
FairSpec == Spec /\ WF_vars(ChassisTask)

----------------------------------------------------------------------------
(* Properties.  What they promise they promise a host that keeps to its    *)
(* side: configurations may be repeated, at any time and from then on.     *)

(* Every variable has its type; msgCount never counts below 0.             *)
TypeOK ==
  /\ protocol \in 0 .. 255
  /\ driver \in [exists : BOOLEAN, mode : {"speed", "position"},
                 ids : SUBSET (0 .. 3)]
  /\ chassisType \in 0 .. 8
  /\ paramInited \in BOOLEAN
  /\ openSem \in 0 .. SemMax
  /\ pc \in {"waitStart", "poll", "open", "initMsg", "getInitMsg", "run",
             "encode"}
  /\ inUse \in {"none", "live", "deleted"}
  /\ can \in {"closed", "open", "failed"}
  /\ msgCount \in {Unset} \cup 0 .. 4
  /\ initialised \subseteq 0 .. 3
  /\ fault \in {"none", "nullDriver", "dangling"}
  /\ heard \in Configs \cup {None}
  /\ faithful \in BOOLEAN

(* No task ever calls through a null driver or goes on in a deleted one,   *)
(* although a repeated configuration may arrive in the middle of a call.   *)
NoFault == faithful => fault = "none"

(* A running chassis has an identifier for each of its wheels: the frame   *)
(* of every wheel goes to a configured motor.                              *)
WheelsAddressable ==
  faithful /\ pc \in {"run", "encode"} => Wheels \subseteq driver.ids

(* A chassis of drivers in position mode that runs on an open bus has sent *)
(* each wheel, and nothing but its wheels, the initialisation message.     *)
AllWheelsInitialised ==
  faithful /\ pc \in {"run", "encode"} /\ can = "open" =>
    initialised = IF driver.mode = "position" THEN Wheels ELSE {}

(* Both configurations received, the chassis eventually runs.              *)
EventuallyRuns ==
  <>[](faithful /\ heard # None /\ paramInited) => <>(pc = "run")

==============================================================================
