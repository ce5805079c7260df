------------------------------ MODULE Chassis ------------------------------
(***************************************************************************)
(* The running chassis task: CChassisDevice (src/src/chassis.cxx) driven   *)
(* by the loop of src/src/task_chassis.cxx.                                *)
(*                                                                         *)
(* Three activities share its state.  The command dispatch task stores a   *)
(* speed command, raises bNewSpeedCmd and posts cmdSem.  The 10 ms odometry *)
(* timer signals the chassis task, whose handler raises bOdoCmd and posts  *)
(* nothing: it relies on interrupting the sem_wait.  The chassis task      *)
(* itself waits, tests and clears the flags, writes one CAN frame per      *)
(* wheel and reads replies until it has counted one per wheel.             *)
(*                                                                         *)
(* The dispatch task has the higher priority (User/TasksPriority.h), on a  *)
(* single core, and nothing between the stores and the sem_post blocks: its *)
(* handler is one step.  Every test, store and frame of the chassis task   *)
(* is a step of its own, so the handler and the signal can fall between    *)
(* any two of them.                                                        *)
(***************************************************************************)
EXTENDS Integers, Sequences

CONSTANTS
  NumWheels,      \* num_of_wheel() of the configured chassis
  Speeds,         \* values of one component of a speed command
  Zero,           \* the component a stopped robot has
  SemMax,         \* largest count of cmdSem; sem_post fails beyond it
  TxDepth,        \* frames the bus holds per motor before write() blocks
  RxFifo,         \* frames the CAN driver holds for read()
  EintrVisible,   \* TRUE: an interrupted read() returns EINTR; FALSE: -1
  Unreliable      \* TRUE: a motor may leave a frame unanswered

ASSUME ChassisAssumption ==
  /\ NumWheels \in 1 .. 4
  /\ Zero \in Speeds
  /\ SemMax \in Nat \ {0}
  /\ TxDepth \in Nat \ {0}
  /\ RxFifo \in Nat \ {0}
  /\ EintrVisible \in BOOLEAN
  /\ Unreliable \in BOOLEAN

VARIABLES
  pc,             \* where the chassis task is
  i,              \* wheel counter of the send and of the receive loop
  cmdSem,
  bNewSpeedCmd,
  bOdoCmd,
  currentCmd,     \* 0: none, 1: speed, 2: odometry
  ori,            \* ori_global_X and ori_global_W
  planarVel,      \* the local copy sendSpeedCmd works from
  sent,           \* per wheel, the velocity of the last speed frame written
  bus,            \* per wheel, requests written and not yet answered
  rx,             \* replies waiting for read()
  retVal,         \* _retVal: which wheel's sample each slot holds
  waitRet         \* how waitCmdRet was left: end of its loop, or return -1

cmdVars  == <<cmdSem, bNewSpeedCmd, ori>>
taskVars == <<i, currentCmd, planarVel, sent>>
canVars  == <<bus, rx>>
retVars  == <<retVal, waitRet>>
vars     == <<pc, cmdVars, bOdoCmd, taskVars, canVars, retVars>>

Wheel == 0 .. NumWheels - 1

(* The indices of _retVal[4] and _retTyp[4].                               *)
RetSlot == 0 .. 3

Velocity == [x : Speeds, w : Speeds]

Stopped == [x |-> Zero, w |-> Zero]

(* DRV_CMD_TARGET_SPEED, DRV_CMD_ACTURAL_POS, and any frame decode() calls *)
(* DRV_CMD_UNDEFINED.                                                      *)
CmdType == {"speed", "pos", "undefined"}

(* fresh marks the traffic of the odometry query in progress.              *)
Request == [typ : CmdType, fresh : BOOLEAN]
Reply   == [src : Wheel, typ : CmdType, fresh : BOOLEAN]

(* src is -1 in a slot no position has been stored in.                     *)
Sample   == [src : Wheel \cup {-1}, fresh : BOOLEAN]
NoSample == [src |-> -1, fresh |-> FALSE]

PC == {"loop", "blocked", "eintr", "testSpeed", "clearSpeed", "testOdo",
       "clearOdo", "readX", "readW", "sendSpeed", "sendQuery", "wait",
       "interrupted", "report"}

(* waitCmdRet stores the reply with identifier 0x582 in slot 1 and every   *)
(* other one in slot 0; wheel n answers with identifier 0x581 + n.         *)
SlotAlwaysFirst(src) == 0

Slot(src) == IF src = 1 THEN 1 ELSE 0

(* What the task loop does with the value waitCmd returns.                 *)
Start(cmd) == CASE cmd = 1 -> "readX"
                [] cmd = 2 -> "sendQuery"
                [] OTHER   -> "loop"

(* The command type the receive loop waits for.                            *)
Awaited == IF currentCmd = 1 THEN "speed" ELSE "pos"

(* Where the loop goes once waitCmdRet has returned, either way.           *)
AfterWait == IF currentCmd = 1 THEN "loop" ELSE "report"

Aged(s) == [k \in DOMAIN s |-> [s[k] EXCEPT !.fresh = FALSE]]

Init ==
  /\ pc = "loop"
  /\ i = 0
  /\ cmdSem = 0
  /\ bNewSpeedCmd = FALSE
  /\ bOdoCmd = FALSE
  /\ currentCmd = 0
  /\ ori = Stopped
  /\ planarVel = Stopped
  /\ sent = [n \in Wheel |-> Stopped]
  /\ bus = [n \in Wheel |-> <<>>]
  /\ rx = <<>>
  /\ retVal = [n \in RetSlot |-> NoSample]
  /\ waitRet = "none"

----------------------------------------------------------------------------
(* The command dispatch task.                                              *)

SemPostMissing(sem) == sem

(* A sem_post past the largest count fails and only prints.                *)
SemPost(sem) == IF sem < SemMax THEN sem + 1 ELSE sem

(* chassisCmdHandler: the decoded velocity (after a decoding error, the    *)
(* fields decoded so far) is stored, then newSpeedCmd raises the flag and  *)
(* posts.                                                                  *)
ChassisCmdHandler(vel) ==
  /\ ori' = vel
  /\ bNewSpeedCmd' = TRUE
  /\ cmdSem' = SemPost(cmdSem)
  /\ UNCHANGED <<pc, bOdoCmd, taskVars, canVars, retVars>>

----------------------------------------------------------------------------
(* The odometry timer signal, handled in the chassis task's context.       *)

(* The signal ends a sem_wait or a read that is blocking, after the        *)
(* handler has run; a task that is not blocked just runs the handler.      *)
InSemWait == pc = "blocked" /\ cmdSem = 0
InRead    == pc = "wait" /\ rx = <<>>

TimerExpiration ==
  /\ bOdoCmd' = TRUE
  /\ pc' = CASE InSemWait -> "eintr"
             [] InRead    -> "interrupted"
             [] OTHER     -> pc
  /\ UNCHANGED <<cmdVars, taskVars, canVars, retVars>>

----------------------------------------------------------------------------
(* waitCmd, step by step.                                                  *)

SemWaitCall ==
  /\ pc = "loop"
  /\ IF cmdSem > 0
       THEN pc' = "testSpeed" /\ cmdSem' = cmdSem - 1
       ELSE pc' = "blocked" /\ UNCHANGED cmdSem
  /\ UNCHANGED <<bNewSpeedCmd, ori, bOdoCmd, taskVars, canVars, retVars>>

SemWaitWoken ==
  /\ pc = "blocked"
  /\ cmdSem > 0
  /\ pc' = "testSpeed"
  /\ cmdSem' = cmdSem - 1
  /\ UNCHANGED <<bNewSpeedCmd, ori, bOdoCmd, taskVars, canVars, retVars>>

SemWaitInterruptedIsError ==
  /\ pc = "eintr"
  /\ pc' = "loop"
  /\ UNCHANGED <<cmdVars, bOdoCmd, taskVars, canVars, retVars>>

(* An interrupted sem_wait goes on when bOdoCmd is up, and is an error     *)
(* (waitCmd returns -1, the loop starts over) otherwise.                   *)
SemWaitInterrupted ==
  /\ pc = "eintr"
  /\ pc' = IF bOdoCmd THEN "testSpeed" ELSE "loop"
  /\ UNCHANGED <<cmdVars, bOdoCmd, taskVars, canVars, retVars>>

TestSpeed ==
  /\ pc = "testSpeed"
  /\ pc' = IF bNewSpeedCmd THEN "clearSpeed" ELSE "testOdo"
  /\ UNCHANGED <<cmdVars, bOdoCmd, taskVars, canVars, retVars>>

ClearSpeed ==
  /\ pc = "clearSpeed"
  /\ bNewSpeedCmd' = FALSE
  /\ currentCmd' = 1
  /\ pc' = Start(1)
  /\ UNCHANGED <<cmdSem, ori, bOdoCmd, i, planarVel, sent, canVars, retVars>>

(* With neither flag up waitCmd returns what it returned the last time.    *)
(* bStateCmd is never raised and has no step.                              *)
TestOdo ==
  /\ pc = "testOdo"
  /\ pc' = IF bOdoCmd THEN "clearOdo" ELSE Start(currentCmd)
  /\ UNCHANGED <<cmdVars, bOdoCmd, taskVars, canVars, retVars>>

ClearOdoAndSpeed ==
  /\ pc = "clearOdo"
  /\ bOdoCmd' = FALSE
  /\ bNewSpeedCmd' = FALSE
  /\ currentCmd' = 2
  /\ pc' = Start(2)
  /\ UNCHANGED <<cmdSem, ori, i, planarVel, sent, canVars, retVars>>

ClearOdo ==
  /\ pc = "clearOdo"
  /\ bOdoCmd' = FALSE
  /\ currentCmd' = 2
  /\ pc' = Start(2)
  /\ UNCHANGED <<cmdVars, i, planarVel, sent, canVars, retVars>>

----------------------------------------------------------------------------
(* sendSpeedCmd and sendQueryCmd.                                          *)

(* planarVel.vx = ori_global_X; the vy read next is not used by the        *)
(* differential kinematics.                                                *)
ReadX ==
  /\ pc = "readX"
  /\ planarVel' = [planarVel EXCEPT !.x = ori.x]
  /\ pc' = "readW"
  /\ UNCHANGED <<cmdVars, bOdoCmd, i, currentCmd, sent, canVars, retVars>>

ReadWThenClearFlag ==
  /\ pc = "readW"
  /\ planarVel' = [planarVel EXCEPT !.w = ori.w]
  /\ bNewSpeedCmd' = FALSE
  /\ pc' = "sendSpeed"
  /\ UNCHANGED <<cmdSem, ori, bOdoCmd, i, currentCmd, sent, canVars, retVars>>

ReadW ==
  /\ pc = "readW"
  /\ planarVel' = [planarVel EXCEPT !.w = ori.w]
  /\ pc' = "sendSpeed"
  /\ UNCHANGED <<cmdVars, bOdoCmd, i, currentCmd, sent, canVars, retVars>>

NextWheelPastLast ==
  IF i + 1 <= NumWheels THEN i' = i + 1 /\ pc' = pc
                        ELSE i' = 0 /\ pc' = "wait"

(* Both send loops: the next wheel's frame is written, and after the last  *)
(* one waitCmdRet starts counting from 0.                                  *)
NextWheel ==
  IF i + 1 < NumWheels THEN i' = i + 1 /\ pc' = pc
                       ELSE i' = 0 /\ pc' = "wait"

SendSpeed ==
  /\ pc = "sendSpeed"
  /\ Len(bus[i]) < TxDepth
  /\ sent' = [sent EXCEPT ![i] = planarVel]
  /\ bus' = [bus EXCEPT ![i] = Append(@, [typ |-> "speed", fresh |-> FALSE])]
  /\ NextWheel
  /\ UNCHANGED <<cmdVars, bOdoCmd, currentCmd, planarVel, rx, retVars>>

(* The first frame of a query makes everything still under way, and every  *)
(* stored sample, belong to an earlier one.                                *)
SendQuery ==
  LET older == IF i = 0 THEN [n \in Wheel |-> Aged(bus[n])] ELSE bus IN
  /\ pc = "sendQuery"
  /\ Len(bus[i]) < TxDepth
  /\ bus' = [older EXCEPT ![i] = Append(@, [typ |-> "pos", fresh |-> TRUE])]
  /\ rx' = IF i = 0 THEN Aged(rx) ELSE rx
  /\ retVal' = IF i = 0 THEN Aged(retVal) ELSE retVal
  /\ NextWheel
  /\ UNCHANGED <<cmdVars, bOdoCmd, currentCmd, planarVel, sent, waitRet>>

----------------------------------------------------------------------------
(* waitCmdRet and report.                                                  *)

(* One read(): the reply is decoded into its slot (only a position has a   *)
(* value), and it counts when it has the awaited type, whoever sent it and *)
(* whichever request it answers.                                           *)
ReadFrame ==
  LET f == Head(rx)
      counts == f.typ = Awaited
  IN
  /\ pc = "wait"
  /\ rx # <<>>
  /\ rx' = Tail(rx)
  /\ retVal' = IF f.typ = "pos"
                 THEN [retVal EXCEPT ![Slot(f.src)] =
                         [src |-> f.src, fresh |-> f.fresh]]
                 ELSE retVal
  /\ IF counts /\ i + 1 = NumWheels
       THEN i' = 0 /\ pc' = AfterWait /\ waitRet' = "full"
       ELSE i' = (IF counts THEN i + 1 ELSE i) /\ UNCHANGED <<pc, waitRet>>
  /\ UNCHANGED <<cmdVars, bOdoCmd, currentCmd, planarVel, sent, bus>>

ReadInterruptedAlwaysRetried ==
  /\ pc = "interrupted"
  /\ pc' = "wait"
  /\ UNCHANGED <<cmdVars, bOdoCmd, taskVars, canVars, retVars>>

(* An interrupted read is tried again while a speed command is pending and *)
(* its status is EINTR; any other status makes waitCmdRet return -1, which *)
(* the loop ignores.                                                       *)
ReadInterrupted ==
  /\ pc = "interrupted"
  /\ IF EintrVisible /\ bNewSpeedCmd
       THEN pc' = "wait" /\ UNCHANGED <<i, waitRet>>
       ELSE pc' = AfterWait /\ i' = 0 /\ waitRet' = "error"
  /\ UNCHANGED <<cmdVars, bOdoCmd, currentCmd, planarVel, sent, canVars,
                 retVal>>

(* report() hands retVal to the odometry (modelled apart).                 *)
Report ==
  /\ pc = "report"
  /\ pc' = "loop"
  /\ UNCHANGED <<cmdVars, bOdoCmd, taskVars, canVars, retVars>>

----------------------------------------------------------------------------
(* The motor drivers and the bus (external).                               *)

(* The driver drops a frame that finds its receive FIFO full.              *)
Answer(n, typ) ==
  rx' = IF Len(rx) < RxFifo
          THEN Append(rx, [src |-> n, typ |-> typ,
                           fresh |-> Head(bus[n]).fresh])
          ELSE rx

Consume(n) ==
  /\ bus[n] # <<>>
  /\ bus' = [bus EXCEPT ![n] = Tail(@)]
  /\ UNCHANGED <<pc, cmdVars, bOdoCmd, taskVars, retVars>>

MotorReply(n) ==
  /\ Consume(n)
  /\ Answer(n, Head(bus[n]).typ)

(* A motor that is off the bus, or answers with an abort frame.            *)
MotorFails(n) ==
  /\ Unreliable
  /\ Consume(n)
  /\ UNCHANGED rx \/ Answer(n, "undefined")

----------------------------------------------------------------------------
ChassisTask ==
  \/ SemWaitCall \/ SemWaitWoken \/ SemWaitInterrupted
  \/ TestSpeed \/ ClearSpeed \/ TestOdo \/ ClearOdo
  \/ ReadX \/ ReadW \/ SendSpeed \/ SendQuery
  \/ ReadFrame \/ ReadInterrupted \/ Report

Next ==
  \/ \E vel \in Velocity : ChassisCmdHandler(vel)
  \/ TimerExpiration
  \/ ChassisTask
  \/ \E n \in Wheel : MotorReply(n) \/ MotorFails(n)

Spec == Init /\ [][Next]_vars

(* The scheduler runs the chassis task whenever it is ready and no higher  *)
(* task is, the timer is periodic, and a motor on the bus answers.         *)
Fairness ==
  /\ WF_vars(ChassisTask)
  /\ WF_vars(TimerExpiration)
  /\ \A n \in Wheel : WF_vars(MotorReply(n))

FairSpec == Spec /\ Fairness

----------------------------------------------------------------------------
(* Properties.                                                             *)

(* Every variable has the type its declaration in chassis.h gives it.      *)
TypeOK ==
  /\ pc \in PC
  /\ i \in Wheel
  /\ cmdSem \in 0 .. SemMax
  /\ bNewSpeedCmd \in BOOLEAN
  /\ bOdoCmd \in BOOLEAN
  /\ currentCmd \in {0, 1, 2}
  /\ ori \in Velocity
  /\ planarVel \in Velocity
  /\ sent \in [Wheel -> Velocity]
  /\ bus \in [Wheel -> Seq(Request)]
  /\ rx \in Seq(Reply)
  /\ retVal \in [RetSlot -> Sample]
  /\ waitRet \in {"none", "full", "error"}

(* No lost wake-up: a raised bNewSpeedCmd is backed by a post of cmdSem    *)
(* unless the task is already between its sem_wait and the clearing of the *)
(* flag, so waitCmd never sleeps over a speed command, wherever the        *)
(* dispatch task preempted it.                                             *)
NoLostWakeup ==
  bNewSpeedCmd /\ cmdSem = 0 => pc \in {"testSpeed", "clearSpeed"}

(* Stale or torn velocities are never final: sendSpeedCmd copies the       *)
(* command field by field while the dispatch task may overwrite it, but    *)
(* when the task sleeps in waitCmd every wheel's last speed frame carries  *)
(* exactly the last command.                                               *)
SpeedSettled ==
  InSemWait => \A n \in Wheel : sent[n] = ori

(* When waitCmdRet returns from a position query through the end of its    *)
(* loop ("get full query odo response"), slot n of _retVal holds wheel n's *)
(* answer to this very query.                                              *)
FullQueryResponse ==
  pc = "report" /\ waitRet = "full" =>
    \A n \in Wheel : retVal[n] = [src |-> n, fresh |-> TRUE]

(* The last speed command is eventually the one every wheel has been sent, *)
(* for good, whatever timer signals and replies interleave.                *)
FinalSpeedDriven ==
  \A v \in Velocity :
    <>[](ori = v) => <>[](\A n \in Wheel : sent[n] = v)

(* The register the host sees: sendSpeedCmd, from its first read of the    *)
(* command to its last frame, is a pass over the motors.                   *)
Driving == pc \in {"readX", "readW", "sendSpeed"}

Register ==
  INSTANCE SpeedRegister WITH
    Motor   <- Wheel,
    Value   <- Velocity,
    Rest    <- Stopped,
    cmd     <- ori,
    waiting <- bNewSpeedCmd,
    driving <- Driving,
    out     <- sent

(* The chassis implements the register: a torn or outdated velocity is     *)
(* only ever written to a motor while the command that replaces it is      *)
(* flagged, the flag never goes down before its pass, and a pass that no   *)
(* command overtook leaves every motor at the last command.                *)
ImplementsRegister == Register!Spec

(* Odometry goes on for ever once no speed command is pending, although    *)
(* the timer handler posts nothing and a signal that finds the task busy   *)
(* wakes nobody.                                                           *)
OdoServed ==
  <>[](~bNewSpeedCmd) => []<>(pc = "report")

============================================================================
