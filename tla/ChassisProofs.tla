--------------------------- MODULE ChassisProofs ---------------------------
(***************************************************************************)
(* Proofs about Chassis, for every number of wheels, every set of speeds,  *)
(* every queue bound, and with or without signals during a read, visible   *)
(* EINTR and unreliable motors.                                            *)
(***************************************************************************)
EXTENDS Chassis, TLAPS

USE DEF Wheel, RetSlot

(* Ageing the traffic under way (SendQuery) keeps the types of what it     *)
(* ages.                                                                   *)
LEMMA AgedType ==
  /\ \A s \in Seq(Request) : Aged(s) \in Seq(Request) /\ Len(Aged(s)) = Len(s)
  /\ \A s \in Seq(Reply) : Aged(s) \in Seq(Reply) /\ Len(Aged(s)) = Len(s)
  /\ \A s \in [RetSlot -> Sample] : Aged(s) \in [RetSlot -> Sample]
<1>1. ASSUME NEW s \in Seq(Request)
      PROVE  Aged(s) \in Seq(Request) /\ Len(Aged(s)) = Len(s)
  <2>1. ASSUME NEW r \in Request PROVE [r EXCEPT !.fresh = FALSE] \in Request
    BY DEF Request, CmdType
  <2>2. DOMAIN s = 1 .. Len(s) /\ \A k \in 1 .. Len(s) : s[k] \in Request
    OBVIOUS
  <2>3. Aged(s) \in [1 .. Len(s) -> Request]
    BY <2>1, <2>2 DEF Aged
  <2>4. QED
    BY <2>3
<1>2. ASSUME NEW s \in Seq(Reply)
      PROVE  Aged(s) \in Seq(Reply) /\ Len(Aged(s)) = Len(s)
  <2>1. ASSUME NEW r \in Reply PROVE [r EXCEPT !.fresh = FALSE] \in Reply
    BY DEF Reply, CmdType
  <2>2. DOMAIN s = 1 .. Len(s) /\ \A k \in 1 .. Len(s) : s[k] \in Reply
    OBVIOUS
  <2>3. Aged(s) \in [1 .. Len(s) -> Reply]
    BY <2>1, <2>2 DEF Aged
  <2>4. QED
    BY <2>3
<1>3. ASSUME NEW s \in [RetSlot -> Sample]
      PROVE  Aged(s) \in [RetSlot -> Sample]
  <2>1. ASSUME NEW x \in Sample PROVE [x EXCEPT !.fresh = FALSE] \in Sample
    BY DEF Sample
  <2>2. \A k \in RetSlot : [s[k] EXCEPT !.fresh = FALSE] \in Sample
    BY <2>1
  <2>3. DOMAIN s = RetSlot
    OBVIOUS
  <2>4. QED
    BY <2>2, <2>3 DEF Aged
<1>4. QED
  BY <1>1, <1>2, <1>3

(* Type correctness of the running chassis task.                           *)
THEOREM TypeCorrect == Spec => []TypeOK
<1>1. Init => TypeOK
  <2> SUFFICES ASSUME Init PROVE TypeOK
    OBVIOUS
  <2> USE DEF Init
  <2>1. Stopped \in Velocity
    BY ChassisAssumption DEF Stopped, Velocity
  <2>2. /\ pc \in PC
        /\ i \in Wheel
        /\ cmdSem \in 0 .. SemMax
    BY ChassisAssumption DEF PC
  <2>3. sent \in [Wheel -> Velocity]
    BY <2>1
  <2>4. bus \in [Wheel -> Seq(Request)] /\ rx \in Seq(Reply)
    OBVIOUS
  <2>5. retVal \in [RetSlot -> Sample]
    BY DEF Sample, NoSample
  <2>6. QED
    BY <2>1, <2>2, <2>3, <2>4, <2>5 DEF TypeOK
<1>2. ASSUME TypeOK, [Next]_vars PROVE TypeOK'
  <2> USE <1>2 DEF TypeOK
  <2>1. ASSUME NEW vel \in Velocity, ChassisCmdHandler(vel) PROVE TypeOK'
    BY <2>1, ChassisAssumption
       DEF ChassisCmdHandler, SemPost, taskVars, canVars, retVars
  <2>2. CASE TimerExpiration
    BY <2>2 DEF TimerExpiration, PC, cmdVars, taskVars, canVars, retVars
  <2>3. CASE SemWaitCall
    BY <2>3, ChassisAssumption DEF SemWaitCall, PC, taskVars, canVars, retVars
  <2>4. CASE SemWaitWoken
    BY <2>4, ChassisAssumption DEF SemWaitWoken, PC, taskVars, canVars, retVars
  <2>5. CASE SemWaitInterrupted
    BY <2>5 DEF SemWaitInterrupted, PC, cmdVars, taskVars, canVars, retVars
  <2>6. CASE TestSpeed
    BY <2>6 DEF TestSpeed, PC, cmdVars, taskVars, canVars, retVars
  <2>7. CASE ClearSpeed
    BY <2>7 DEF ClearSpeed, Start, PC, canVars, retVars
  <2>8. CASE TestOdo
    BY <2>8 DEF TestOdo, Start, PC, cmdVars, taskVars, canVars, retVars
  <2>9. CASE ClearOdo
    BY <2>9 DEF ClearOdo, Start, PC, cmdVars, canVars, retVars
  <2>10. CASE ReadX
    BY <2>10 DEF ReadX, PC, Velocity, cmdVars, canVars, retVars
  <2>11. CASE ReadW
    BY <2>11 DEF ReadW, PC, Velocity, cmdVars, canVars, retVars
  <2>12. CASE SendSpeed
    BY <2>12, ChassisAssumption
       DEF SendSpeed, NextWheel, PC, Request, CmdType, cmdVars, retVars
  <2>13. CASE SendQuery
    <3> DEFINE older == IF i = 0 THEN [n \in Wheel |-> Aged(bus[n])] ELSE bus
    <3>1. older \in [Wheel -> Seq(Request)]
      BY AgedType
    <3>2. [typ |-> "pos", fresh |-> TRUE] \in Request
      BY DEF Request, CmdType
    <3>3. bus' = [older EXCEPT ![i] = Append(@, [typ |-> "pos", fresh |-> TRUE])]
      BY <2>13 DEF SendQuery
    <3>4. bus' \in [Wheel -> Seq(Request)]
      <4> HIDE DEF older
      <4> QED BY <3>1, <3>2, <3>3
    <3>5. rx' \in Seq(Reply) /\ retVal' \in [RetSlot -> Sample]
      BY <2>13, AgedType DEF SendQuery
    <3>6. pc' \in PC /\ i' \in Wheel
      <4>1. NextWheel
        BY <2>13 DEF SendQuery
      <4>2. QED
        BY <4>1, ChassisAssumption DEF NextWheel, PC
    <3>7. QED
      BY <2>13, <3>4, <3>5, <3>6 DEF SendQuery, cmdVars
  <2>14. CASE ReadFrame
    <3>1. Head(rx) \in Reply /\ Tail(rx) \in Seq(Reply)
      BY <2>14 DEF ReadFrame
    <3>2. [src |-> Head(rx).src, fresh |-> Head(rx).fresh] \in Sample
      BY <3>1 DEF Reply, Sample
    <3>3. retVal' \in [RetSlot -> Sample]
      BY <2>14, <3>2 DEF ReadFrame, Slot
    <3>4. pc' \in PC /\ i' \in Wheel /\ waitRet' \in {"full", waitRet}
      <4>1. CASE Head(rx).typ = Awaited /\ i + 1 = NumWheels
        BY <2>14, <4>1, ChassisAssumption DEF ReadFrame, AfterWait, PC
      <4>2. CASE Head(rx).typ = Awaited /\ i + 1 # NumWheels
        BY <2>14, <4>2, ChassisAssumption DEF ReadFrame, PC
      <4>3. CASE Head(rx).typ # Awaited
        BY <2>14, <4>3, ChassisAssumption DEF ReadFrame, PC
      <4>4. QED
        BY <4>1, <4>2, <4>3
    <3>5. QED
      BY <2>14, <3>1, <3>3, <3>4 DEF ReadFrame, cmdVars
  <2>15. CASE ReadInterrupted
    BY <2>15, ChassisAssumption
       DEF ReadInterrupted, AfterWait, PC, cmdVars, canVars
  <2>16. CASE Report
    BY <2>16 DEF Report, PC, cmdVars, taskVars, canVars, retVars
  <2>17. ASSUME NEW n \in Wheel, MotorReply(n) \/ MotorFails(n) PROVE TypeOK'
    <3>1. Consume(n)
      BY <2>17 DEF MotorReply, MotorFails
    <3>2. Head(bus[n]) \in Request /\ Tail(bus[n]) \in Seq(Request)
      BY <3>1 DEF Consume
    <3>3. ASSUME NEW typ \in CmdType, Answer(n, typ) PROVE rx' \in Seq(Reply)
      <4>1. [src |-> n, typ |-> typ, fresh |-> Head(bus[n]).fresh] \in Reply
        BY <3>2 DEF Request, Reply
      <4>2. QED
        BY <3>3, <4>1 DEF Answer
    <3>4. Head(bus[n]).typ \in CmdType /\ "undefined" \in CmdType
      BY <3>2 DEF Request, CmdType
    <3>5. rx' \in Seq(Reply)
      BY <2>17, <3>3, <3>4 DEF MotorReply, MotorFails
    <3>6. QED
      BY <3>1, <3>2, <3>5 DEF Consume, cmdVars, taskVars, retVars
  <2>18. CASE UNCHANGED vars
    BY <2>18 DEF vars, cmdVars, taskVars, canVars, retVars
  <2>19. QED
    BY <2>1, <2>2, <2>3, <2>4, <2>5, <2>6, <2>7, <2>8, <2>9, <2>10, <2>11,
       <2>12, <2>13, <2>14, <2>15, <2>16, <2>17, <2>18, <1>2
       DEF Next, ChassisTask
<1>3. QED
  BY <1>1, <1>2, PTL DEF Spec

----------------------------------------------------------------------------
(* Why no wake-up is lost and no velocity is stale for good.               *)

(* sendSpeedCmd copies ori after bNewSpeedCmd has been cleared.  So as     *)
(* long as the flag is down, each component of the copy is up to date from *)
(* the moment it has been read; and the wheels have been sent the copy     *)
(* except during the two reads and the send loop.                          *)
SpeedInv ==
  /\ pc \notin {"sendSpeed", "sendQuery", "wait", "interrupted"} => i = 0
  /\ pc = "clearSpeed" => bNewSpeedCmd
  /\ ~bNewSpeedCmd /\ pc # "readX" => planarVel.x = ori.x
  /\ ~bNewSpeedCmd /\ pc \notin {"readX", "readW"} => planarVel.w = ori.w
  /\ pc = "sendSpeed" => \A n \in 0 .. i - 1 : sent[n] = planarVel
  /\ pc \notin {"readW", "sendSpeed"} => \A n \in Wheel : sent[n] = planarVel

(* The error return of waitCmd is dead code: an interrupted sem_wait has   *)
(* run the timer handler, and only the chassis task itself clears bOdoCmd. *)
EintrInv == pc = "eintr" => bOdoCmd

IInv == TypeOK /\ NoLostWakeup /\ EintrInv /\ SpeedInv

(* The inductive invariant behind the two properties of chassis.cxx that   *)
(* follow.                                                                 *)
THEOREM InductiveInvariant == Spec => []IInv
<1>1. Init => NoLostWakeup /\ EintrInv /\ SpeedInv
  BY DEF Init, NoLostWakeup, EintrInv, SpeedInv
<1>2. ASSUME IInv, TypeOK', [Next]_vars
      PROVE  (NoLostWakeup /\ EintrInv /\ SpeedInv)'
  <2> USE <1>2 DEF IInv, NoLostWakeup, EintrInv, SpeedInv, TypeOK
  <2>1. ASSUME NEW vel \in Velocity, ChassisCmdHandler(vel)
        PROVE  (NoLostWakeup /\ EintrInv /\ SpeedInv)'
    BY <2>1, ChassisAssumption
       DEF ChassisCmdHandler, SemPost, taskVars, canVars, retVars
  <2>2. CASE TimerExpiration
    BY <2>2 DEF TimerExpiration, InSemWait, InRead, cmdVars, taskVars
  <2>3. CASE SemWaitCall
    BY <2>3 DEF SemWaitCall, taskVars
  <2>4. CASE SemWaitWoken
    BY <2>4 DEF SemWaitWoken, taskVars
  <2>5. CASE SemWaitInterrupted
    BY <2>5 DEF SemWaitInterrupted, cmdVars, taskVars
  <2>6. CASE TestSpeed
    BY <2>6 DEF TestSpeed, cmdVars, taskVars
  <2>7. CASE ClearSpeed
    BY <2>7 DEF ClearSpeed, Start
  <2>8. CASE TestOdo
    BY <2>8 DEF TestOdo, Start, cmdVars, taskVars
  <2>9. CASE ClearOdo
    BY <2>9 DEF ClearOdo, Start, cmdVars
  <2>10. CASE ReadX
    BY <2>10 DEF ReadX, Velocity, cmdVars
  <2>11. CASE ReadW
    BY <2>11 DEF ReadW, Velocity, cmdVars
  <2>12. CASE SendSpeed
    <3>1. /\ pc = "sendSpeed"
          /\ sent' = [sent EXCEPT ![i] = planarVel]
          /\ NextWheel
          /\ UNCHANGED <<cmdVars, bOdoCmd, planarVel>>
      BY <2>12 DEF SendSpeed
    <3>2. \A n \in 0 .. i : sent'[n] = planarVel
      BY SMTT(30), <3>1, ChassisAssumption
    <3>3. CASE i + 1 < NumWheels
      <4>1. i' = i + 1 /\ pc' = "sendSpeed"
        BY <3>1, <3>3 DEF NextWheel
      <4>2. QED
        BY <3>1, <3>2, <4>1 DEF cmdVars
    <3>4. CASE ~(i + 1 < NumWheels)
      <4>1. i' = 0 /\ pc' = "wait" /\ Wheel = 0 .. i
        BY <3>1, <3>4, ChassisAssumption DEF NextWheel
      <4>2. QED
        BY <3>1, <3>2, <4>1 DEF cmdVars
    <3>5. QED
      BY <3>3, <3>4
  <2>13. CASE SendQuery
    <3>1. NextWheel /\ UNCHANGED <<cmdVars, bOdoCmd, planarVel, sent>>
      BY <2>13 DEF SendQuery
    <3>2. pc = "sendQuery"
      BY <2>13 DEF SendQuery
    <3>3. QED
      BY <3>1, <3>2, ChassisAssumption DEF NextWheel, cmdVars
  <2>14. CASE ReadFrame
    <3>1. /\ pc = "wait"
          /\ pc' = "wait" \/ (pc' \in {"loop", "report"} /\ i' = 0)
          /\ UNCHANGED <<cmdVars, bOdoCmd, planarVel, sent>>
      BY <2>14 DEF ReadFrame, AfterWait
    <3>2. QED
      BY <3>1 DEF cmdVars
  <2>15. CASE ReadInterrupted
    BY <2>15 DEF ReadInterrupted, AfterWait, cmdVars
  <2>16. CASE Report
    BY <2>16 DEF Report, cmdVars, taskVars
  <2>17. ASSUME NEW n \in Wheel, MotorReply(n) \/ MotorFails(n)
         PROVE  (NoLostWakeup /\ EintrInv /\ SpeedInv)'
    <3>1. Consume(n)
      BY <2>17 DEF MotorReply, MotorFails
    <3>2. QED
      BY <3>1 DEF Consume, cmdVars, taskVars
  <2>18. CASE UNCHANGED vars
    BY <2>18 DEF vars, cmdVars, taskVars
  <2>19. QED
    BY <2>1, <2>2, <2>3, <2>4, <2>5, <2>6, <2>7, <2>8, <2>9, <2>10, <2>11,
       <2>12, <2>13, <2>14, <2>15, <2>16, <2>17, <2>18, <1>2
       DEF Next, ChassisTask
<1>3. QED
  BY <1>1, <1>2, TypeCorrect, PTL DEF Spec, IInv

(* newSpeedCmd never leaves a speed command behind that waitCmd sleeps     *)
(* over.                                                                   *)
THEOREM NoWakeupLost == Spec => []NoLostWakeup
BY InductiveInvariant, PTL DEF IInv

(* Whatever the interleaving of sendSpeedCmd with chassisCmdHandler, once  *)
(* the chassis task sleeps in waitCmd every wheel has been sent exactly    *)
(* the last command.                                                       *)
THEOREM NoStaleSpeed == Spec => []SpeedSettled
<1>1. IInv => SpeedSettled
  <2> SUFFICES ASSUME IInv, InSemWait, NEW n \in Wheel PROVE sent[n] = ori
    BY DEF SpeedSettled
  <2>1. pc = "blocked" /\ ~bNewSpeedCmd
    BY DEF IInv, NoLostWakeup, InSemWait, TypeOK
  <2>2. sent[n] = planarVel
    BY <2>1 DEF IInv, SpeedInv
  <2>3. planarVel.x = ori.x /\ planarVel.w = ori.w
    BY <2>1 DEF IInv, SpeedInv
  <2>4. QED
    BY <2>2, <2>3 DEF IInv, TypeOK, Velocity
<1>2. QED
  BY <1>1, InductiveInvariant, PTL

----------------------------------------------------------------------------
(* The refinement.                                                         *)

USE DEF Driving

(* While no command is flagged the two fields of the local copy agree with *)
(* the command as soon as both have been read.                             *)
LEMMA CopyCurrent ==
  ASSUME IInv, ~bNewSpeedCmd, pc \notin {"readX", "readW"}
  PROVE  planarVel = ori
BY DEF IInv, SpeedInv, TypeOK, Velocity

(* The steps of the task outside sendSpeedCmd, of the timer and of the     *)
(* motors leave the register alone.                                        *)
LEMMA Unseen ==
  ASSUME UNCHANGED <<ori, bNewSpeedCmd, sent>>, Driving' = Driving
  PROVE  UNCHANGED Register!register
BY DEF Register!register

(* The chassis task implements the register of the last speed command.     *)
THEOREM RegisterImplemented == Spec => ImplementsRegister
<1>1. Init => Register!Init
  BY DEF Init, Register!Init
<1>2. ASSUME IInv, IInv', [Next]_vars
      PROVE  [Register!Next]_(Register!register)
  <2> USE <1>2
  <2>1. ASSUME NEW vel \in Velocity, ChassisCmdHandler(vel)
        PROVE  Register!Next
    <3>1. Register!Command(vel)
      BY <2>1 DEF ChassisCmdHandler, Register!Command, taskVars
    <3>2. QED
      BY <3>1 DEF Register!Next
  <2>2. CASE TimerExpiration
    BY <2>2, Unseen DEF TimerExpiration, InSemWait, InRead, cmdVars, taskVars
  <2>3. CASE SemWaitCall
    BY <2>3, Unseen DEF SemWaitCall, taskVars
  <2>4. CASE SemWaitWoken
    BY <2>4, Unseen DEF SemWaitWoken, taskVars
  <2>5. CASE SemWaitInterrupted
    BY <2>5, Unseen DEF SemWaitInterrupted, cmdVars, taskVars
  <2>6. CASE TestSpeed
    BY <2>6, Unseen DEF TestSpeed, cmdVars, taskVars
  <2>7. CASE ClearSpeed
    <3>1. Register!Begin
      <4>1. pc = "clearSpeed" /\ pc' = "readX"
        BY <2>7 DEF ClearSpeed, Start
      <4>2. bNewSpeedCmd' = FALSE /\ UNCHANGED <<ori, sent>>
        BY <2>7 DEF ClearSpeed
      <4>3. QED
        BY <4>1, <4>2 DEF Register!Begin
    <3>2. QED
      BY <3>1 DEF Register!Next
  <2>8. CASE TestOdo
    <3>1. CASE ~bOdoCmd /\ currentCmd = 1
      <4>1. Register!Begin
        <5>1. pc = "testOdo" /\ pc' = "readX"
          BY <2>8, <3>1 DEF TestOdo, Start
        <5>2. UNCHANGED <<ori, bNewSpeedCmd, sent>>
          BY <2>8 DEF TestOdo, cmdVars, taskVars
        <5>3. QED
          BY <5>1, <5>2 DEF Register!Begin
      <4>2. QED
        BY <4>1 DEF Register!Next
    <3>2. CASE ~(~bOdoCmd /\ currentCmd = 1)
      BY <2>8, <3>2, Unseen
         DEF TestOdo, Start, cmdVars, taskVars, IInv, TypeOK
    <3>3. QED
      BY <3>1, <3>2
  <2>9. CASE ClearOdo
    BY <2>9, Unseen DEF ClearOdo, Start, cmdVars
  <2>10. CASE ReadX
    BY <2>10, Unseen DEF ReadX, cmdVars
  <2>11. CASE ReadW
    BY <2>11, Unseen DEF ReadW, cmdVars
  <2>12. CASE SendSpeed
    <3>1. /\ pc = "sendSpeed"
          /\ i \in Wheel
          /\ planarVel \in Velocity
          /\ sent' = [sent EXCEPT ![i] = planarVel]
          /\ UNCHANGED <<ori, bNewSpeedCmd, planarVel>>
      BY <2>12 DEF SendSpeed, cmdVars, IInv, TypeOK
    <3>2. bNewSpeedCmd \/ planarVel = ori
      BY <3>1, CopyCurrent
    <3>3. \/ Driving' = Driving
          \/ Driving' = FALSE /\ \A k \in Wheel : sent'[k] = planarVel
      <4>1. CASE i + 1 < NumWheels
        BY <2>12, <3>1, <4>1 DEF SendSpeed, NextWheel
      <4>2. CASE ~(i + 1 < NumWheels)
        <5>1. pc' = "wait" /\ Wheel = 0 .. i
          BY <2>12, <3>1, <4>2, ChassisAssumption DEF SendSpeed, NextWheel
        <5>2. \A n \in 0 .. i - 1 : sent[n] = planarVel
          BY <3>1 DEF IInv, SpeedInv
        <5>3. sent \in [Wheel -> Velocity]
          BY DEF IInv, TypeOK
        <5>4. QED
          BY <3>1, <5>1, <5>2, <5>3, ChassisAssumption
      <4>3. QED
        BY <4>1, <4>2
    <3>4. Register!Drive(i, planarVel)
      BY <3>1, <3>2, <3>3 DEF Register!Drive
    <3>5. QED
      BY <3>1, <3>4 DEF Register!Next
  <2>13. CASE SendQuery
    BY <2>13, Unseen DEF SendQuery, NextWheel, cmdVars
  <2>14. CASE ReadFrame
    BY <2>14, Unseen DEF ReadFrame, AfterWait, cmdVars
  <2>15. CASE ReadInterrupted
    BY <2>15, Unseen DEF ReadInterrupted, AfterWait, cmdVars
  <2>16. CASE Report
    BY <2>16, Unseen DEF Report, cmdVars, taskVars
  <2>17. ASSUME NEW n \in Wheel, MotorReply(n) \/ MotorFails(n)
         PROVE  UNCHANGED Register!register
    <3>1. Consume(n)
      BY <2>17 DEF MotorReply, MotorFails
    <3>2. QED
      BY <3>1, Unseen DEF Consume, cmdVars, taskVars
  <2>18. CASE UNCHANGED vars
    BY <2>18, Unseen DEF vars, cmdVars, taskVars
  <2>19. QED
    BY <2>1, <2>2, <2>3, <2>4, <2>5, <2>6, <2>7, <2>8, <2>9, <2>10, <2>11,
       <2>12, <2>13, <2>14, <2>15, <2>16, <2>17, <2>18
       DEF Next, ChassisTask
<1>3. QED
  BY <1>1, <1>2, InductiveInvariant, PTL
     DEF Spec, ImplementsRegister, Register!Spec

----------------------------------------------------------------------------
(* A query that starts on a quiet bus.                                     *)

(* Position requests, or their answers, in a queue.                        *)
Pos(s) == {k \in DOMAIN s : s[k].typ = "pos"}

(* The answers of wheel n that wait for read().                            *)
From(n) == {k \in Pos(rx) : rx[k].src = n}

(* Nothing about the position of wheel n is under way.                     *)
Quiet(n) == Pos(bus[n]) = {} /\ From(n) = {}

(* At most one request to wheel n, or its one answer, is under way, and it *)
(* is this query's.                                                        *)
Once(n) ==
  /\ \A k \in Pos(bus[n]) : bus[n][k].fresh /\ \A l \in Pos(bus[n]) : l = k
  /\ \A k \in From(n) : rx[k].fresh /\ \A l \in From(n) : l = k
  /\ Pos(bus[n]) = {} \/ From(n) = {}

Got(n) == retVal[n] = [src |-> n, fresh |-> TRUE]

(* No request and no answer outlives its query: when the next one sends    *)
(* its first frame, every earlier one has been answered or lost, and the   *)
(* answers have been read.                                                 *)
QueryStartsClear == pc = "sendQuery" /\ i = 0 => \A n \in Wheel : Quiet(n)

Asking  == pc = "sendQuery" /\ i > 0
Waiting == pc \in {"wait", "interrupted"} /\ currentCmd = 2

(* While it asks, a query has nothing to do with the wheels it has not     *)
(* come to and no sample; while it waits, a wheel it has the sample of is  *)
(* quiet, and it has counted only samples that it has.                     *)
QueryInv ==
  /\ Driving => currentCmd = 1
  /\ pc = "sendQuery" => currentCmd = 2
  /\ pc \in {"wait", "interrupted"} => currentCmd # 0
  /\ Asking \/ Waiting => \A n \in Wheel : Once(n)
  /\ Asking => /\ \A n \in Wheel : n >= i => Quiet(n)
               /\ \A n \in RetSlot : ~retVal[n].fresh
  /\ Waiting => /\ \A n \in Wheel : Got(n) => Quiet(n)
                /\ i > 0 => \E n \in Wheel : Got(n)
  /\ FullQueryResponse

(* What a frame appended to a queue, the first one taken from it, and the  *)
(* ageing of all do to the positions of a queue.                           *)
LEMMA PosOfQueue ==
  ASSUME NEW R, \A r \in R : r.typ \in CmdType, NEW s \in Seq(R)
  PROVE  /\ Pos(s) \subseteq 1 .. Len(s)
         /\ \A r \in R : /\ \A k \in Pos(s) : Append(s, r)[k] = s[k]
                         /\ Append(s, r)[Len(s) + 1] = r
                         /\ Pos(Append(s, r)) = Pos(s) \cup
                              (IF r.typ = "pos" THEN {Len(s) + 1} ELSE {})
         /\ s # <<>> =>
              /\ Head(s) = s[1]
              /\ 1 \in DOMAIN s
              /\ \A k \in DOMAIN Tail(s) : Tail(s)[k] = s[k + 1] /\ k + 1 \in DOMAIN s
              /\ \A k \in Pos(Tail(s)) : k \in Nat /\ k > 0 /\ k + 1 \in Pos(s)
<1>1. DOMAIN s = 1 .. Len(s) /\ Len(s) \in Nat
  OBVIOUS
<1>2. Pos(s) \subseteq 1 .. Len(s)
  BY <1>1 DEF Pos
<1>3. ASSUME NEW r \in R
      PROVE  /\ \A k \in Pos(s) : Append(s, r)[k] = s[k]
             /\ Append(s, r)[Len(s) + 1] = r
             /\ Pos(Append(s, r)) = Pos(s) \cup
                  (IF r.typ = "pos" THEN {Len(s) + 1} ELSE {})
  <2>1. /\ DOMAIN Append(s, r) = 1 .. Len(s) + 1
        /\ \A k \in 1 .. Len(s) : Append(s, r)[k] = s[k]
        /\ Append(s, r)[Len(s) + 1] = r
    BY <1>1
  <2>2. \A k \in 1 .. Len(s) + 1 : k \in 1 .. Len(s) \/ k = Len(s) + 1
    BY <1>1
  <2>3. 1 .. Len(s) \subseteq 1 .. Len(s) + 1 /\ Len(s) + 1 \in 1 .. Len(s) + 1
    BY <1>1
  <2> DEFINE a == Append(s, r)
  <2>4. Pos(a) = {k \in 1 .. Len(s) + 1 : a[k].typ = "pos"}
    BY <2>1 DEF Pos
  <2>5. Pos(s) = {k \in 1 .. Len(s) : s[k].typ = "pos"}
    BY <1>1 DEF Pos
  <2> HIDE DEF a
  <2>6. \A k \in 1 .. Len(s) : a[k] = s[k]
    BY <2>1 DEF a
  <2>7. a[Len(s) + 1] = r
    BY <2>1 DEF a
  <2>8. Len(s) + 1 \notin 1 .. Len(s)
    BY <1>1
  <2>9. Pos(a) = Pos(s) \cup (IF r.typ = "pos" THEN {Len(s) + 1} ELSE {})
    BY <2>2, <2>3, <2>4, <2>5, <2>6, <2>7, <2>8
  <2>10. QED
    BY <2>1, <2>9, <1>2 DEF a
<1>4. ASSUME s # <<>>
      PROVE  /\ Head(s) = s[1]
             /\ 1 \in DOMAIN s
             /\ \A k \in DOMAIN Tail(s) : Tail(s)[k] = s[k + 1] /\ k + 1 \in DOMAIN s
             /\ \A k \in Pos(Tail(s)) : k \in Nat /\ k > 0 /\ k + 1 \in Pos(s)
  <2>1. Len(s) > 0 /\ Head(s) = s[1] /\ 1 \in DOMAIN s
    BY <1>1, <1>4
  <2>2. DOMAIN Tail(s) = 1 .. Len(s) - 1
    BY <1>4
  <2>3. \A k \in 1 .. Len(s) - 1 : Tail(s)[k] = s[k + 1]
    BY <1>4
  <2>4. \A k \in 1 .. Len(s) - 1 : k + 1 \in 1 .. Len(s) /\ k \in Nat /\ k > 0
    BY <1>1
  <2>5. ASSUME NEW k \in Pos(Tail(s))
        PROVE  k \in Nat /\ k > 0 /\ k + 1 \in Pos(s)
    <3>1. k \in 1 .. Len(s) - 1 /\ Tail(s)[k].typ = "pos"
      BY <2>2, <2>5 DEF Pos
    <3>2. s[k + 1].typ = "pos" /\ k + 1 \in DOMAIN s
      BY <1>1, <2>3, <2>4, <3>1
    <3>3. QED
      BY <2>4, <3>1, <3>2 DEF Pos
  <2>6. QED
    BY <1>1, <2>1, <2>2, <2>3, <2>4, <2>5
<1>5. QED
  BY <1>2, <1>3, <1>4

LEMMA Frames ==
  /\ \A r \in Request : r.typ \in CmdType
  /\ \A r \in Reply : r.typ \in CmdType
BY DEF Request, Reply

(* A reply read: the other replies stay what they were, and the one answer *)
(* of its wheel is this query's and was the last.                          *)
LEMMA AfterRead ==
  ASSUME TypeOK, NEW n \in Wheel, rx # <<>>, rx' = Tail(rx), bus' = bus
  PROVE  /\ Quiet(n) => Quiet(n)'
         /\ Once(n) => Once(n)'
         /\ Once(n) /\ Head(rx).typ = "pos" /\ Head(rx).src = n =>
              Head(rx).fresh /\ Quiet(n)'
<1>1. rx \in Seq(Reply)
  BY DEF TypeOK
<1>2. /\ Head(rx) = rx[1]
      /\ 1 \in DOMAIN rx
      /\ \A k \in DOMAIN Tail(rx) : Tail(rx)[k] = rx[k + 1] /\ k + 1 \in DOMAIN rx
      /\ \A k \in Pos(Tail(rx)) : k \in Nat /\ k > 0 /\ k + 1 \in Pos(rx)
  BY <1>1, PosOfQueue, Frames
<1>3. \A k \in From(n)' : /\ k \in Nat /\ k > 0 /\ k + 1 \in From(n)
                          /\ rx'[k] = rx[k + 1]
  <2> SUFFICES ASSUME NEW k \in From(n)'
               PROVE  /\ k \in Nat /\ k > 0 /\ k + 1 \in From(n)
                      /\ rx'[k] = rx[k + 1]
    OBVIOUS
  <2>1. k \in Pos(Tail(rx)) /\ Tail(rx)[k].src = n
    BY DEF From
  <2>2. k \in DOMAIN Tail(rx)
    BY <2>1 DEF Pos
  <2>3. k \in Nat /\ k > 0 /\ k + 1 \in Pos(rx) /\ Tail(rx)[k] = rx[k + 1]
    BY <1>2, <2>1, <2>2
  <2>4. rx[k + 1].src = n
    BY <2>1, <2>3
  <2>5. k + 1 \in From(n)
    BY <2>3, <2>4 DEF From
  <2>6. QED
    BY <2>3, <2>5
<1>4. Pos(bus[n])' = Pos(bus[n]) /\ bus'[n] = bus[n]
  OBVIOUS
<1>5. Quiet(n) => Quiet(n)'
  BY <1>3, <1>4 DEF Quiet
<1>6. ASSUME Once(n) PROVE Once(n)'
  <2>0. \A k \in From(n) : rx[k].fresh /\ \A l \in From(n) : l = k
    BY <1>6 DEF Once
  <2>1. \A k \in From(n)' : rx'[k].fresh /\ \A l \in From(n)' : l = k
    <3>1. ASSUME NEW k \in From(n)' PROVE rx'[k].fresh
      BY <1>3, <2>0
    <3>2. ASSUME NEW k \in From(n)', NEW l \in From(n)' PROVE l = k
      <4>1. k \in Nat /\ l \in Nat /\ k + 1 \in From(n) /\ l + 1 \in From(n)
        BY <1>3
      <4>2. l + 1 = k + 1
        BY <2>0, <4>1
      <4>3. QED
        BY <4>1, <4>2
    <3>3. QED
      BY <3>1, <3>2
  <2>2. Pos(bus[n]) = {} \/ From(n)' = {}
    BY <1>3, <1>6 DEF Once
  <2>3. \A k \in Pos(bus[n])' :
          bus'[n][k].fresh /\ \A l \in Pos(bus[n])' : l = k
    BY <1>4, <1>6 DEF Once
  <2>4. Pos(bus[n])' = {} \/ From(n)' = {}
    BY <1>4, <2>2
  <2>5. QED
    BY ZenonT(30), <2>1, <2>3, <2>4 DEF Once
<1>7. ASSUME Once(n), Head(rx).typ = "pos", Head(rx).src = n
      PROVE  Head(rx).fresh /\ Quiet(n)'
  <2>1. 1 \in From(n)
    BY <1>2, <1>7 DEF From, Pos
  <2>2. Head(rx).fresh /\ Pos(bus[n]) = {}
    BY <1>2, <1>7, <2>1 DEF Once
  <2>3. From(n)' = {}
    BY <1>3, <1>7, <2>1 DEF Once
  <2>4. QED
    BY <1>4, <2>2, <2>3 DEF Quiet
<1>8. QED
  BY <1>5, <1>6, <1>7

(* A motor takes a request off the bus and may answer it: what was once    *)
(* under way still is, as a request or as an answer, or is lost.           *)
LEMMA AfterMotor ==
  ASSUME TypeOK, NEW m \in Wheel, MotorReply(m) \/ MotorFails(m),
         NEW n \in Wheel
  PROVE  /\ Quiet(n) => Quiet(n)'
         /\ Once(n) => Once(n)'
<1> DEFINE Made(typ) == [src |-> m, typ |-> typ, fresh |-> Head(bus[m]).fresh]
<1>1. /\ bus \in [Wheel -> Seq(Request)]
      /\ rx \in Seq(Reply)
      /\ bus[m] # <<>>
      /\ bus' = [bus EXCEPT ![m] = Tail(@)]
  BY DEF TypeOK, MotorReply, MotorFails, Consume
<1>2. Head(bus[m]) \in Request
  BY <1>1
<1>3. \A typ \in CmdType : Made(typ) \in Reply
  BY <1>2 DEF Request, Reply
<1>4. \/ rx' = rx
      \/ rx' = Append(rx, Made(Head(bus[m]).typ))
      \/ rx' = Append(rx, Made("undefined"))
  BY DEF MotorReply, MotorFails, Answer
<1>5. /\ Head(bus[m]) = bus[m][1]
      /\ 1 \in DOMAIN bus[m]
      /\ \A k \in DOMAIN Tail(bus[m]) :
           Tail(bus[m])[k] = bus[m][k + 1] /\ k + 1 \in DOMAIN bus[m]
      /\ \A k \in Pos(Tail(bus[m])) : k \in Nat /\ k > 0 /\ k + 1 \in Pos(bus[m])
  BY <1>1, PosOfQueue, Frames
<1>6. Head(bus[m]).typ \in CmdType /\ "undefined" \in CmdType
  BY <1>2 DEF Request, CmdType
(* The answer: one more position of wheel m, if the request was one.       *)
<1>7. /\ \A k \in From(n) : rx'[k] = rx[k]
      /\ \/ From(n)' = From(n)
         \/ /\ n = m
            /\ 1 \in Pos(bus[m])
            /\ \E last \in Nat : /\ From(n)' = From(n) \cup {last}
                                 /\ rx'[last].fresh = bus[m][1].fresh
  <2>1. CASE rx' = rx
    BY <2>1 DEF From
  <2>2. ASSUME NEW typ \in {Head(bus[m]).typ, "undefined"},
               rx' = Append(rx, Made(typ))
        PROVE  /\ \A k \in From(n) : rx'[k] = rx[k]
               /\ \/ From(n)' = From(n)
                  \/ /\ n = m
                     /\ 1 \in Pos(bus[m])
                     /\ \E last \in Nat : /\ From(n)' = From(n) \cup {last}
                                          /\ rx'[last].fresh = bus[m][1].fresh
    <3> DEFINE last == Len(rx) + 1
    <3>1. Made(typ) \in Reply
      BY <1>3, <1>6
    <3>2. /\ \A k \in Pos(rx) : rx'[k] = rx[k]
          /\ rx'[last] = Made(typ)
          /\ Pos(rx)' = Pos(rx) \cup (IF typ = "pos" THEN {last} ELSE {})
          /\ Pos(rx) \subseteq 1 .. Len(rx)
      <4> HIDE DEF Made
      <4>1. Made(typ).typ = typ
        BY DEF Made
      <4>2. \A r \in Reply : r.typ \in CmdType
        BY Frames
      <4>3. /\ \A k \in Pos(rx) : Append(rx, Made(typ))[k] = rx[k]
            /\ Append(rx, Made(typ))[Len(rx) + 1] = Made(typ)
            /\ Pos(Append(rx, Made(typ))) = Pos(rx) \cup
                 (IF Made(typ).typ = "pos" THEN {Len(rx) + 1} ELSE {})
            /\ Pos(rx) \subseteq 1 .. Len(rx)
        BY <1>1, <3>1, <4>2, PosOfQueue
      <4>4. QED
        BY <2>2, <4>1, <4>3
    <3>3. last \in Nat /\ last \notin Pos(rx)
      BY <1>1, <3>2
    <3>4. rx'[last].src = m /\ rx'[last].fresh = bus[m][1].fresh
      BY <3>2, <1>5
    <3> HIDE DEF last, Made
    <3>5. From(n)' = {k \in Pos(rx)' : rx'[k].src = n}
      BY DEF From
    <3>6. CASE typ = "pos" /\ n = m
      <4>1. From(n)' = From(n) \cup {last}
        BY <3>2, <3>4, <3>5, <3>6 DEF From
      <4>2. 1 \in Pos(bus[m])
        BY <1>5, <3>6 DEF Pos
      <4>3. QED
        BY <3>2, <3>3, <3>4, <3>6, <4>1, <4>2 DEF From
    <3>7. CASE ~(typ = "pos" /\ n = m)
      <4>1. From(n)' = From(n)
        BY <3>2, <3>4, <3>5, <3>7 DEF From
      <4>2. QED
        BY <3>2, <4>1 DEF From
    <3>8. QED
      BY <3>6, <3>7
  <2>3. QED
    BY <1>4, <2>1, <2>2
<1>8. CASE n # m
  BY <1>1, <1>7, <1>8 DEF Quiet, Once
<1>9. CASE n = m
  <2>1. bus'[n] = Tail(bus[n])
    BY <1>1, <1>9
  <2>2. \A k \in Pos(bus[n])' : /\ k \in Nat /\ k > 0 /\ k + 1 \in Pos(bus[n])
                                /\ bus'[n][k] = bus[n][k + 1]
    BY <1>5, <1>9, <2>1 DEF Pos
  <2>3. Quiet(n) => Quiet(n)'
    BY <1>7, <1>9, <2>2 DEF Quiet
  <2>4. ASSUME Once(n) PROVE Once(n)'
    <3>1. \A k \in Pos(bus[n])' :
            bus'[n][k].fresh /\ \A l \in Pos(bus[n])' : l = k
      BY <2>2, <2>4 DEF Once
    <3>2. CASE From(n)' = From(n)
      BY <1>7, <2>2, <2>4, <3>1, <3>2 DEF Once
    <3>3. ASSUME 1 \in Pos(bus[n]), NEW last \in Nat,
                 From(n)' = From(n) \cup {last},
                 rx'[last].fresh = bus[n][1].fresh
          PROVE  Once(n)'
      <4>1. From(n)' = {last} /\ rx'[last].fresh
        BY <2>4, <3>3 DEF Once
      <4>2. Pos(bus[n])' = {}
        BY <2>2, <2>4, <3>3 DEF Once
      <4>3. QED
        BY <4>1, <4>2 DEF Once
    <3>4. QED
      BY <1>7, <1>9, <3>2, <3>3
  <2>5. QED
    BY <2>3, <2>4
<1>10. QED
  BY <1>8, <1>9

(* A query's frame to wheel i: its first frame ages what is under way, of  *)
(* which nothing is a position, and every sample.                          *)
LEMMA AfterQueryFrame ==
  ASSUME TypeOK, SendQuery, i = 0 => \A n \in Wheel : Quiet(n),
         i > 0 => /\ \A n \in Wheel : Once(n)
                  /\ \A n \in Wheel : n >= i => Quiet(n)
                  /\ \A n \in RetSlot : ~retVal[n].fresh
  PROVE  /\ \A n \in Wheel : Once(n)'
         /\ \A n \in Wheel : n >= i + 1 => Quiet(n)'
         /\ \A n \in RetSlot : ~retVal'[n].fresh
<1> DEFINE older == IF i = 0 THEN [n \in Wheel |-> Aged(bus[n])] ELSE bus
           frame == [typ |-> "pos", fresh |-> TRUE]
<1>1. /\ i \in Wheel
      /\ bus \in [Wheel -> Seq(Request)]
      /\ rx \in Seq(Reply)
      /\ retVal \in [RetSlot -> Sample]
  BY DEF TypeOK
<1>2. /\ bus' = [older EXCEPT ![i] = Append(@, frame)]
      /\ rx' = IF i = 0 THEN Aged(rx) ELSE rx
      /\ retVal' = IF i = 0 THEN Aged(retVal) ELSE retVal
  BY DEF SendQuery
<1>3. /\ older \in [Wheel -> Seq(Request)]
      /\ frame \in Request
  BY <1>1, AgedType DEF Request, CmdType
(* Ageing moves no position.                                               *)
<1>4. /\ \A n \in Wheel : Pos(Aged(bus[n])) = Pos(bus[n])
      /\ Pos(Aged(rx)) = Pos(rx)
      /\ \A k \in Pos(rx) : Aged(rx)[k].src = rx[k].src
  <2>1. \A r \in Request : [r EXCEPT !.fresh = FALSE].typ = r.typ
    BY DEF Request
  <2>2. \A r \in Reply : /\ [r EXCEPT !.fresh = FALSE].typ = r.typ
                         /\ [r EXCEPT !.fresh = FALSE].src = r.src
    BY DEF Reply
  <2>3. \A n \in Wheel : \A k \in DOMAIN bus[n] : bus[n][k] \in Request
    BY <1>1
  <2>4. \A k \in DOMAIN rx : rx[k] \in Reply
    BY <1>1
  <2>5. ASSUME NEW n \in Wheel PROVE Pos(Aged(bus[n])) = Pos(bus[n])
    BY <2>1, <2>3 DEF Pos, Aged
  <2>6. Pos(Aged(rx)) = Pos(rx)
    BY <2>2, <2>4 DEF Pos, Aged
  <2>7. \A k \in Pos(rx) : Aged(rx)[k].src = rx[k].src
    BY <2>2, <2>4 DEF Pos, Aged
  <2>8. QED
    BY <2>5, <2>6, <2>7
<1>5. ASSUME NEW n \in Wheel PROVE Pos(older[n]) = Pos(bus[n])
  BY <1>1, <1>4
<1>6. ASSUME NEW n \in Wheel PROVE From(n)' = From(n)
  <2>1. CASE i = 0
    BY <1>1, <1>2, <1>4, <2>1 DEF From
  <2>2. CASE i # 0
    BY <1>2, <2>2 DEF From
  <2>3. QED
    BY <2>1, <2>2
<1>7. ASSUME NEW n \in Wheel, n >= i PROVE Quiet(n)
  BY <1>1, <1>7
<1>8. \A n \in Wheel : n # i => bus'[n] = older[n]
  <2> HIDE DEF older
  <2> QED BY <1>2, <1>3
<1>9. ASSUME NEW n \in Wheel, n >= i + 1 PROVE Quiet(n)'
  <2>1. n # i /\ Quiet(n)
    BY <1>1, <1>7, <1>9
  <2>2. Pos(bus[n])' = {}
    BY <1>5, <1>8, <2>1 DEF Quiet
  <2>3. QED
    BY <1>6, <2>1, <2>2 DEF Quiet
<1>10. ASSUME NEW n \in Wheel, n = i PROVE Once(n)'
  <2>1. Quiet(n)
    BY <1>1, <1>7, <1>10
  <2>2. bus'[n] = Append(older[n], frame)
    <3> HIDE DEF older, frame
    <3> QED BY <1>1, <1>2, <1>3, <1>10
  <2>3. Pos(older[n]) = {}
    BY <1>5, <2>1 DEF Quiet
  <2>4. older[n] \in Seq(Request)
    <3> HIDE DEF older
    <3> QED BY <1>3
  <2>5. frame.typ = "pos" /\ frame.fresh
    OBVIOUS
  <2> DEFINE last == Len(older[n]) + 1
  <2> HIDE DEF older, frame
  <2>6. Pos(bus'[n]) = {last} /\ bus'[n][last] = frame
    <3>1. \A r \in Request : r.typ \in CmdType
      BY Frames
    <3>2. /\ Append(older[n], frame)[last] = frame
          /\ Pos(Append(older[n], frame)) = Pos(older[n]) \cup {last}
      BY <1>3, <2>4, <2>5, <3>1, PosOfQueue
    <3>3. QED
      BY <2>2, <2>3, <3>2
  <2> HIDE DEF last
  <2>7. From(n)' = {}
    BY <1>6, <2>1 DEF Quiet
  <2>8. QED
    BY <2>5, <2>6, <2>7 DEF Once
<1>11. ASSUME NEW n \in Wheel, n < i PROVE Once(n)'
  <2>1. i > 0 /\ Once(n)
    BY <1>1, <1>11
  <2>2. bus'[n] = bus[n] /\ rx' = rx
    BY <1>1, <1>2, <1>8, <1>11, <2>1
  <2>3. QED
    BY <2>1, <2>2 DEF Once, From
<1>12. \A n \in RetSlot : ~retVal'[n].fresh
  <2>1. CASE i = 0
    <3>1. retVal' = Aged(retVal) /\ DOMAIN retVal = RetSlot
      BY <1>1, <1>2, <2>1
    <3>2. \A n \in RetSlot : [retVal[n] EXCEPT !.fresh = FALSE].fresh = FALSE
      BY <1>1 DEF Sample
    <3>3. QED
      BY <3>1, <3>2 DEF Aged
  <2>2. CASE i # 0
    BY <1>1, <1>2, <2>2
  <2>3. QED
    BY <2>1, <2>2
<1>13. ASSUME NEW n \in Wheel, Quiet(n)' PROVE Once(n)'
  BY <1>13 DEF Quiet, Once
<1>14. ASSUME NEW n \in Wheel PROVE n < i \/ n = i \/ n >= i + 1
  BY <1>1
<1>15. QED
  BY <1>9, <1>10, <1>11, <1>12, <1>13, <1>14

(* The frames of a query and its replies keep the invariant, when the      *)
(* query started on a quiet bus; nothing else touches what it speaks of.   *)
LEMMA QueryStep ==
  ASSUME NumWheels <= 2, IInv, QueryInv, QueryStartsClear, [Next]_vars
  PROVE  QueryInv'
<1> USE DEF Asking, Waiting, FullQueryResponse
<1>1. TypeOK
  BY DEF IInv
<1>2. /\ i \in Wheel
      /\ currentCmd \in {0, 1, 2}
      /\ rx \in Seq(Reply)
      /\ retVal \in [RetSlot -> Sample]
  BY <1>1 DEF TypeOK
<1>3. pc \notin {"sendSpeed", "sendQuery", "wait", "interrupted"} => i = 0
  BY DEF IInv, SpeedInv
(* The steps that touch no queue, no sample and no way into a query.       *)
<1>4. ASSUME UNCHANGED <<i, currentCmd, bus, rx, retVal, waitRet>>,
             \/ pc' = pc
             \/ pc' \notin {"readX", "readW", "sendSpeed", "sendQuery", "report"}
                /\ (pc' \in {"wait", "interrupted"} => pc \in {"wait", "interrupted"})
             \/ Driving' /\ currentCmd = 1
             \/ pc' = "sendQuery" /\ i = 0 /\ currentCmd = 2
      PROVE  QueryInv'
  <2>1. \A n \in Wheel : /\ Quiet(n)' = Quiet(n)
                         /\ Once(n)' = Once(n)
                         /\ Got(n)' = Got(n)
    BY <1>4 DEF Quiet, Once, Got, From
  <2>2. QED
    BY <1>2, <1>4, <2>1 DEF QueryInv
<1>5. ASSUME NEW vel \in Velocity, ChassisCmdHandler(vel) PROVE QueryInv'
  BY <1>4, <1>5 DEF ChassisCmdHandler, taskVars, canVars, retVars
<1>6. CASE TimerExpiration
  BY <1>4, <1>6
     DEF TimerExpiration, InSemWait, InRead, taskVars, canVars, retVars
<1>7. CASE SemWaitCall
  BY <1>4, <1>7 DEF SemWaitCall, taskVars, canVars, retVars
<1>8. CASE SemWaitWoken
  BY <1>4, <1>8 DEF SemWaitWoken, taskVars, canVars, retVars
<1>9. CASE SemWaitInterrupted
  BY <1>4, <1>9 DEF SemWaitInterrupted, taskVars, canVars, retVars
<1>10. CASE TestSpeed
  BY <1>4, <1>10 DEF TestSpeed, taskVars, canVars, retVars
<1>11. CASE ClearSpeed
  BY <1>11 DEF ClearSpeed, Start, QueryInv
<1>12. CASE TestOdo
  BY <1>2, <1>3, <1>4, <1>12 DEF TestOdo, Start, taskVars, canVars, retVars
<1>13. CASE ClearOdo
  BY <1>3, <1>13 DEF ClearOdo, Start, QueryInv
<1>14. CASE ReadX
  BY <1>14 DEF ReadX, QueryInv
<1>15. CASE ReadW
  BY <1>15 DEF ReadW, QueryInv
<1>16. CASE SendSpeed
  BY <1>16 DEF SendSpeed, NextWheel, QueryInv
<1>17. CASE SendQuery
  <2>1. /\ pc = "sendQuery"
        /\ currentCmd = 2
        /\ currentCmd' = currentCmd
        /\ NextWheel
    BY <1>17 DEF SendQuery, QueryInv
  <2>2. /\ \A n \in Wheel : Once(n)'
        /\ \A n \in Wheel : n >= i + 1 => Quiet(n)'
        /\ \A n \in RetSlot : ~retVal'[n].fresh
    <3>1. i = 0 => \A n \in Wheel : Quiet(n)
      BY <2>1 DEF QueryStartsClear
    <3>2. i > 0 => /\ \A n \in Wheel : Once(n)
                   /\ \A n \in Wheel : n >= i => Quiet(n)
                   /\ \A n \in RetSlot : ~retVal[n].fresh
      BY <2>1 DEF QueryInv
    <3>3. QED
      BY <1>1, <1>17, <3>1, <3>2, AfterQueryFrame
  <2>3. ASSUME NEW n \in Wheel PROVE ~Got(n)'
    BY <2>2, ChassisAssumption DEF Got
  <2>4. CASE i + 1 < NumWheels
    <3>1. i' = i + 1 /\ pc' = "sendQuery"
      BY <2>1, <2>4 DEF NextWheel
    <3>2. QED
      BY <2>1, <2>2, <3>1 DEF QueryInv
  <2>5. CASE ~(i + 1 < NumWheels)
    <3>1. i' = 0 /\ pc' = "wait"
      BY <2>1, <2>5 DEF NextWheel
    <3>2. QED
      BY <2>1, <2>2, <2>3, <3>1 DEF QueryInv
  <2>6. QED
    BY <2>4, <2>5
<1>18. CASE ReadFrame
  <2> DEFINE f == Head(rx)
  <2>1. /\ pc = "wait"
        /\ rx # <<>>
        /\ rx' = Tail(rx)
        /\ bus' = bus
        /\ currentCmd' = currentCmd
    BY <1>18 DEF ReadFrame
  <2>2. f \in Reply
    BY <1>2, <2>1
  <2>3. CASE currentCmd = 2
    <3>1. ASSUME NEW n \in Wheel
          PROVE  /\ Once(n)'
                 /\ Quiet(n) => Quiet(n)'
                 /\ f.typ = "pos" /\ f.src = n => f.fresh /\ Quiet(n)'
      BY <1>1, <2>1, <2>3, AfterRead DEF QueryInv
    <3>2. Awaited = "pos" /\ AfterWait = "report"
      BY <2>3 DEF Awaited, AfterWait
    <3>3. CASE f.typ # "pos"
      <4>1. retVal' = retVal /\ i' = i /\ pc' = pc /\ waitRet' = waitRet
        BY <1>18, <3>2, <3>3 DEF ReadFrame
      <4>2. QED
        BY <2>1, <2>3, <3>1, <4>1 DEF QueryInv, Got
    <3>4. CASE f.typ = "pos"
      <4>1. PICK w \in Wheel : f.src = w
        BY <2>2 DEF Reply
      <4>2. f.fresh = TRUE /\ Quiet(w)' /\ Slot(w) = w /\ w \in RetSlot
        BY <2>2, <3>1, <3>4, <4>1, ChassisAssumption DEF Reply, Slot
      <4>3. retVal' = [retVal EXCEPT ![w] = [src |-> w, fresh |-> TRUE]]
        BY <1>18, <3>4, <4>1, <4>2 DEF ReadFrame
      <4>4. Got(w)' /\ \A n \in Wheel : n # w => Got(n)' = Got(n)
        BY <1>2, <4>2, <4>3 DEF Got
      <4>5. \A n \in Wheel : Got(n)' => Quiet(n)'
        BY <2>1, <2>3, <3>1, <4>2, <4>4 DEF QueryInv
      <4>6. ~Got(w)
        <5>1. Head(rx) = rx[1] /\ 1 \in DOMAIN rx
          BY <1>2, <2>1
        <5>2. 1 \in From(w)
          BY <3>4, <4>1, <5>1 DEF From, Pos
        <5>3. QED
          BY <2>1, <2>3, <5>2 DEF QueryInv, Quiet
      <4>7. CASE i + 1 = NumWheels
        <5>1. i' = 0 /\ pc' = "report" /\ waitRet' = "full"
          BY <1>18, <3>2, <3>4, <4>7 DEF ReadFrame
        <5>2. i > 0 => \E n \in Wheel : n # w /\ Got(n)'
          BY <2>1, <2>3, <4>4, <4>6 DEF QueryInv
        <5>3. \A n \in Wheel : Got(n)'
          <6>1. CASE i = 0
            <7>1. \A n \in Wheel : n = w
              BY <4>7, <6>1
            <7>2. QED
              BY <4>4, <7>1
          <6>2. CASE i > 0
            <7>1. PICK m \in Wheel : m # w /\ Got(m)'
              BY <5>2, <6>2
            <7>2. \A n \in Wheel : n = w \/ n = m
              BY <7>1, ChassisAssumption
            <7>3. QED
              BY <4>4, <7>1, <7>2
          <6>3. QED
            BY <1>2, <6>1, <6>2
        <5>4. QED
          BY <5>1, <5>3 DEF QueryInv, Got
      <4>8. CASE i + 1 # NumWheels
        <5>1. i' = i + 1 /\ pc' = pc
          BY <1>18, <3>2, <3>4, <4>8 DEF ReadFrame
        <5>2. QED
          BY <2>1, <2>3, <3>1, <4>4, <4>5, <5>1 DEF QueryInv
      <4>9. QED
        BY <4>7, <4>8
    <3>5. QED
      BY <3>3, <3>4
  <2>4. CASE currentCmd # 2
    <3>1. currentCmd = 1
      BY <1>2, <2>1, <2>4 DEF QueryInv
    <3>2. pc' \in {"wait", "loop"}
      BY <1>18, <2>1, <3>1 DEF ReadFrame, AfterWait
    <3>3. QED
      BY <2>1, <3>1, <3>2 DEF QueryInv
  <2>5. QED
    BY <2>3, <2>4
<1>19. CASE ReadInterrupted
  <2>1. CASE EintrVisible /\ bNewSpeedCmd
    BY <1>4, <1>19, <2>1 DEF ReadInterrupted, canVars
  <2>2. CASE ~(EintrVisible /\ bNewSpeedCmd)
    BY <1>19, <2>2 DEF ReadInterrupted, AfterWait, QueryInv
  <2>3. QED
    BY <2>1, <2>2
<1>20. CASE Report
  BY <1>4, <1>20 DEF Report, taskVars, canVars, retVars
<1>21. ASSUME NEW m \in Wheel, MotorReply(m) \/ MotorFails(m) PROVE QueryInv'
  <2>1. UNCHANGED <<pc, i, currentCmd, retVal, waitRet>>
    BY <1>21 DEF MotorReply, MotorFails, Consume, taskVars, retVars
  <2>2. \A n \in Wheel : (Quiet(n) => Quiet(n)') /\ (Once(n) => Once(n)')
    BY <1>1, <1>21, AfterMotor
  <2>3. \A n \in Wheel : Got(n)' = Got(n)
    BY <2>1 DEF Got
  <2>4. QED
    BY <2>1, <2>2, <2>3 DEF QueryInv
<1>22. CASE UNCHANGED vars
  BY <1>4, <1>22 DEF vars, taskVars, canVars, retVars
<1>23. QED
  BY <1>5, <1>6, <1>7, <1>8, <1>9, <1>10, <1>11, <1>12, <1>13, <1>14, <1>15,
     <1>16, <1>17, <1>18, <1>19, <1>20, <1>21, <1>22 DEF Next, ChassisTask

(* waitCmdRet does what its trace says, "get full query odo response", for *)
(* the one or two wheels whose answers it has slots for, as long as no     *)
(* request and no answer outlives its query.                               *)
THEOREM QueryAnsweredInFull ==
  NumWheels <= 2 => (Spec /\ []QueryStartsClear => []FullQueryResponse)
<1> SUFFICES ASSUME NumWheels <= 2
             PROVE  Spec /\ []QueryStartsClear => []FullQueryResponse
  OBVIOUS
<1>1. Init => QueryInv
  BY DEF Init, QueryInv, Asking, Waiting, FullQueryResponse
<1>2. IInv /\ QueryInv /\ QueryStartsClear /\ [Next]_vars => QueryInv'
  BY QueryStep
<1>3. QueryInv => FullQueryResponse
  BY DEF QueryInv
<1>4. QED
  BY <1>1, <1>2, <1>3, InductiveInvariant, PTL DEF Spec

============================================================================
