----------------------------- MODULE MCMutexes -----------------------------
(***************************************************************************)
(* The two mutexes of the firmware for TLC: gyro_mut (GyroAccess) and      *)
(* reporter_mut (Reporter).  They share no state; each behaviour is one of *)
(* the tasks around the one mutex, and those around the other rest.        *)
(***************************************************************************)
EXTENDS GyroAccess, Reporter

VARIABLE mutex     \* the one whose tasks run

mutexVars == <<vars, reporterVars, mutex>>

AtGyro     == mutex = "gyro_mut"
AtReporter == mutex = "reporter_mut"

(* What gyro_mut holds at first matters only where its tasks run.          *)
MCInit ==
  /\ mutex \in {"gyro_mut", "reporter_mut"}
  /\ Init
  /\ ReporterInit
  /\ AtReporter => count = 0

MCNext ==
  /\ UNCHANGED mutex
  /\ \/ AtGyro /\ Next /\ UNCHANGED reporterVars
     \/ AtReporter /\ ReporterNext /\ UNCHANGED vars

(* The fairness of both, each where its tasks run.                         *)
MCFairness ==
  /\ WF_mutexVars(AtGyro /\ UNCHANGED <<reporterVars, mutex>> /\ DoInit)
  /\ WF_mutexVars(AtGyro /\ UNCHANGED <<reporterVars, mutex>> /\ RcvFrame)
  /\ \A c \in Client :
       WF_mutexVars(AtGyro /\ UNCHANGED <<reporterVars, mutex>> /\ ClientStep(c))
  /\ \A r \in Reporters :
       /\ WF_mutexVars(AtReporter /\ UNCHANGED <<vars, mutex>> /\ ReportLock(r))
       /\ WF_mutexVars(AtReporter /\ UNCHANGED <<vars, mutex>> /\ Report(r))
       /\ SF_mutexVars(AtReporter /\ UNCHANGED <<vars, mutex>> /\ OpenSocket(r))

MCSpec == MCInit /\ [][MCNext]_mutexVars /\ MCFairness

(* EventuallySettled of Reporter, of the behaviours in which it runs: in   *)
(* the end the reports of the gyro, the odometry and the DIO exclude each  *)
(* other, unless one of their tasks is overlooked and blocks for ever.     *)
ReportsSettle == AtReporter => EventuallySettled

============================================================================
