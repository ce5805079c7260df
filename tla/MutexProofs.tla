----------------------------- MODULE MutexProofs -----------------------------
(***************************************************************************)
(* The two mutexes of the firmware.  Calibrations and mutual exclusion at  *)
(* the gyro (GyroAccess), for every count that gyro_mut may hold before it *)
(* is initialised; the buffer that reports share (Reporter), for every set *)
(* of reporting instances and for both kinds of mutex.                     *)
(***************************************************************************)
EXTENDS GyroAccess, Reporter, TLAPS

----------------------------------------------------------------------------
(* The gyro.                                                               *)

Steps == {"mutexInit", "open", "write", "gone", "idle",
          "lock", "blocked", "inside", "decode"}

(* What both theorems need of the variables' types.                        *)
Typed ==
  /\ count \in Int
  /\ pc \in [Task -> Steps]
  /\ early \in BOOLEAN
  /\ mutInit \in BOOLEAN

(* The order of doInit: bInited comes last.                                *)
Order ==
  /\ pc["gyro"] = "mutexInit" <=> ~mutInit
  /\ pc["gyro"] = "write" => opened
  /\ bInited => mutInit /\ opened
  /\ pc["config"] # "idle" => bInited

LEMMA Tasks == Task = {"config", "dispatch", "gyro"}
BY DEF Task, Priority

LEMMA TypedInductive ==
  /\ Init => Typed
  /\ Typed /\ [Next]_vars => Typed'
<1>1. Init => Typed
  BY Tasks, GarbageAssumption DEF Init, Typed, Steps
<1>2. Typed /\ [Next]_vars => Typed'
  <2> SUFFICES ASSUME Typed, [Next]_vars PROVE Typed'
    OBVIOUS
  <2> USE Tasks DEF Typed, Steps
  <2>1. ASSUME NEW t \in Task, NEW step \in Steps, UnlockAnd(t, step),
               UNCHANGED <<early, mutInit>>
        PROVE  Typed'
    <3>1. count' \in Int
      BY <2>1 DEF UnlockAnd
    <3>2. ASSUME NEW w \in Waiters, pc' = [pc EXCEPT ![t] = step, ![w] = "inside"]
          PROVE  Typed'
      BY <2>1, <3>1, <3>2
    <3>3. CASE GoTo(t, step)
      BY <2>1, <3>1, <3>3 DEF GoTo
    <3>4. GoTo(t, step) \/ \E w \in Waiters : pc' = [pc EXCEPT ![t] = step, ![w] = "inside"]
      BY <2>1 DEF UnlockAnd
    <3>5. QED
      BY <3>2, <3>3, <3>4
  <2>2. ASSUME NEW t \in Task, Lock(t) PROVE Typed'
    BY <2>2 DEF Lock, GoTo, device
  <2>3. CASE DoInit
    <3>1. CASE MutexInit
      BY <3>1 DEF MutexInit, GoTo
    <3>2. CASE Open
      BY <3>2 DEF Open, GoTo
    <3>3. CASE InitFails
      BY <3>3 DEF InitFails, GoTo, device
    <3>4. CASE Ready
      BY <3>4 DEF Ready, GoTo
    <3>5. QED
      BY <2>3, <3>1, <3>2, <3>3, <3>4 DEF DoInit
  <2>4. CASE ReadBytes
    BY <2>4 DEF ReadBytes, GoTo, device
  <2>5. CASE ReadFails \/ Decoded
    BY <2>5, <2>1 DEF ReadFails, Decoded, device
  <2>6. CASE GyroCommand
    BY <2>6 DEF GyroCommand, GoTo, device
  <2>7. CASE ConfigDatagram
    BY <2>7 DEF ConfigDatagram, GoTo, device
  <2>8. ASSUME NEW c \in Client, Leave(c) PROVE Typed'
    <3>1. c \in Task
      BY DEF Client
    <3>2. QED
      BY <2>8, <2>1, <3>1 DEF Leave, device
  <2>9. CASE UNCHANGED vars
    BY <2>9 DEF vars
  <2>10. QED
    BY <2>2, <2>3, <2>4, <2>5, <2>6, <2>7, <2>8, <2>9
       DEF Next, RcvFrame, ClientStep, Client
<1>3. QED
  BY <1>1, <1>2

(* An unlock moves nobody into doInit and nobody out of idle.              *)
LEMMA UnlockMoves ==
  ASSUME Typed, NEW t \in Task, NEW step \in {"idle", "lock"},
         pc[t] \in {"inside", "decode"}, UnlockAnd(t, step)
  PROVE  /\ pc'[t] = step
         /\ \A s \in Task \ {t} :
              \/ pc'[s] = pc[s]
              \/ pc[s] = "blocked" /\ pc'[s] = "inside"
<1>1. pc \in [Task -> Steps]
  BY DEF Typed
<1>2. CASE GoTo(t, step)
  BY <1>1, <1>2 DEF GoTo
<1>3. ASSUME NEW w \in Waiters, pc' = [pc EXCEPT ![t] = step, ![w] = "inside"]
      PROVE  /\ pc'[t] = step
             /\ \A s \in Task \ {t} :
                  \/ pc'[s] = pc[s]
                  \/ pc[s] = "blocked" /\ pc'[s] = "inside"
  BY <1>1, <1>3 DEF Waiters
<1>4. QED
  BY <1>2, <1>3 DEF UnlockAnd

LEMMA OrderInductive ==
  /\ Init => Order
  /\ Typed /\ Order /\ [Next]_vars => Order'
<1>1. Init => Order
  BY Tasks DEF Init, Order
<1>2. Typed /\ Order /\ [Next]_vars => Order'
  <2> SUFFICES ASSUME Typed, Order, [Next]_vars PROVE Order'
    OBVIOUS
  <2> USE Tasks DEF Order, Typed
  <2>1. ASSUME NEW t \in Task, NEW step \in {"idle", "lock"},
               pc[t] \in {"inside", "decode"}, UnlockAnd(t, step),
               UNCHANGED device, t = "gyro" => step = "lock"
        PROVE  Order'
    BY <2>1, UnlockMoves DEF device
  <2>2. ASSUME NEW t \in Task, Lock(t) PROVE Order'
    BY <2>2 DEF Lock, GoTo, device
  <2>3. CASE DoInit
    <3>1. CASE MutexInit
      BY <3>1 DEF MutexInit, GoTo
    <3>2. CASE Open
      BY <3>2 DEF Open, GoTo
    <3>3. CASE InitFails
      BY <3>3 DEF InitFails, GoTo, device
    <3>4. CASE Ready
      BY <3>4 DEF Ready, GoTo
    <3>5. QED
      BY <2>3, <3>1, <3>2, <3>3, <3>4 DEF DoInit
  <2>4. CASE ReadBytes
    BY <2>4 DEF ReadBytes, GoTo, device
  <2>5. CASE ReadFails \/ Decoded
    BY <2>5, <2>1 DEF ReadFails, Decoded
  <2>6. CASE GyroCommand
    BY <2>6 DEF GyroCommand, GoTo, device
  <2>7. CASE ConfigDatagram
    BY <2>7 DEF ConfigDatagram, Calibrates, GoTo, device
  <2>8. ASSUME NEW c \in Client, Leave(c) PROVE Order'
    BY <2>8, <2>1 DEF Leave, Client
  <2>9. CASE UNCHANGED vars
    BY <2>9 DEF vars
  <2>10. QED
    BY <2>2, <2>3, <2>4, <2>5, <2>6, <2>7, <2>8, <2>9
       DEF Next, RcvFrame, ClientStep, Client
<1>3. QED
  BY <1>1, <1>2

(* A calibration finds the mutex initialised and the device open, however  *)
(* the steps of doInit and the datagrams of the config task interleave.    *)
THEOREM CalibrationsReady == Spec => []CalibrationReady
<1>1. Order => CalibrationReady
  BY DEF Order, CalibrationReady
<1>2. QED
  BY <1>1, TypedInductive, OrderInductive, PTL DEF Spec

----------------------------------------------------------------------------
(* What a task has taken of the count: 1 while it is inside or waits.      *)
Took(t) == IF pc[t] \in {"blocked", "inside", "decode"} THEN 1 ELSE 0

(* Until a client is early, the count tells how many tasks took the mutex, *)
(* one of them is inside if any is, and only one.                          *)
Accounted ==
  ~early =>
    /\ ~mutInit => /\ pc["gyro"] = "mutexInit"
                   /\ \A c \in Client : pc[c] \in {"idle", "lock"}
    /\ mutInit => count = 1 - Took("config") - Took("dispatch") - Took("gyro")
    /\ Waiters # {} => \E t \in Task : Inside(t)
    /\ Exclusive

(* Until it is locked too early, gyro_mut does exclude: the decoder and    *)
(* the device have one user at a time.                                     *)
THEOREM OneUser == Spec => []Exclusive
<1>1. Init => Accounted
  BY Tasks DEF Init, Accounted, Client, Exclusive, Inside, Waiters
<1>2. Typed /\ Order /\ Accounted /\ [Next]_vars => Accounted'
  <2> SUFFICES ASSUME Typed, Order, Accounted, [Next]_vars, ~early' PROVE Accounted'
    BY DEF Accounted
  <2>0. ~early
    <3>1. early => early'
      BY DEF Next, vars, DoInit, RcvFrame, ClientStep, MutexInit, Open, InitFails,
             Ready, ReadBytes, ReadFails, Decoded, GyroCommand, ConfigDatagram,
             Leave, Lock
    <3>2. QED
      BY <3>1
  <2> USE Tasks, <2>0 DEF Typed, Order, Accounted, Client, Exclusive, Inside,
                          Waiters, Took
  <2>1. ASSUME NEW t \in Task, NEW step \in {"idle", "lock"}, Inside(t),
               UnlockAnd(t, step), UNCHANGED device
        PROVE  Accounted'
    <3>1. mutInit
      BY <2>1
    <3>2. /\ count' = count + 1
          /\ \/ /\ count' <= 0
                /\ \E w \in Waiters : pc' = [pc EXCEPT ![t] = step, ![w] = "inside"]
             \/ /\ count' > 0 \/ Waiters = {}
                /\ GoTo(t, step)
      BY <2>1 DEF UnlockAnd
    <3>3. CASE (count' > 0 \/ Waiters = {}) /\ GoTo(t, step)
      <4>1. count = 1 - Took("config") - Took("dispatch") - Took("gyro")
        BY <3>1
      <4>2. pc' = [pc EXCEPT ![t] = step]
        BY <3>3 DEF GoTo
      <4>3. \A s \in Task \ {t} : ~Inside(s)
        BY <2>1
      <4>4. Waiters' = {}
        BY <2>1, <3>2, <3>3, <4>1, <4>2
      <4>5. \A s \in Task : ~Inside(s)'
        BY <4>2, <4>3
      <4>6. count' = 1
        BY <2>1, <3>2, <3>3, <4>1, <4>2, <4>3, <4>4
      <4>7. QED
        BY <2>1, <3>1, <4>2, <4>4, <4>5, <4>6 DEF device
    <3>4. ASSUME NEW w \in Waiters, pc' = [pc EXCEPT ![t] = step, ![w] = "inside"]
          PROVE  Accounted'
      BY <2>1, <3>1, <3>2, <3>4 DEF device
    <3>5. QED
      BY <3>2, <3>3, <3>4
  <2>2. ASSUME NEW t \in Task, Lock(t) PROVE Accounted'
    <3>1. mutInit
      BY <2>2 DEF Lock
    <3>2. pc[t] = "lock" /\ count' = count - 1
          /\ pc' = [pc EXCEPT ![t] = IF count > 0 THEN "inside" ELSE "blocked"]
      BY <2>2, <3>1 DEF Lock, GoTo
    <3>3. UNCHANGED mutInit
      BY <2>2 DEF Lock, device
    <3>4. QED
      BY <3>1, <3>2, <3>3
  <2>3. CASE DoInit
    <3>1. CASE MutexInit
      BY <3>1 DEF MutexInit, GoTo
    <3>2. CASE Open
      BY <3>2 DEF Open, GoTo
    <3>3. CASE InitFails
      BY <3>3 DEF InitFails, GoTo, device
    <3>4. CASE Ready
      BY <3>4 DEF Ready, GoTo
    <3>5. QED
      BY <2>3, <3>1, <3>2, <3>3, <3>4 DEF DoInit
  <2>4. CASE ReadBytes
    BY <2>4 DEF ReadBytes, GoTo, device
  <2>5. CASE ReadFails \/ Decoded
    BY <2>5, <2>1 DEF ReadFails, Decoded
  <2>6. CASE GyroCommand
    BY <2>6 DEF GyroCommand, GoTo, device
  <2>7. CASE ConfigDatagram
    BY <2>7 DEF ConfigDatagram, GoTo, device
  <2>8. ASSUME NEW c \in Client, Leave(c) PROVE Accounted'
    BY <2>8, <2>1 DEF Leave
  <2>9. CASE UNCHANGED vars
    BY <2>9 DEF vars
  <2>10. QED
    BY <2>2, <2>3, <2>4, <2>5, <2>6, <2>7, <2>8, <2>9
       DEF Next, RcvFrame, ClientStep
<1>3. Accounted => Exclusive
  BY DEF Accounted, Exclusive
<1>4. QED
  BY <1>1, <1>2, <1>3, TypedInductive, OrderInductive, PTL DEF Spec

----------------------------------------------------------------------------
(* The reporters.                                                          *)

(* A step of one task's report, the case split of the proofs below.        *)
LEMMA ReportCases ==
  ASSUME NEW r \in Reporters, ReportLock(r) \/ Report(r)
  PROVE  \/ ReportLock(r) \/ MutexLock(r) \/ LockReturns(r)
         \/ CopyMessageCode(r) \/ EncodeMessage(r) \/ UploadAgain(r) \/ OpenSocket(r)
         \/ SocketFails(r) \/ SendTo(r) \/ ReportUnlock(r)
BY DEF Report

(* Type correctness of the reporters.                                      *)
THEOREM ReportsTyped == ReporterSpec => []ReporterTypeOK
<1>1. ReporterInit => ReporterTypeOK
  BY DEF ReporterInit, ReporterTypeOK, PC
<1>2. ASSUME ReporterTypeOK, [ReporterNext]_reporterVars PROVE ReporterTypeOK'
  <2> USE <1>2 DEF ReporterTypeOK, PC, Goto, reporter_mut
  <2>1. ASSUME NEW r \in Reporters, ReportLock(r) \/ Report(r) PROVE ReporterTypeOK'
    <3>1. CASE ReportLock(r)
      BY <3>1 DEF ReportLock
    <3>2. CASE MutexLock(r)
      BY <3>2 DEF MutexLock
    <3>3. CASE CopyMessageCode(r)
      BY <3>3 DEF CopyMessageCode
    <3>4. CASE EncodeMessage(r)
      BY <3>4 DEF EncodeMessage
    <3>5. CASE UploadAgain(r)
      BY <3>5 DEF UploadAgain
    <3>6. CASE OpenSocket(r)
      BY <3>6 DEF OpenSocket
    <3>7. CASE SocketFails(r)
      BY <3>7 DEF SocketFails
    <3>8. CASE SendTo(r)
      BY <3>8 DEF SendTo
    <3>9. CASE ReportUnlock(r)
      BY <3>9 DEF ReportUnlock, Blocked
    <3>10. CASE LockReturns(r)
      BY <3>10 DEF LockReturns
    <3>11. QED
      BY <2>1, ReportCases, <3>1, <3>2, <3>3, <3>4, <3>5, <3>6, <3>7, <3>8, <3>9,
         <3>10
  <2>2. CASE UNCHANGED reporterVars
    BY <2>2 DEF reporterVars
  <2>3. QED
    BY <1>2, <2>1, <2>2 DEF ReporterNext
<1>3. QED
  BY <1>1, <1>2, PTL DEF ReporterSpec

(* From the moment every instance has its socket and nobody overlaps,      *)
(* reportLock no longer touches the mutex and unlock is only called by its *)
(* holder, so exclusion and the buffer stay sound for ever.                *)
THEOREM SettledForGood == ReporterSpec => StaysSettled
<1>1. ASSUME ReporterTypeOK, Settled, [ReporterNext]_reporterVars PROVE Settled'
  <2> USE <1>1 DEF ReporterTypeOK, PC, Goto, reporter_mut, Settled, Apart,
                  AllOpen, Alone, BufferIntact, OneAdmitted, Owns, Reporting
  <2>1. ASSUME NEW r \in Reporters, ReportLock(r) \/ Report(r) PROVE Settled'
    <3>1. CASE ReportLock(r)
      BY <3>1 DEF ReportLock
    <3>2. CASE MutexLock(r)
      BY <3>2, ReporterAssumption DEF MutexLock
    <3>3. CASE CopyMessageCode(r)
      BY <3>3 DEF CopyMessageCode
    <3>4. CASE EncodeMessage(r)
      BY <3>4 DEF EncodeMessage
    <3>5. CASE UploadAgain(r)
      BY <3>5 DEF UploadAgain
    <3>6. CASE OpenSocket(r)
      BY <3>6 DEF OpenSocket
    <3>7. CASE SocketFails(r)
      BY <3>7 DEF SocketFails
    <3>8. CASE SendTo(r)
      BY <3>8 DEF SendTo
    <3>9. CASE ReportUnlock(r)
      BY <3>9 DEF ReportUnlock, Blocked
    <3>10. CASE LockReturns(r)
      BY <3>10 DEF LockReturns
    <3>11. QED
      BY <2>1, ReportCases, <3>1, <3>2, <3>3, <3>4, <3>5, <3>6, <3>7, <3>8, <3>9,
         <3>10
  <2>2. CASE UNCHANGED reporterVars
    BY <2>2 DEF reporterVars
  <2>3. QED
    BY <1>1, <2>1, <2>2 DEF ReporterNext
<1>2. QED
  BY <1>1, ReportsTyped, PTL DEF ReporterSpec, StaysSettled

==============================================================================
