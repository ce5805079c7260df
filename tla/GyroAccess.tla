------------------------------ MODULE GyroAccess ------------------------------
(***************************************************************************)
(* Who may use the gyro: gyro_mut of src/src/Gyro.cxx, which the gyro task *)
(* initialises and then holds across a blocking read of the UART, and      *)
(* which the dispatch task (gyroCmdDispatcher) and the config task         *)
(* (doCalibration, from src/src/task_config.cxx) lock as well.             *)
(*                                                                         *)
(* The mutex is NuttX's: a counting semaphore.  A count of 1 is free; to   *)
(* lock takes 1 and blocks if nothing was there; to unlock gives 1 back    *)
(* and wakes a waiter if the count says that there is one.  Initialising   *)
(* it sets the count and knows of no waiter.                               *)
(***************************************************************************)
EXTENDS Integers

CONSTANT Garbage  \* the counts gyro_mut may hold before it is initialised

ASSUME GarbageAssumption == Garbage \subseteq Int

Priority == [config |-> 7, dispatch |-> 6, gyro |-> 4]

Task == DOMAIN Priority

Client == {"config", "dispatch"}

Code == {"EGyroCalibration", "other"}
Argument == {"0xFFFFFFFF", "other"}

VARIABLES
  count,         \* gyro_mut
  mutInit,       \* gyro_mut has been initialised
  opened,        \* usart_fd is a descriptor
  bInited,
  pc,            \* where each task is
  configBuffer,  \* the two words of _configBuffer
  early          \* history: a client locked gyro_mut before it was initialised

vars == <<count, mutInit, opened, bInited, pc, configBuffer, early>>

device == <<mutInit, opened, bInited>>

(* A client is idle, in front of the lock, blocked, or inside; the gyro    *)
(* task is in doInit, in the loop of rcvFrame, or gone.                    *)
Init ==
  /\ count \in Garbage
  /\ mutInit = FALSE
  /\ opened = FALSE
  /\ bInited = FALSE
  /\ pc = [t \in Task |-> IF t = "gyro" THEN "mutexInit" ELSE "idle"]
  /\ configBuffer = [code |-> "other", arg |-> "other"]
  /\ early = FALSE

GoTo(t, step) == pc' = [pc EXCEPT ![t] = step]

----------------------------------------------------------------------------
(* pthread_mutex_lock and pthread_mutex_unlock.                            *)

Waiters == {t \in Task : pc[t] = "blocked"}

(* Task t gets the mutex or blocks.  Of a mutex not initialised it may     *)
(* also seem to be the owner: the error is printed and t goes on (bound:   *)
(* only the first time, for every unlock after it adds to the count).      *)
Lock(t) ==
  /\ pc[t] = "lock"
  /\ \/ /\ count' = count - 1
        /\ GoTo(t, IF count > 0 THEN "inside" ELSE "blocked")
     \/ /\ ~mutInit /\ ~early
        /\ GoTo(t, "inside")
        /\ UNCHANGED count
  /\ early' = (early \/ ~mutInit)
  /\ UNCHANGED <<device, configBuffer>>

(* Task t leaves and goes on at step; a waiter, the one of the highest     *)
(* priority, is inside at once.  (Where owners are checked, the unlock of  *)
(* a client that was early is refused; the model always grants it, and no  *)
(* property but TypeOK and CalibrationReady speaks of that case.)          *)
UnlockAnd(t, step) ==
  /\ count' = count + 1
  /\ \/ /\ count' <= 0
        /\ \E w \in Waiters :
             /\ \A v \in Waiters : Priority[v] <= Priority[w]
             /\ pc' = [pc EXCEPT ![t] = step, ![w] = "inside"]
     \/ /\ count' > 0 \/ Waiters = {}
        /\ GoTo(t, step)

----------------------------------------------------------------------------
(* The gyro task.                                                          *)

MutexInitReady ==
  /\ pc["gyro"] = "mutexInit"
  /\ count' = 1
  /\ mutInit' = TRUE
  /\ bInited' = TRUE
  /\ GoTo("gyro", "open")
  /\ UNCHANGED <<opened, configBuffer, early>>

MutexInit ==
  /\ pc["gyro"] = "mutexInit"
  /\ count' = 1
  /\ mutInit' = TRUE
  /\ GoTo("gyro", "open")
  /\ UNCHANGED <<opened, bInited, configBuffer, early>>

(* malloc and open.                                                        *)
Open ==
  /\ pc["gyro"] = "open"
  /\ opened' = TRUE
  /\ GoTo("gyro", "write")
  /\ UNCHANGED <<count, mutInit, bInited, configBuffer, early>>

(* malloc, open or the first write fails: doInit returns 1, the task ends. *)
InitFails ==
  /\ pc["gyro"] \in {"open", "write"}
  /\ GoTo("gyro", "gone")
  /\ UNCHANGED <<count, device, configBuffer, early>>

(* The initial commands are written, rcvFrame is called.                   *)
Ready ==
  /\ pc["gyro"] = "write"
  /\ bInited' = TRUE
  /\ GoTo("gyro", "lock")
  /\ UNCHANGED <<count, mutInit, opened, configBuffer, early>>

ReadBytesUnlocks ==
  /\ pc["gyro"] = "inside"
  /\ UnlockAnd("gyro", "decode")
  /\ UNCHANGED <<device, configBuffer, early>>

(* The read returns bytes, still under the mutex.                          *)
ReadBytes ==
  /\ pc["gyro"] = "inside"
  /\ GoTo("gyro", "decode")
  /\ UNCHANGED <<count, device, configBuffer, early>>

ReadFailsLocked ==
  /\ pc["gyro"] = "inside"
  /\ GoTo("gyro", "lock")
  /\ UNCHANGED <<count, device, configBuffer, early>>

(* The read fails, or returns nothing; rcvFrame unlocks and is called      *)
(* again.                                                                  *)
ReadFails ==
  /\ pc["gyro"] = "inside"
  /\ UnlockAnd("gyro", "lock")
  /\ UNCHANGED <<device, configBuffer, early>>

(* Decode_frame has seen every byte.                                       *)
Decoded ==
  /\ pc["gyro"] = "decode"
  /\ UnlockAnd("gyro", "lock")
  /\ UNCHANGED <<device, configBuffer, early>>

----------------------------------------------------------------------------
(* The dispatch and the config task.                                       *)

(* A gyro command (0x101A, 0xA001) arrives in the dispatch task.           *)
GyroCommand ==
  /\ pc["dispatch"] = "idle"
  /\ GoTo("dispatch", "lock")
  /\ UNCHANGED <<count, device, configBuffer, early>>

(* A datagram of any length overwrites that much of the buffer; a word cut *)
(* short by it is some word.                                               *)
Received(buffer) ==
  \/ buffer = configBuffer
  \/ \E code \in Code :
       \/ buffer = [configBuffer EXCEPT !.code = code]
       \/ \E arg \in Argument : buffer = [code |-> code, arg |-> arg]

Calibrates(buffer) ==
  /\ buffer = [code |-> "EGyroCalibration", arg |-> "0xFFFFFFFF"]
  /\ bInited

ConfigDatagram ==
  /\ pc["config"] = "idle"
  /\ \E buffer \in [code : Code, arg : Argument] :
       /\ Received(buffer)
       /\ configBuffer' = buffer
       /\ GoTo("config", IF Calibrates(buffer) THEN "lock" ELSE "idle")
  /\ UNCHANGED <<count, device, early>>

LeaveLocked(c) ==
  /\ pc[c] = "inside"
  /\ \/ UnlockAnd(c, "idle")
     \/ c = "dispatch" /\ GoTo(c, "idle") /\ UNCHANGED count
  /\ UNCHANGED <<device, configBuffer, early>>

(* Every gyro command is only printed; a calibration writes one command,   *)
(* and a failed write is only printed too.                                 *)
Leave(c) ==
  /\ pc[c] = "inside"
  /\ UnlockAnd(c, "idle")
  /\ UNCHANGED <<device, configBuffer, early>>

----------------------------------------------------------------------------

DoInit == MutexInit \/ Open \/ InitFails \/ Ready

RcvFrame == Lock("gyro") \/ ReadBytes \/ ReadFails \/ Decoded

ClientStep(c) == Lock(c) \/ Leave(c)

Next ==
  \/ DoInit
  \/ RcvFrame
  \/ GyroCommand
  \/ ConfigDatagram
  \/ \E c \in Client : ClientStep(c)

Spec == Init /\ [][Next]_vars

(* The tasks run, and the read returns: the gyro keeps sending, or the     *)
(* read fails.                                                             *)
FairSpec ==
  /\ Spec
  /\ WF_vars(DoInit) /\ WF_vars(RcvFrame)
  /\ \A c \in Client : WF_vars(ClientStep(c))

----------------------------------------------------------------------------
(* Properties.                                                             *)

(* Every variable has its type.  The count keeps within the reach of three *)
(* tasks: it would not if one locked or unlocked more than once.           *)
TypeOK ==
  /\ \E start \in Garbage \cup {1} : count \in start - 3 .. start + 2
  /\ mutInit \in BOOLEAN
  /\ opened \in BOOLEAN
  /\ bInited \in BOOLEAN
  /\ pc \in [Task -> {"mutexInit", "open", "write", "gone", "idle",
                      "lock", "blocked", "inside", "decode"}]
  /\ configBuffer \in [code : Code, arg : Argument]
  /\ early \in BOOLEAN

Inside(t) == pc[t] \in {"inside", "decode"}

(* The gyro's device and decoder are used by one task at a time -- unless  *)
(* a gyro command came before the gyro task, of lower priority than the    *)
(* dispatch task that serves it, had initialised the mutex.                *)
Exclusive ==
  ~early => \A s, t \in Task : Inside(s) /\ Inside(t) => s = t

(* A calibration only ever finds the mutex initialised and the device      *)
(* open, whenever it is asked for and however doInit ends.                 *)
CalibrationReady == pc["config"] # "idle" => mutInit /\ opened

(* A task that asks for the gyro is served although the gyro task holds    *)
(* the mutex nearly always, as long as reads return.                       *)
ClientServed ==
  \A c \in Client : pc[c] = "lock" ~> pc[c] = "idle" \/ early

(* The gyro task is not kept from the UART by commands, once one of the    *)
(* two tasks that serve them stays away.                                   *)
DecoderRuns ==
  (\E c \in Client : <>[](pc[c] = "idle")) /\ []~early =>
    (bInited ~> pc["gyro"] = "inside")

==============================================================================
