------------------------------ MODULE Reporter ------------------------------
(***************************************************************************)
(* CReporter_base (src/src/Reporter.cxx): the gyro, odometry and DIO tasks *)
(* build their datagrams in one static transBuff_ under one static mutex,  *)
(* but each instance opens a socket of its own on its first upload, and    *)
(* initialises the shared mutex until then.                                *)
(*                                                                         *)
(* A reporter is one of the three tasks; its report() is the sequence      *)
(* reportLock, memcpy of the message code, pb_encode, uploadRbk,           *)
(* reportUnlock (Gyro.cxx, Mileage.cxx, DIO.cxx).  sendto, printf and the  *)
(* mutex itself block, so a task of lower priority may run at any step.    *)
(*                                                                         *)
(* The mutex is NuttX's: a counting semaphore and the identity of the      *)
(* holder, which a thread that was woken enters when it runs again.        *)
(* Initialising it sets both and knows of no waiter: of those blocked      *)
(* before, an unlock wakes one only when others wait as well.              *)
(***************************************************************************)
EXTENDS Integers

CONSTANTS
  Reporters,     \* the instances: gyro, odometry, DIO
  Nobody,        \* no holder of the mutex, no writer of the buffer
  OwnerChecked   \* TRUE: pthread_mutex_unlock refuses a thread that does not
                 \* hold the mutex; FALSE: it releases it all the same

ASSUME ReporterAssumption ==
  /\ Nobody \notin Reporters
  /\ OwnerChecked \in BOOLEAN

VARIABLES
  reporting,       \* where each task is in report()
  semaphore, \* the count of reporter_mut: 1 free, less than 1 taken
  holder,   \* who reporter_mut says holds it
  socket,   \* socket_n of each instance: "closed" (negative) or "open"
  hdr,      \* whose message code transBuff_ starts with
  body      \* whose encoded message follows it

reporterVars == <<reporting, semaphore, holder, socket, hdr, body>>

reporter_mut == <<semaphore, holder>>

PC == {"idle", "lock", "blocked", "woken", "copy", "encode", "upload", "send",
       "unlock"}

(* Between reportLock and reportUnlock.                                    *)
Reporting(r) == reporting[r] \in {"copy", "encode", "upload", "send", "unlock"}

ReporterInit ==
  /\ reporting = [r \in Reporters |-> "idle"]
  /\ semaphore = 0
  /\ holder = Nobody
  /\ socket = [r \in Reporters |-> "closed"]
  /\ hdr = Nobody
  /\ body = Nobody

Goto(r, label) == reporting' = [reporting EXCEPT ![r] = label]

ReportLockInitsAgain(r) ==
  /\ reporting[r] = "idle"
  /\ Goto(r, "lock")
  /\ semaphore' = 1
  /\ holder' = Nobody
  /\ UNCHANGED <<socket, hdr, body>>

(* reportLock, its test of socket_n: an instance without a socket          *)
(* initialises the mutex, whoever holds it or waits for it.                *)
ReportLock(r) ==
  /\ reporting[r] = "idle"
  /\ Goto(r, "lock")
  /\ IF socket[r] = "closed"
     THEN semaphore' = 1 /\ holder' = Nobody
     ELSE UNCHANGED reporter_mut
  /\ UNCHANGED <<socket, hdr, body>>

(* reportLock, pthread_mutex_lock: r has the mutex, or it blocks.          *)
MutexLock(r) ==
  /\ reporting[r] = "lock"
  /\ semaphore' = semaphore - 1
  /\ \/ semaphore > 0 /\ holder' = r /\ Goto(r, "copy")
     \/ semaphore <= 0 /\ UNCHANGED holder /\ Goto(r, "blocked")
  /\ UNCHANGED <<socket, hdr, body>>

(* pthread_mutex_lock returns in a task that an unlock has woken.          *)
LockReturns(r) ==
  /\ reporting[r] = "woken"
  /\ holder' = r
  /\ Goto(r, "copy")
  /\ UNCHANGED <<semaphore, socket, hdr, body>>

CopyMessageCode(r) ==
  /\ reporting[r] = "copy"
  /\ hdr' = r
  /\ Goto(r, "encode")
  /\ UNCHANGED <<reporter_mut, socket, body>>

EncodeMessage(r) ==
  /\ reporting[r] = "encode"
  /\ body' = r
  /\ Goto(r, "upload")
  /\ UNCHANGED <<reporter_mut, socket, hdr>>

(* upload with a socket: straight to sendto.                               *)
UploadAgain(r) ==
  /\ reporting[r] = "upload"
  /\ socket[r] = "open"
  /\ Goto(r, "send")
  /\ UNCHANGED <<reporter_mut, socket, hdr, body>>

OpenSocketForgotten(r) ==
  /\ reporting[r] = "upload"
  /\ socket[r] = "closed"
  /\ Goto(r, "send")
  /\ UNCHANGED <<reporter_mut, socket, hdr, body>>

(* upload without one: socket() is called, and on success the instance     *)
(* keeps the descriptor for good.                                          *)
OpenSocket(r) ==
  /\ reporting[r] = "upload"
  /\ socket[r] = "closed"
  /\ socket' = [socket EXCEPT ![r] = "open"]
  /\ Goto(r, "send")
  /\ UNCHANGED <<reporter_mut, hdr, body>>

(* socket() fails: upload returns 1 and nothing is sent.                   *)
SocketFails(r) ==
  /\ reporting[r] = "upload"
  /\ socket[r] = "closed"
  /\ Goto(r, "unlock")
  /\ UNCHANGED <<reporter_mut, socket, hdr, body>>

SendToReturns(r) ==
  /\ reporting[r] = "send"
  /\ \/ Goto(r, "unlock")
     \/ Goto(r, "idle")
  /\ UNCHANGED <<reporter_mut, socket, hdr, body>>

(* sendto takes what transBuff_ holds now.  Its result is only printed: it *)
(* fails when addrlen, which upload sets only in the call that opens the   *)
(* socket, holds too small a value from the stack.                         *)
SendTo(r) ==
  /\ reporting[r] = "send"
  /\ Goto(r, "unlock")
  /\ UNCHANGED <<reporter_mut, socket, hdr, body>>

Blocked == {r \in Reporters : reporting[r] = "blocked"}

(* reportUnlock: an error is only printed.  The semaphore is given back,   *)
(* and if the count says that somebody waits, a waiter is woken (the one   *)
(* of the highest priority; here it may be any).                           *)
ReportUnlock(r) ==
  /\ reporting[r] = "unlock"
  /\ \/ /\ OwnerChecked /\ holder # r
        /\ Goto(r, "idle")
        /\ UNCHANGED reporter_mut
     \/ /\ holder = r \/ ~OwnerChecked
        /\ holder' = Nobody
        /\ semaphore' = semaphore + 1
        /\ \/ /\ semaphore' <= 0
              /\ \E w \in Blocked :
                   reporting' = [reporting EXCEPT ![r] = "idle", ![w] = "woken"]
           \/ /\ semaphore' > 0 \/ Blocked = {}
              /\ Goto(r, "idle")
  /\ UNCHANGED <<socket, hdr, body>>

Report(r) ==
  \/ MutexLock(r) \/ LockReturns(r) \/ CopyMessageCode(r)
  \/ EncodeMessage(r) \/ UploadAgain(r) \/ OpenSocket(r) \/ SocketFails(r)
  \/ SendTo(r) \/ ReportUnlock(r)

ReporterNext == \E r \in Reporters : ReportLock(r) \/ Report(r)

ReporterSpec == ReporterInit /\ [][ReporterNext]_reporterVars

(* Each task reports again and again and goes on unless it is blocked; and *)
(* socket() does not fail for ever.  Nothing is assumed of the mutex.      *)
Fairness ==
  \A r \in Reporters :
    /\ WF_reporterVars(ReportLock(r))
    /\ WF_reporterVars(Report(r))
    /\ SF_reporterVars(OpenSocket(r))

FairReporterSpec == ReporterSpec /\ Fairness

----------------------------------------------------------------------------
(* Properties.                                                             *)

(* Every variable has its type, and sendto is given a socket that is open. *)
ReporterTypeOK ==
  /\ reporting \in [Reporters -> PC]
  /\ semaphore \in Int
  /\ holder \in Reporters \cup {Nobody}
  /\ socket \in [Reporters -> {"closed", "open"}]
  /\ \A r \in Reporters : reporting[r] = "send" => socket[r] = "open"
  /\ hdr \in Reporters \cup {Nobody}
  /\ body \in Reporters \cup {Nobody}

AllOpen == \A r \in Reporters : socket[r] = "open"

(* Only the holder of the mutex is between lock and unlock.                *)
Alone == \A r \in Reporters : Reporting(r) => holder = r

(* What a task inside has written to transBuff_ is still there.            *)
BufferIntact ==
  \A r \in Reporters :
    /\ reporting[r] \in {"encode", "upload", "send"} => hdr = r
    /\ reporting[r] \in {"upload", "send"} => body = r

Apart == AllOpen /\ Alone /\ BufferIntact

(* The mutex is r's, though r may not have run since it was woken.         *)
Owns(r) == reporting[r] = "woken" \/ Reporting(r)

(* The semaphore lets one task in.                                         *)
OneAdmitted ==
  /\ semaphore <= 1
  /\ \A r \in Reporters :
       Owns(r) => semaphore <= 0 /\ \A s \in Reporters : Owns(s) => s = r

Settled == Apart /\ OneAdmitted

(* Once every instance has its socket, the last overlap is over and the    *)
(* semaphore is as it should be, no report ever again overlaps another or  *)
(* sends another's bytes, whether or not unlock checks the owner.          *)
StaysSettled == [][Settled => Settled']_reporterVars

(* Whatever the repeated pthread_mutex_init makes of the semaphore, the    *)
(* tasks never come to wait all of them.  (One or two may: a task blocked  *)
(* while another initialises the mutex is seen by no unlock, unless yet    *)
(* another waits, which is then overlooked in its place.)                  *)
ReportsGoOn == Blocked # Reporters

(* Overlaps are confined to the start, where unlock checks the owner: if   *)
(* no task is overlooked and blocks for ever, eventually reports exclude   *)
(* each other for good.  (A task that was woken but has not run when       *)
(* another initialises the mutex adds one to the count; the next overlap   *)
(* takes it away.)                                                         *)
EventuallySettled ==
  (\A r \in Reporters : []<>(reporting[r] # "blocked")) => <>[]Apart

============================================================================
