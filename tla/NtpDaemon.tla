----------------------------- MODULE NtpDaemon -----------------------------
(***************************************************************************)
(* The NTP client of src/netutils/ntpclient: a daemon that asks a server   *)
(* for the time again and again, and a task that starts and stops it.      *)
(* They share the word state and the semaphore interlock.                  *)
(*                                                                         *)
(* The daemon locks the scheduler in its loop, so that the other task runs *)
(* only when the daemon waits: in sendto, in recvfrom and in sleep.  Both  *)
(* ntpc_start and ntpc_stop lock it too, but for their sem_wait.           *)
(***************************************************************************)
EXTENDS Integers

CONSTANTS
  SemValueMax,    \* the largest count of interlock
  MaxEnding       \* daemons that have stopped and not yet posted

VARIABLES
  state,          \* g_ntpc_daemon.state
  interlock,      \* g_ntpc_daemon.interlock
  daemon,         \* where the daemon is; "none" when there is none
  fails,          \* its retry
  signalled,      \* the call it waits in is interrupted
  ending,         \* daemons with nothing left to do but to post
  caller,         \* "idle", or waiting in ntpc_start or ntpc_stop
  unresolved      \* a daemon has ended because it found no server

ntpVars == <<state, interlock, daemon, fails, signalled, ending, caller,
             unresolved>>

NtpInit ==
  /\ state = "NOT_RUNNING"
  /\ interlock = 0
  /\ daemon = "none"
  /\ fails = 0
  /\ signalled = FALSE
  /\ ending = 0
  /\ caller = "idle"
  /\ unresolved = FALSE

Post == interlock' = IF interlock < SemValueMax THEN interlock + 1
                                                ELSE interlock

----------------------------------------------------------------------------
(* The daemon, up to its loop.                                             *)

Begin ==
  /\ daemon = "created"
  /\ state' = "RUNNING"
  /\ daemon' = "begun"
  /\ UNCHANGED <<interlock, fails, signalled, ending, caller, unresolved>>

TellBegun ==
  /\ daemon = "begun"
  /\ Post
  /\ daemon' = "opening"
  /\ UNCHANGED <<state, fails, signalled, ending, caller, unresolved>>

(* It ends: state first, then the post.                                    *)
Stops ==
  /\ ending < MaxEnding
  /\ state' = "STOPPED"
  /\ ending' = ending + 1
  /\ daemon' = "none"
  /\ fails' = 0
  /\ signalled' = FALSE
  /\ UNCHANGED <<interlock, caller, unresolved>>

SocketFails ==
  /\ daemon = "opening"
  /\ Stops

SocketOpens ==
  /\ daemon = "opening"
  /\ daemon' = "resolving"
  /\ UNCHANGED <<state, interlock, fails, signalled, ending, caller,
                 unresolved>>

(* No address for the server's name: the daemon just returns.              *)
NotResolved ==
  /\ daemon = "resolving"
  /\ daemon' = "none"
  /\ unresolved' = TRUE
  /\ UNCHANGED <<state, interlock, fails, signalled, ending, caller>>

(* The test at the top of the loop; a daemon that goes on sends a request. *)
Top == daemon' = IF state = "STOP_REQUESTED" THEN "leaving" ELSE "sending"

InLoop == UNCHANGED <<state, interlock, ending, caller, unresolved>>

Resolved ==
  /\ daemon = "resolving"
  /\ Top
  /\ UNCHANGED <<fails, signalled>>
  /\ InLoop

(* sendto and recvfrom; a signal makes either return before its time, when *)
(* it finds the daemon still waiting there.                                *)
Sent ==
  /\ daemon = "sending"
  /\ \/ daemon' \in {"receiving", "leaving"}
     \/ signalled /\ Top
  /\ signalled' = FALSE
  /\ UNCHANGED fails
  /\ InLoop

(* The wait until the next request, but when the daemon has been told to   *)
(* stop.                                                                   *)
Sleep == IF state = "RUNNING" THEN daemon' = "sleeping" ELSE Top

Received ==
  /\ daemon = "receiving"
  /\ fails' \in {0, fails}
  /\ Sleep
  /\ signalled' = FALSE
  /\ InLoop

(* Nothing for five seconds, or an error: the third one ends the daemon.   *)
ReceiveFails ==
  /\ daemon = "receiving"
  /\ fails' = fails + 1
  /\ IF fails + 1 < 3 THEN Top ELSE daemon' = "leaving"
  /\ signalled' = FALSE
  /\ InLoop

Wakes ==
  /\ daemon = "sleeping"
  /\ Top
  /\ signalled' = FALSE
  /\ UNCHANGED fails
  /\ InLoop

Leave ==
  /\ daemon = "leaving"
  /\ Stops

Daemon ==
  \/ Begin \/ TellBegun \/ SocketFails \/ SocketOpens
  \/ NotResolved \/ Resolved \/ Sent \/ Received \/ ReceiveFails
  \/ Wakes \/ Leave

TellEnded ==
  /\ ending > 0
  /\ Post
  /\ ending' = ending - 1
  /\ UNCHANGED <<state, daemon, fails, signalled, caller, unresolved>>

----------------------------------------------------------------------------
(* ntpc_start.                                                             *)

Idle == state \in {"NOT_RUNNING", "STOPPED"}

Start ==
  /\ caller = "idle"
  /\ Idle
  /\ \/ /\ state' = "STARTED"
        /\ daemon' = "created"
        /\ caller' = "starting"
     \/ /\ state' = "STOPPED"
        /\ UNCHANGED <<daemon, caller>>
  /\ UNCHANGED <<interlock, fails, signalled, ending, unresolved>>

StartWoken ==
  /\ caller = "starting"
  /\ interlock > 0
  /\ interlock' = interlock - 1
  /\ caller' = IF state = "STARTED" THEN "starting" ELSE "idle"
  /\ UNCHANGED <<state, daemon, fails, signalled, ending, unresolved>>

(* ntpc_stop: the daemon is told, and woken by a signal; there may be none *)
(* to take it.                                                             *)
Waits == daemon \in {"sending", "receiving", "sleeping"}

Kill ==
  IF daemon = "none" /\ ending = 0
    THEN caller' = "idle" /\ UNCHANGED signalled
    ELSE caller' = "stopping" /\ signalled' = (signalled \/ Waits)

Stop ==
  /\ caller = "idle"
  /\ state \in {"STARTED", "RUNNING"}
  /\ state' = "STOP_REQUESTED"
  /\ Kill
  /\ UNCHANGED <<interlock, daemon, fails, ending, unresolved>>

StopWokenOnce ==
  /\ caller = "stopping"
  /\ interlock > 0
  /\ interlock' = interlock - 1
  /\ caller' = "idle"
  /\ UNCHANGED <<state, daemon, fails, signalled, ending, unresolved>>

StopWoken ==
  /\ caller = "stopping"
  /\ interlock > 0
  /\ interlock' = interlock - 1
  /\ IF state = "STOP_REQUESTED" THEN Kill
                                 ELSE caller' = "idle" /\ UNCHANGED signalled
  /\ UNCHANGED <<state, daemon, fails, ending, unresolved>>

Caller == StartWoken \/ StopWoken

NtpNext == Daemon \/ TellEnded \/ Start \/ Stop \/ Caller

----------------------------------------------------------------------------
(* What the calls promise, though posts of daemons that ended unasked stay *)
(* in the semaphore: ntpc_start and ntpc_stop return, the latter when      *)
(* there is no daemon; and between calls state tells whether there is one, *)
(* so that one that ended can be started again and none is started twice.  *)
(* A daemon that finds no server is the exception: it leaves state behind  *)
(* as it is and a task in ntpc_stop waiting for ever.                      *)
CallsReturn == caller # "idle" ~> unresolved \/ caller = "idle"
CallsSettle ==
  /\ [][caller = "stopping" => caller' = "stopping" \/ daemon' = "none"]_ntpVars
  /\ [](caller = "idle" /\ ~unresolved => (daemon = "none") = Idle)

============================================================================
