------------------------------- MODULE Telnetd ------------------------------
(***************************************************************************)
(* src/netutils/telnetd/telnetd_daemon.c: daemons are started one after    *)
(* the other; each takes its configuration from a variable they share,     *)
(* and makes a session of every connection it accepts, with the connection *)
(* as its standard input and output.  Descriptors 0 to 3 of a task are     *)
(* modelled; sockets have others.  A new task has its maker's descriptors. *)
(***************************************************************************)
EXTENDS Integers, Sequences

CONSTANTS
  TelnetConfigs,   \* the configurations to start with, in order
  Connections      \* in the order in which they come

VARIABLES
  starter,         \* the task that calls telnetd_start
  common,          \* g_telnetdcommon
  telnetds,        \* the daemons, by their number
  telnets,         \* the sessions
  connected        \* connections that have been accepted

Fd == 0 .. 3
Console == [i \in Fd |-> IF i <= 2 THEN "console" ELSE "none"]
LowestFree(fds) == CHOOSE i \in Fd : fds[i] = "none" /\ \A j \in 0 .. i - 1 : fds[j] # "none"
CloseStdio(fds) == [i \in Fd |-> IF i <= 2 THEN "none" ELSE fds[i]]

Nowhere == ""
NoConfig == [port |-> 0, entry |-> Nowhere]

TelnetdInit ==
  /\ \E silent \in BOOLEAN :   \* CONFIG_DEBUG_FEATURES is not set
       starter = [state |-> "start", next |-> 1, pid |-> 0, silent |-> silent]
  /\ common = [sem |-> 0, daemon |-> NoConfig]
  /\ telnetds = <<>> /\ telnets = {} /\ connected = 0

----------------------------------------------------------------------------
(* telnetd_start.  ndaemons stays 0, so that the semaphore is initialised  *)
(* with every start.  malloc may fail, and task_create.                    *)
TelnetdStart(failure) ==
  /\ starter.state = "start" /\ starter.next <= Len(TelnetConfigs)
  /\ CASE failure = "malloc" ->
            /\ starter' = [starter EXCEPT !.next = @ + 1, !.pid = 0]
            /\ UNCHANGED <<common, telnetds>>
       [] failure = "task_create" ->
            /\ starter' = [starter EXCEPT !.next = @ + 1, !.pid = 0]
            /\ common' = [sem |-> 0, daemon |-> TelnetConfigs[starter.next]]
            /\ UNCHANGED telnetds
       [] failure = "none" ->
            /\ starter' = [starter EXCEPT !.state = "wait", !.pid = Len(telnetds) + 1]
            /\ common' = [sem |-> 0, daemon |-> TelnetConfigs[starter.next]]
            /\ telnetds' = Append(telnetds, [state |-> "new", config |-> NoConfig,
                                             fds |-> Console])
  /\ UNCHANGED <<telnets, connected>>

(* sem_wait, which a signal may wake, returns to telnetd_start's caller.   *)
Started ==
  /\ starter.state = "wait" /\ common.sem > 0
  /\ common' = [common EXCEPT !.sem = @ - 1]
  /\ starter' = [starter EXCEPT !.state = "start", !.next = @ + 1]
  /\ UNCHANGED <<telnetds, telnets, connected>>

(* telnetd_daemon takes what g_telnetdcommon says.                         *)
TakeConfig(d) ==
  /\ telnetds[d].state = "new"
  /\ telnetds' = [telnetds EXCEPT ![d].state = "open", ![d].config = common.daemon]
  /\ common' = [sem |-> common.sem + 1, daemon |-> NoConfig]
  /\ UNCHANGED <<starter, telnets, connected>>

(* From sigaction to listen: each call may fail, and the daemon ends.      *)
Listen(d, works) ==
  /\ telnetds[d].state = "open"
  /\ telnetds' = IF works
       THEN [telnetds EXCEPT ![d].state = "accept",
                             ![d].fds = IF starter.silent THEN CloseStdio(@) ELSE @]
       ELSE [telnetds EXCEPT ![d].state = "ended"]
  /\ UNCHANGED <<starter, common, telnets, connected>>

(* The driver of a connection becomes descriptors 0, 1 and 2, and is not   *)
(* needed twice.  A mutant closes it whatever it is.                       *)
StdioOfClosing(fds, conn) ==
  [fds EXCEPT ![0] = conn, ![1] = conn, ![2] = conn, ![LowestFree(fds)] = "none"]

StdioOf(fds, conn) ==
  LET drvrfd == LowestFree(fds)
      duped  == [fds EXCEPT ![0] = conn, ![1] = conn, ![2] = conn, ![drvrfd] = conn]
  IN  IF drvrfd > 2 THEN [duped EXCEPT ![drvrfd] = "none"] ELSE duped

(* accept and what follows.  Each failure but a signal ends the daemon:    *)
(* of setsockopt, the factory, its ioctl, the driver or task_create.       *)
Accept(d, failure) ==
  LET t     == telnetds[d]
      comes == connected < Len(Connections) /\ connected' = connected + 1
      conn  == Connections[connected + 1]
      stdio == StdioOf(t.fds, conn)
  IN
  /\ t.state = "accept"
  /\ CASE failure = "EINTR" -> UNCHANGED <<telnetds, telnets, connected>>
       [] failure = "accept" ->
            /\ telnetds' = [telnetds EXCEPT ![d].state = "ended"]
            /\ UNCHANGED <<telnets, connected>>
       [] failure = "driver" ->
            /\ comes
            /\ telnetds' = [telnetds EXCEPT ![d].state = "ended"]
            /\ UNCHANGED telnets
       [] failure = "task_create" ->
            /\ comes
            /\ telnetds' = [telnetds EXCEPT ![d].state = "ended", ![d].fds = stdio]
            /\ UNCHANGED telnets
       [] failure = "none" ->
            /\ comes
            /\ telnets' = telnets \union {[conn |-> conn,
                 entry |-> t.config.entry, fds |-> stdio, by |-> d]}
            /\ telnetds' = [telnetds EXCEPT ![d].fds = CloseStdio(stdio)]
  /\ UNCHANGED <<starter, common>>

TelnetdNext ==
  \/ \E failure \in {"none", "malloc", "task_create"} : TelnetdStart(failure)
  \/ Started
  \/ \E d \in DOMAIN telnetds :
       \/ TakeConfig(d)
       \/ \E works \in BOOLEAN : Listen(d, works)
       \/ \E failure \in {"none", "EINTR", "accept", "driver", "task_create"} :
            Accept(d, failure)

----------------------------------------------------------------------------
(* Each session has its own connection and nothing else for input, output  *)
(* and errors, and runs what its daemon was started with; a daemon that    *)
(* has been started knows its configuration, its own; and one that waits   *)
(* for a connection has no descriptor of a session that is left to it.     *)
SessionsOwn ==
  /\ \A s \in telnets :
       /\ \A i \in 0 .. 2 : s.fds[i] = s.conn
       /\ s.fds[3] = "none" /\ s.entry = telnetds[s.by].config.entry
  /\ \A d \in DOMAIN telnetds :
       /\ telnetds[d].state # "new" => telnetds[d].config # NoConfig
       /\ telnetds[d].state = "accept" =>
            \A i \in Fd : telnetds[d].fds[i] \in {"none", "console"}
       /\ starter.state = "start" => telnetds[d].state # "new"
  /\ \A d, e \in DOMAIN telnetds :
       d # e /\ telnetds[d].state # "new" => telnetds[d].config # telnetds[e].config

=============================================================================
