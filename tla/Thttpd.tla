------------------------------- MODULE Thttpd -------------------------------
(***************************************************************************)
(* The web server of src/netutils/thttpd: one task that serves a fixed     *)
(* table of connections with poll, a list of free slots, a list of watched *)
(* descriptors (fdwatch.c) and a list of timers (timers.c).                *)
(*                                                                         *)
(* A connection's descriptor goes by the number of its slot.  Of the       *)
(* timers the model has the periodic one that looks for idle connections   *)
(* and those that end a lingering close; the occasional one only gives     *)
(* memory back.  Due timers of different hash lists run in any order.      *)
(* Time passes in poll, in units of the linger time.  A file is sent to    *)
(* its end before anything else is done; its units, and those of headers   *)
(* and buffer, are of any number of bytes.                                 *)
(***************************************************************************)
EXTENDS Integers, Sequences, FiniteSets

CONSTANTS
  NumSlots,       \* AVAILABLE_FDS
  Linger,         \* CONFIG_THTTPD_LINGER_MSEC
  IdlePeriod,     \* the period of the idle timer
  IdleLimit,      \* CONFIG_THTTPD_IDLE_READ_LIMIT_SEC, and that for sending
  MaxReads,       \* reads that fill a request buffer of the largest size
  IoBuffer,       \* CONFIG_THTTPD_IOBUFFERSIZE
  HeaderSize,     \* what send_mime puts into the buffer
  FileSizes       \* of the files that are asked for

VARIABLES
  stage,          \* where the task is: "poll", "accept", "next", ...
  after,          \* where tmr_run returns to
  server,         \* free list, connections and watched descriptors
  scan,           \* the index of fdwatch_get_next_client_data
  current,        \* the connection that is served, or that idle looks at
  idleLeft,       \* time to the next run of idle
  out             \* the file that is being sent

thttpdVars == <<stage, after, server, scan, current, idleLeft, out>>

Slot     == 1 .. NumSlots
Listener == 0
NoTimer  == -1

Fresh   == [state |-> "free", age |-> 0, reads |-> 0, lingers |-> FALSE,
            timer |-> NoTimer, pointer |-> FALSE]
NoFile  == [from |-> 0, to |-> 0, size |-> 0, buflen |-> 0, offset |-> 0,
            end |-> 0, position |-> 0]
Lesser(a, b) == IF a < b THEN a ELSE b
Greater(a, b) == IF a > b THEN a ELSE b

ThttpdInit ==
  /\ stage = "poll"
  /\ after = "poll"
  /\ server = [free  |-> [i \in Slot |-> i],
               conns |-> [c \in Slot |-> Fresh],
               watch |-> << [fd |-> Listener, revents |-> "none"] >>]
  /\ scan = 1
  /\ current = 1
  /\ idleLeft = IdlePeriod
  /\ out = NoFile

----------------------------------------------------------------------------
(* The lists.                                                              *)

(* A new entry keeps what its place in the table last held of revents.     *)
AddFd(s, fd) ==
  [s EXCEPT !.watch = Append(@, [fd |-> fd, revents |-> "stale"])]

(* The last entry takes the place of the one that goes.                    *)
DelAt(watch, i) ==
  [j \in 1 .. Len(watch) - 1 |-> IF j = i THEN watch[Len(watch)] ELSE watch[j]]

DelFd(s, fd) ==
  IF \E i \in DOMAIN s.watch : s.watch[i].fd = fd
    THEN [s EXCEPT !.watch =
            DelAt(@, CHOOSE i \in DOMAIN @ : @[i].fd = fd)]
    ELSE s

(* really_clear_connection cancels the timer that linger_timer points to.  *)
FreedWithTimer(conn) == [Fresh EXCEPT !.timer = conn.timer]

Freed(conn) ==
  [Fresh EXCEPT !.timer = IF conn.pointer THEN NoTimer ELSE conn.timer]

ReallyClear(s, c) ==
  [DelFd(s, c) EXCEPT !.conns[c] = Freed(@), !.free = <<c>> \o @]

(* clear_connection: a connection whose peer may still be sending lingers, *)
(* with its descriptor watched anew and a timer; any other ends at once.   *)
Lingering(conn) ==
  [conn EXCEPT !.state = "lingering", !.timer = Linger, !.pointer = TRUE]

ClearConnection(s, c) ==
  IF s.conns[c].lingers /\ s.conns[c].state # "lingering"
    THEN [AddFd(DelFd(s, c), c) EXCEPT !.conns[c] = Lingering(@)]
    ELSE ReallyClear(s, c)

----------------------------------------------------------------------------
(* The wait, and new connections.                                          *)

Ticked(conn, d) ==
  [conn EXCEPT !.age = IF conn.state = "reading" THEN Lesser(@ + d, IdleLimit)
                                                 ELSE 0,
               !.timer = IF @ = NoTimer THEN @ ELSE Greater(@ - d, 0)]

(* tmr_mstimeout: the time to the first timer.                             *)
Timeout ==
  LET timers == {idleLeft} \cup {server.conns[c].timer :
                   c \in {k \in Slot : server.conns[k].timer # NoTimer}}
  IN CHOOSE t \in timers : \A u \in timers : t <= u

(* A poll of d units.  Without activity it ends at the timeout, and the    *)
(* timers are run; a descriptor in error counts as active, and is passed   *)
(* over by fdwatch_check_fd.                                               *)
Poll(d) ==
  /\ stage = "poll"
  /\ d <= Timeout
  /\ \E revents \in [DOMAIN server.watch -> {"none", "in", "err"}] :
       /\ server' =
            [server EXCEPT
               !.conns = [c \in Slot |-> Ticked(@[c], d)],
               !.watch = [i \in DOMAIN @ |->
                            [fd |-> @[i].fd, revents |-> revents[i]]]]
       /\ IF \A i \in DOMAIN revents : revents[i] = "none"
            THEN d = Timeout /\ stage' = "timers"
            ELSE stage' = IF revents[1] = "in" THEN "accept" ELSE "next"
  /\ idleLeft' = Greater(idleLeft - d, 0)
  /\ UNCHANGED <<after, scan, current, out>>

(* What poll has reported is not looked at any more.                       *)
Unpolled ==
  [server EXCEPT !.watch = [i \in DOMAIN @ |->
                              [fd |-> @[i].fd, revents |-> "none"]]]

(* handle_newconnect goes on until accept has no more; then poll is next,  *)
(* before any connection is served.                                        *)
NoMoreConnections ==
  /\ stage = "accept"
  /\ server.free # <<>>
  /\ stage' = "poll"
  /\ server' = Unpolled
  /\ UNCHANGED <<after, scan, current, idleLeft, out>>

(* accept fails, or no slot is free: the timers, then the connections.     *)
NotAccepted ==
  /\ stage = "accept"
  /\ stage' = "timers"
  /\ after' = "next"
  /\ UNCHANGED <<server, scan, current, idleLeft, out>>

(* A timer that should be left over from an earlier connection runs on.    *)
Begun(timer) == [Fresh EXCEPT !.state = "reading", !.timer = timer]

Accepted ==
  /\ stage = "accept"
  /\ server.free # <<>>
  /\ LET c == Head(server.free) IN
       server' = AddFd([server EXCEPT !.free = Tail(@),
                                      !.conns[c] = Begun(@.timer)], c)
  /\ UNCHANGED <<stage, after, scan, current, idleLeft, out>>

(* The connections that need service, one after the other.  What a stale   *)
(* revents holds may be anything.                                          *)
ServeNext ==
  /\ stage = "next"
  /\ scan <= Len(server.watch)
  /\ scan' = scan + 1
  /\ LET entry == server.watch[scan] IN
       \/ /\ entry.fd # Listener
          /\ entry.revents \in {"in", "stale"}
          /\ current' = entry.fd
          /\ stage' = server.conns[entry.fd].state
       \/ /\ entry.fd = Listener \/ entry.revents # "in"
          /\ UNCHANGED <<stage, current>>
  /\ UNCHANGED <<after, server, idleLeft, out>>

EndOfRoundWithoutTimers ==
  /\ stage = "next"
  /\ scan > Len(server.watch)
  /\ stage' = "poll"
  /\ scan' = 1
  /\ server' = Unpolled
  /\ UNCHANGED <<after, current, idleLeft, out>>

EndOfRound ==
  /\ stage = "next"
  /\ scan > Len(server.watch)
  /\ stage' = "timers"
  /\ after' = "poll"
  /\ scan' = 1
  /\ server' = Unpolled
  /\ UNCHANGED <<current, idleLeft, out>>

----------------------------------------------------------------------------
(* handle_read.                                                            *)

Done(s) ==
  /\ server' = s
  /\ stage' = "next"
  /\ current' = 1
  /\ UNCHANGED <<after, scan, idleLeft>>

(* No data yet.                                                            *)
ReadNothing ==
  /\ stage = "reading"
  /\ Done(server)
  /\ UNCHANGED out

HasRoom == server.conns[current].reads < MaxReads

WithData ==
  [server EXCEPT !.conns[current].age = 0, !.conns[current].reads = @ + 1]

ReadMore ==
  /\ stage = "reading"
  /\ HasRoom
  /\ Done(WithData)
  /\ UNCHANGED out

(* End of the stream, an error, a request that fills the buffer or makes   *)
(* no sense: an error is sent, and the connection ends.                    *)
ReadFails ==
  /\ stage = "reading"
  /\ Done(ClearConnection(server, current))
  /\ UNCHANGED out

(* A request, whose client may go on sending (keep_alive, or a POST that   *)
(* is refused).                                                            *)
WithRequest(lingers) == [WithData EXCEPT !.conns[current].lingers = lingers]

(* It is answered without a file: an error, HEAD, a file that is not newer *)
(* or is empty.                                                            *)
RequestAnswered ==
  /\ stage = "reading"
  /\ HasRoom
  /\ \E lingers \in BOOLEAN :
       Done(ClearConnection(WithRequest(lingers), current))
  /\ UNCHANGED out

(* The bytes of the file that are wanted are from .. to - 1.  HTTP/0.9 has *)
(* no header in the answer, and no range in the request.                   *)
Request(size, header, from, to) ==
  [from |-> from, to |-> to, size |-> size, buflen |-> header,
   offset |-> from, end |-> to, position |-> from]

RequestFile ==
  /\ stage = "reading"
  /\ HasRoom
  /\ \E size \in FileSizes, lingers \in BOOLEAN :
       /\ \E from \in 0 .. size - 1 : \E to \in from + 1 .. size :
            \/ out' = Request(size, HeaderSize, from, to)
            \/ from = 0 /\ to = size /\ out' = Request(size, 0, from, to)
       /\ server' =
            [DelFd(WithRequest(lingers), current) EXCEPT
               !.conns[current].state = "sending"]
  /\ stage' = "sending"
  /\ UNCHANGED <<after, scan, current, idleLeft>>

----------------------------------------------------------------------------
(* handle_send and handle_linger.                                          *)

Reads == out.buflen < IoBuffer
Taken == IF Reads THEN Lesser(IoBuffer - out.buflen, out.size - out.position)
                  ELSE 0

(* read_buffer fills the buffer up; at the end of the file it says that    *)
(* the end is where offset is.  What is written counts into offset.        *)
SendBuffer ==
  /\ stage = "sending"
  /\ out.offset < out.end
  /\ out' = [out EXCEPT !.position = @ + Taken,
                        !.end = IF Reads /\ Taken = 0 THEN out.offset ELSE @,
                        !.offset = @ + out.buflen + Taken,
                        !.buflen = 0]
  /\ server' = [server EXCEPT !.conns[current].age = 0]
  /\ UNCHANGED <<stage, after, scan, current, idleLeft>>

SendFails ==
  /\ stage = "sending"
  /\ out.offset < out.end
  /\ Done(ClearConnection(server, current))
  /\ out' = NoFile

SendComplete ==
  /\ stage = "sending"
  /\ out.offset >= out.end
  /\ Done(ClearConnection(server, current))
  /\ out' = NoFile

LingerEnds ==
  /\ stage = "lingering"
  /\ Done(ReallyClear(server, current))
  /\ UNCHANGED out

LingerOn ==
  /\ stage = "lingering"
  /\ Done(server)
  /\ UNCHANGED out

----------------------------------------------------------------------------
(* tmr_run.                                                                *)

(* linger_clear_connection forgets the timer, which tmr_run cancels after  *)
(* it.                                                                     *)
LingerExpires(c) ==
  /\ stage = "timers"
  /\ server.conns[c].timer = 0
  /\ server' = ReallyClear([server EXCEPT !.conns[c].timer = NoTimer,
                                          !.conns[c].pointer = FALSE], c)
  /\ UNCHANGED <<stage, after, scan, current, idleLeft, out>>

Expired(conn) == conn.state \in {"reading", "sending"} /\ conn.age >= IdleLimit

(* idle: an error is sent to a connection that has been silent, and it is  *)
(* cleared; one that lingers has a timer of its own.  The connections are  *)
(* gone through one after the other.                                       *)
ClearIdle(s, c) == IF Expired(s.conns[c]) THEN ClearConnection(s, c) ELSE s

IdleBegins ==
  /\ stage = "timers"
  /\ idleLeft = 0
  /\ stage' = "idle"
  /\ UNCHANGED <<after, server, scan, current, idleLeft, out>>

Idle ==
  /\ stage = "idle"
  /\ server' = ClearIdle(server, current)
  /\ IF current < NumSlots
       THEN current' = current + 1 /\ UNCHANGED <<stage, idleLeft>>
       ELSE current' = 1 /\ stage' = "timers" /\ idleLeft' = IdlePeriod
  /\ UNCHANGED <<after, scan, out>>

TimersDone ==
  /\ stage = "timers"
  /\ idleLeft > 0
  /\ \A c \in Slot : server.conns[c].timer # 0
  /\ stage' = after
  /\ after' = "poll"
  /\ UNCHANGED <<server, scan, current, idleLeft, out>>

----------------------------------------------------------------------------
ThttpdMain ==
  \/ \E d \in 0 .. IdlePeriod : Poll(d)
  \/ NoMoreConnections \/ NotAccepted \/ Accepted
  \/ ServeNext \/ EndOfRound
  \/ ReadNothing \/ ReadMore \/ ReadFails \/ RequestAnswered \/ RequestFile
  \/ SendBuffer \/ SendFails \/ SendComplete
  \/ LingerEnds \/ LingerOn
  \/ \E c \in Slot : LingerExpires(c)
  \/ IdleBegins \/ Idle \/ TimersDone

TimePasses == \E d \in 1 .. IdlePeriod : Poll(d)

(* A connection that poll reports is there to be accepted, or there is     *)
(* none left to accept it with.                                            *)
ConnectionsCome == Accepted \/ NotAccepted

----------------------------------------------------------------------------
(* Free list, watched descriptors and timers agree with the states of the  *)
(* connections whenever a step of the server ends: a slot is on the free   *)
(* list once if it is free and not at all if it is not, poll watches the   *)
(* descriptors of the connections that read or linger once each, and a     *)
(* connection has a timer, to which it points, just while it lingers.      *)
Times(x, seq) == Cardinality({i \in DOMAIN seq : seq[i] = x})

SlotsAccounted ==
  \A c \in Slot :
    LET conn == server.conns[c] IN
    /\ Times(c, server.free) = (IF conn.state = "free" THEN 1 ELSE 0)
    /\ Cardinality({i \in DOMAIN server.watch : server.watch[i].fd = c})
         = (IF conn.state \in {"reading", "lingering"} THEN 1 ELSE 0)
    /\ (conn.timer # NoTimer) = (conn.state = "lingering")
    /\ conn.pointer = (conn.state = "lingering")

(* Every slot that is taken becomes free again, whatever its client does   *)
(* and however many others come: the idle timer and the linger timers are  *)
(* run in the end, though new connections go before them.                  *)
SlotsReturn ==
  \A c \in Slot :
    server.conns[c].state # "free" ~> server.conns[c].state = "free"

(* "The file transfer is complete": what was sent of the file is what was  *)
(* asked for.                                                              *)
FileComplete ==
  stage = "sending" /\ out.offset >= out.end => out.position = out.to

============================================================================
