----------------------------- MODULE EspSockets -----------------------------
(***************************************************************************)
(* A socket of the ESP8266 driver, src/netutils/esp8266: the worker thread *)
(* that reads the serial line of the module, the FIFO of the socket, and   *)
(* the task that uses it.                                                  *)
(*                                                                         *)
(* The sockets do not touch each other; the model has one of them, which   *)
(* is opened again and again.  The k-th byte of connection c is <<c, k>>.  *)
(* What the mutex of the worker guards is one step, but for a packet, in   *)
(* which the worker lets go of it while the FIFO is full.                  *)
(***************************************************************************)
EXTENDS Integers, Sequences

CONSTANTS
  FifoSize,       \* SOCKET_FIFO_SIZE
  WorkerBuf,      \* BUF_WORKER_LEN, bytes read from the line at once
  RecvMax,        \* bytes that lesp_recv is asked for
  MaxConns,       \* connections that are opened
  MaxBytes        \* bytes sent on each

VARIABLES
  link,           \* the module's connection, 0 when it has none
  arrived,        \* bytes that it has received on it
  uart,           \* what it has put on the serial line
  worker,
  sock,           \* the socket's structure
  task,           \* where the user of the socket is
  posts,          \* the semaphore of its lesp_recv
  conn,           \* the number of its connection
  got,            \* the bytes lesp_recv has handed over on it, ...
  lost,           \* ... and those dropped because the FIFO was full or the
                  \* packet was not read to its end
  late            \* a close has timed out with data under way

module  == <<link, arrived, uart>>
user    == <<task, posts, conn, got>>
espVars == <<module, worker, sock, user, lost, late>>

Idle == [at |-> "idle", conn |-> 0, byte |-> 0, left |-> 0, size |-> 0,
         open |-> FALSE, next |-> 0, stray |-> FALSE]

Closed == [used |-> FALSE, inndx |-> 0, outndx |-> 0, sem |-> FALSE]
Unlocked == worker.at # "packet"

Min(a, b) == IF a < b THEN a ELSE b

EspInit ==
  /\ link = 0 /\ arrived = 0 /\ uart = <<>>
  /\ worker = Idle
  /\ sock = [fifo |-> [i \in 0 .. FifoSize - 1 |-> <<0, 0>>], flags |-> Closed]
  /\ task = "out" /\ posts = 0 /\ conn = 0 /\ got = <<>>
  /\ lost = {}
  /\ late = FALSE

----------------------------------------------------------------------------
(* The module (external).                                                  *)

Receives(n) ==
  /\ link # 0
  /\ arrived + n <= MaxBytes
  /\ arrived' = arrived + n
  /\ uart' = Append(uart, [conn |-> link, byte |-> arrived + 1, len |-> n])
  /\ UNCHANGED <<link, worker, sock, user, lost, late>>

CloseLine == [conn |-> 0, byte |-> 0, len |-> 0]

PeerCloses ==
  /\ link # 0
  /\ link' = 0
  /\ uart' = Append(uart, CloseLine)
  /\ UNCHANGED <<arrived, worker, sock, user, lost, late>>

----------------------------------------------------------------------------
(* The worker.                                                             *)

Posted(n) == IF sock.flags.sem THEN n + 1 ELSE n

ClosedUncleared ==
  /\ sock' = [sock EXCEPT !.flags.used = FALSE, !.flags.sem = FALSE]
  /\ posts' = Posted(posts)

SetSockClosed ==
  /\ sock' = [sock EXCEPT !.flags = Closed]
  /\ posts' = Posted(posts)

ReadClosed ==
  /\ worker.at = "idle"
  /\ uart # <<>> /\ Head(uart) = CloseLine
  /\ uart' = Tail(uart)
  /\ SetSockClosed
  /\ worker' = Idle
  /\ UNCHANGED <<link, arrived, task, conn, got, lost, late>>

ReadIpd ==
  /\ worker.at = "idle"
  /\ uart # <<>> /\ Head(uart) # CloseLine
  /\ uart' = Tail(uart)
  /\ worker' = [Idle EXCEPT !.at = "packet", !.open = sock.flags.used,
                  !.conn = Head(uart).conn, !.byte = Head(uart).byte,
                  !.left = Head(uart).len]
  /\ UNCHANGED <<link, arrived, sock, user, lost, late>>

LowLevelRead ==
  /\ worker.at = "packet"
  /\ worker.size = 0
  /\ \E n \in 1 .. Min(worker.left, WorkerBuf) :
       worker' = [worker EXCEPT !.size = n, !.left = @ - n]
  /\ UNCHANGED <<module, sock, user, lost, late>>

Bytes(first, n) == first .. first + n - 1

(* In mid-packet a read fails, or brings nothing for a second, and the     *)
(* packet is given up.  What is left of it will be read as the beginning   *)
(* of a line (bound: as a line of no meaning) ...                          *)
FailedRead ==
  /\ worker.at = "packet"
  /\ worker.size = 0
  /\ worker' = [Idle EXCEPT !.stray = TRUE]
  /\ lost' = lost \cup Bytes(worker.byte, worker.left)
  /\ UNCHANGED <<module, sock, user, late>>

(* ... of which what the module puts on the line next may become a part,   *)
(* be it a packet or the end of the connection.                            *)
ReadAsText ==
  /\ worker.at = "idle" /\ worker.stray
  /\ uart # <<>>
  /\ uart' = Tail(uart)
  /\ lost' = lost \cup Bytes(Head(uart).byte, Head(uart).len)
  /\ worker' = IF Head(uart) = CloseLine THEN Idle ELSE worker
  /\ UNCHANGED <<link, arrived, sock, user, late>>

Onward ==
  worker' = IF worker.size = 1 /\ worker.left = 0 THEN Idle
            ELSE [worker EXCEPT !.at = "packet", !.byte = @ + 1, !.size = @ - 1]

StepAtEnd ==
  /\ Onward
  /\ posts' = IF worker.size = 1 /\ worker.left = 0 /\ worker.open
                THEN Posted(posts) ELSE posts

(* The byte is done with; the reader is posted after the last of a read.   *)
Step ==
  /\ Onward
  /\ posts' = IF worker.size = 1 /\ worker.open THEN Posted(posts) ELSE posts

Put(next) ==
  /\ sock' = [sock EXCEPT !.fifo[sock.flags.inndx] = <<worker.conn, worker.byte>>,
                          !.flags.inndx = next]
  /\ UNCHANGED lost

(* An index behind the end of the FIFO begins anew.                        *)
Cell(i) == IF i >= FifoSize THEN i - FifoSize ELSE i

NextIn == Cell(sock.flags.inndx + 1)

ReadByte ==
  /\ worker.at = "packet"
  /\ worker.size > 0
  /\ CASE ~worker.open -> Step /\ UNCHANGED <<sock, lost>>
       [] worker.open /\ NextIn # sock.flags.outndx -> Step /\ Put(NextIn)
       [] worker.open /\ NextIn = sock.flags.outndx ->
            /\ worker' = [worker EXCEPT !.at = "full", !.next = NextIn]
            /\ UNCHANGED <<sock, posts, lost>>
  /\ UNCHANGED <<module, task, conn, got, late>>

(* The index was computed before the mutex was let go.                     *)
FullAgain ==
  /\ worker.at = "full"
  /\ Step
  /\ IF worker.next # sock.flags.outndx THEN Put(worker.next)
     ELSE lost' = lost \cup {worker.byte} /\ UNCHANGED sock
  /\ UNCHANGED <<module, task, conn, got, late>>

----------------------------------------------------------------------------
(* The user.                                                               *)

(* lesp_socket leaves the indices as they are.                             *)
Socket ==
  /\ task = "out" /\ Unlocked
  /\ conn < MaxConns
  /\ ~sock.flags.used
  /\ sock' = [sock EXCEPT !.flags.used = TRUE]
  /\ task' = "created" /\ conn' = conn + 1 /\ got' = <<>> /\ lost' = {}
  /\ UNCHANGED <<module, worker, posts, late>>

Connect ==
  /\ task = "created" /\ Unlocked
  /\ IF sock.flags.used
       THEN link' = conn /\ arrived' = 0 /\ task' = "open"
       ELSE task' = "out" /\ UNCHANGED <<link, arrived>>
  /\ UNCHANGED <<uart, worker, sock, posts, conn, got, lost, late>>

Available ==
  LET n == sock.flags.inndx - sock.flags.outndx IN IF n < 0 THEN n + FifoSize ELSE n

(* The end of lesp_recv, with at most len bytes.                           *)
Taken(len) ==
  LET n == Min(len, Available)
      out == sock.flags.outndx
  IN  /\ got' = got \o [i \in 1 .. n |-> sock.fifo[Cell(out + i - 1)]]
      /\ sock' = [sock EXCEPT !.flags.outndx = Cell(out + n),
                              !.flags.sem = FALSE]

Recv ==
  /\ task = "open" /\ Unlocked
  /\ \/ ~sock.flags.used /\ task' = "out" /\ UNCHANGED <<sock, posts, got>>
     \/ /\ sock.flags.used /\ Available > 0
        /\ \E len \in 1 .. RecvMax : Taken(len)
        /\ UNCHANGED <<task, posts>>
     \/ /\ sock.flags.used /\ Available = 0
        /\ sock' = [sock EXCEPT !.flags.sem = TRUE]
        /\ posts' = 0
        /\ task' = "waiting"
        /\ UNCHANGED got
  /\ UNCHANGED <<module, worker, conn, lost, late>>

RecvWakes ==
  /\ task = "waiting" /\ Unlocked
  /\ posts > 0
  /\ posts' = posts - 1
  /\ IF Available = 0 THEN UNCHANGED <<task, sock, got>>
     ELSE task' = "open" /\ \E len \in 1 .. RecvMax : Taken(len)
  /\ UNCHANGED <<module, worker, conn, lost, late>>

RecvTimeout ==
  /\ task = "waiting" /\ Unlocked
  /\ posts = 0
  /\ sock' = [sock EXCEPT !.flags.sem = FALSE]
  /\ task' = "open"
  /\ UNCHANGED <<module, worker, posts, conn, got, lost, late>>

(* lesp_closesocket: the module tells that it has closed and then answers, *)
(* after all that it has put on the line before ...                        *)
AskClose ==
  /\ task = "open" /\ Unlocked
  /\ IF sock.flags.used
       THEN /\ task' = "closing"
            /\ link' = 0
            /\ uart' = IF link = 0 THEN uart ELSE Append(uart, CloseLine)
       ELSE task' = "out" /\ UNCHANGED <<link, uart>>
  /\ UNCHANGED <<arrived, worker, sock, posts, conn, got, lost, late>>

Quiet == uart = <<>> /\ worker.at = "idle"

(* ... or the answer is not awaited any longer.                            *)
CloseSocket ==
  /\ task = "closing" /\ Unlocked
  /\ SetSockClosed
  /\ task' = "out"
  /\ late' = (late \/ ~Quiet)
  /\ UNCHANGED <<module, worker, conn, got, lost>>

Work ==
  \/ ReadClosed \/ ReadIpd \/ LowLevelRead \/ FailedRead \/ ReadAsText
  \/ ReadByte \/ FullAgain

EspNext ==
  \/ \E n \in 1 .. MaxBytes : Receives(n)
  \/ PeerCloses
  \/ Work
  \/ Socket \/ Connect \/ Recv \/ RecvWakes \/ RecvTimeout \/ AskClose \/ CloseSocket

----------------------------------------------------------------------------
(* What lesp_recv hands over is what was sent on this connection, in       *)
(* order, nothing of an earlier connection and nothing twice, and without  *)
(* a gap but for the bytes dropped at a full FIFO and those of packets     *)
(* that the worker lost; in the end nothing else is missing.               *)
Missing(k) == k \notin lost /\ \A i \in DOMAIN got : got[i] # <<conn, k>>

ReceivedAsSent ==
  /\ \A i \in DOMAIN got : got[i][1] = conn /\ got[i][2] \in (1 .. arrived) \ lost
  /\ \A i, j \in DOMAIN got : i < j => got[i][2] < got[j][2]
  /\ \A i \in DOMAIN got : \A k \in 1 .. got[i][2] : ~Missing(k)
  /\ task = "open" /\ sock.flags.used /\ Quiet /\ Available = 0 =>
       \A k \in 1 .. arrived : ~Missing(k)

(* A task does not sleep in lesp_recv over data that has come.             *)
NoSleepOverData ==
  task = "waiting" /\ Unlocked /\ sock.flags.used /\ Available > 0 => posts > 0

(* A user of a socket reads what the worker has read for it in full, no    *)
(* other connection's and none twice, and never sleeps over it, wherever   *)
(* the worker was cut off in earlier packets (esp8266.c).  Not so once     *)
(* a close has timed out with data under way: the worker holds on to the   *)
(* socket, and goes on with an index of before.                            *)
SocketReads == ~late => ReceivedAsSent /\ NoSleepOverData

============================================================================
