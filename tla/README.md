# TLA+ models of the seer DIO board firmware

The repository is the firmware of a robot's I/O board: a NuttX application on a
single-core STM32F4. A host (the robot's computer) talks to it over UDP; it
drives up to four wheel motors over CAN, integrates odometry from their
encoders, decodes a gyro on a UART, and reports all of it to the host.

The repository also carries the libraries the board was built with: protocol
buffers, which every message to and from the host is written in, and the NuttX
network utilities.

This directory holds TLA+ models of the firmware's own logic and of those
libraries, TLC configurations that check them on small instances, and TLAPS
proofs of the firmware's safety properties, and of some of the libraries', for
every value of their constants.

## The system

`User/main.cxx` (`seer_main`) brings the network up and creates one task per
job. Priorities are fixed (`User/TasksPriority.h`), scheduling is preemptive:

| task | prio | wakes on | shared state it touches |
|---|---|---|---|
| config (`task_config.cxx`) | 7 | UDP 5003 | `_configBuffer`, gyro |
| command dispatch (`task_commanddispatch.cxx`) | 6 | UDP 15003 | receive buffer, speed command, driver object, odometry parameters, gyro mutex, time |
| chassis (`task_chassis.cxx`, `chassis.cxx`) | 5 | `cmdSem`, 10 ms timer signal, CAN | speed command, flags, driver object, odometry |
| gyro (`task_gyro.cxx`, `Gyro.cxx`) | 4 | UART `/dev/ttyS1` | decoder globals, gyro mutex, report buffer |
| DIO (`task_DIO.cxx`, `DIO.cxx`) | 3 | sleep | report buffer |
| LED (`task_heartled.cxx`) | 2 | sleep | none |

A task of higher priority may preempt a lower one between any two statements;
a lower one runs while the higher ones block. The device objects are singletons
made with `new`; several members are never initialised.

### Components, their state and their operations

**Chassis task.** State: the flags `bNewSpeedCmd` and `bOdoCmd`, the semaphore
`cmdSem`, the command `ori_global_X/Y/W`, the result slots `_retVal`, the
position in the loop. The dispatch task stores a command, raises a flag and
posts. A POSIX timer signals the chassis task every 10 ms; its handler raises
the other flag and relies on `EINTR` to end the `sem_wait`. The task writes one
frame per wheel and counts one reply per wheel; the timer signal may end that
read too. Correct: no speed command is slept over, lost, or left torn at the
wheels; odometry is never cut off; a complete query is made of this query's
answers.

**Bring-up.** State: brand, driver object, chassis type, `m_param_inited`,
`openSem`, CAN descriptor, the static counter of `getInitMsg`. `0xA004`
(re)creates the driver and starts the chassis task; `0xA005` writes motor
identifiers into it. Both run in the dispatch task while the chassis task uses
the same object. Correct: no call through a null or deleted driver, all wheels
addressed and initialised, and the chassis starts.

**Reporter base.** State: one static mutex, one static buffer, a socket per
instance. Gyro, odometry and DIO reports copy, encode and send under the mutex,
but an instance without a socket initialises the mutex first, which forgets who
holds it and who waits for it. Correct: the reports never stop altogether, and
in the end they exclude each other and send their own bytes.

**Gyro frame decoder.** State: buffer, write index, header flag. Correct: no
store outside the buffer, a frame is routed once, every good frame is found
whatever came before it, and nothing is made up from the rest of an older one.

**Gyro device.** State: `gyro_mut`, `bInited`. The gyro task holds the mutex
across a blocking read; dispatch (`0x101A`) and config (`EGyroCalibration`)
lock it too.

**Command dispatch.** State: the receive buffer, which is also the reply.
Correct: nothing left in the buffer is run again, and an answer tells what
happened.

**Odometry.** State: baseline `static_p`, `firstIn`, pose, last increment. The
chassis task integrates, `0xA005` resets in the dispatch task.

**CAN driver protocols.** No state but the wheels' identifiers. `encode` and
`decode` turn speeds and positions into frames; `setVelocities` and
`getPositions` turn signs for mounting and brand. Correct: what odometry reads
back is what was commanded.

**Config task, SNTP client, DIO and LED tasks**: see `PROJECT.json`, which lists
every component and whether it is modelled, and every hazard at the line where
it bites.

**Protocol buffers** (`src/protobuffer`). State: a stream and the message being
filled. Correct: a message decodes to what the host meant, and encodes to what
the board holds.

**Network utilities** (`src/netutils`). Each is a program or a library of its
own and shares nothing with the others: a telnet library, a DHCP client and
server, a TFTP client, a driver for a WiFi module (ESP8266) on a serial line, two
web servers (thttpd and uIP's), an NTP daemon, a PPP client, an FTP daemon, an FTP
client, a JSON library, codecs, chat scripts, a mail client, a discover daemon, a
telnet daemon and an XML-RPC server. Their sections below say what state each keeps and what makes it
correct. They are where the repository has timeouts, retries, lost and repeated
messages, worker threads and restarts.

### What is hard here

- preemption between test and clear of a flag, between the words of a command,
  inside a method of an object another task deletes;
- a signal that interrupts `sem_wait` or `read`, or neither;
- replies that outlive the request they answer;
- retries by the host (it repeats a configuration whose answer was lost);
- a mutex initialised again while it is held;
- a buffer nobody clears; an equality test on a clamped index;
- negotiations that cross, answers that come after their question was given up,
  datagrams that are lost, repeated or reordered, peers that restart;
- an index kept over an unlock, one semaphore that counts for two conditions,
  lists and timers that must agree on who is alive;
- a reset in the middle of the function that caused it;
- replies without a number, which the next command takes for its own.

## Modules

| module | models | proofs |
|---|---|---|
| `Chassis` | `chassis.cxx`, loop of `task_chassis.cxx` | `ChassisProofs` |
| `BringUp` (`MCBringUp`) | `setProtocol`, `setStart`, `doInit`, `initializeParam`, `getInitMsg` | `BringUpProofs` |
| `Reporter` (`MCMutexes`) | `Reporter.cxx` and the three `report()` | `MutexProofs` |
| `GyroDecoder` | `Decode_frame`, `UART2_CommandRoute`, `Sum_check` | `GyroDecoderProofs` |
| `CommandDispatch` (`MCCommandDispatch`) | loop of `task_commanddispatch.cxx` | `CommandDispatchProofs` |
| `Odometry` | `doCalc`, `reset`, `report` of `Mileage.cxx` | `OdometryProofs` |
| `SpeedRegister` | what `Chassis` promises its host | refinement in `ChassisProofs` |
| `WheelDrive` | `setVelocities`, `getPositions`, `encode`, `decode` | `LibraryProofs` |
| `CanDrivers` | the protocols of `src/DriverProtocol`, built or not | |
| `GyroAccess` (`MCMutexes`) | `gyro_mut`: `doInit`, `rcvFrame`, `doCalibration`, `gyroCmdDispatcher`; `task_config.cxx` | `MutexProofs` |

| library module | models (P: proofs in `LibraryProofs`, S: in `SessionProofs`) |
|---|---|
| `Protobuf` | `pb_decode.c`, `pb_encode.c`, `pb_common.c` |
| `TelnetOptions` | RFC 1143 negotiation of `telnetc.c`, both ends (P) |
| `TelnetStream` | the rest of `telnetc.c`: sending, and the receiver's state machine (S) |
| `Dhcp` | `dhcpc.c` and `dhcpd.c` together |
| `Tftp` | `tftpc_get.c`, `tftpc_put.c`, `tftpc_packets.c` (P) |
| `EspSockets` | `esp8266.c`: worker thread, FIFO of a socket, its user (P) |
| `EspCommands` | `esp8266.c`: commands, answers, sending (P) |
| `Thttpd` | `thttpd.c`, `fdwatch.c`, `timers.c`, the connections of `libhttpd.c` (P) |
| `HttpRequest` | `httpd_got_request`, `handle_read` (S) |
| `HttpAnswer` | `httpd_get_conn`, `httpd_parse_request`, `httpd_start_request`, `send_mime`, `create_environment` |
| `NtpDaemon` | `ntpclient.c` |
| `Ppp` | `pppd.c`, `ppp.c`, `lcp.c`, `ipcp.c`, `pap.c`, `ahdlc.c` |
| `FtpServer` | a session of `ftpd.c` (S) |
| `FtpClient` | `src/netutils/ftpc`, against a server that keeps to RFC 959 |
| `Json` | `cJSON.c`: items, lists and text |
| `JsonLists` | what `Json` promises its user; `Json` implements it |
| `Codecs` | `urldecode.c`, `base64.c`, `md5.c`, the address conversions of `netlib` |
| `Chat` | `chat.c` |
| `Smtp` | `smtp.c`, against a server that may refuse or close |
| `Discover` | `discover.c` (S) |
| `Telnetd` | `telnetd_daemon.c` (S) |
| `WebServer` | `src/netutils/webserver` and the accept loop of `netlib` |
| `XmlRpc` | `xmlparser.c`, `response.c` |
| `NetLibraries` | instances of the wheel and the ten library modules with proofs, and their properties |
| `MCLibraries` | lets TLC run them all, one at a time |

`PROJECT.json`, `map`, names the source lines of every definition. Some
definitions of the modules are not the model's: `SemPostMissing`, `NoClamp`,
`SetProtocolAlways` and their like stand before the definition they vary and
state what a plausible slip in that code would do. `PROJECT.json`, `mutants`,
says which property fails when which of them takes the place of the definition.

### Chassis

One action per statement of the chassis task that touches shared state: `pc`
is the statement. `ChassisCmdHandler` is one step because the dispatch task has
the higher priority and does not block between its stores and the post.
`TimerExpiration` may come at any moment; it ends a blocking `sem_wait`
(`InSemWait`) or `read` (`InRead`) after its handler has run. Frames are
abstract (type, and whether they belong to the query in progress); the bus
holds `TxDepth` frames per motor and the driver `RxFifo` replies, and drops
what does not fit. A velocity has two components because the differential
kinematics use two.

Two booleans name what the board's surroundings decide:

- `EintrVisible`: an interrupted `read()` returns `EINTR` (NuttX drivers of
  that age return it through) or -1 with `errno`;
- `Unreliable`: a motor may leave a frame unanswered or abort it.

`SpeedRegister` is what all of this amounts to for the host: a register of one
command. A command overwrites the last; the motors are driven one at a time in
passes; only a command that still waits for a pass may find the motors at
something else. The mapping (`Register` in `Chassis`) takes the flag together
with the copy in progress for `waiting`, and the last speed on its way to each
motor for `out`.

### BringUp

The dispatch task's handlers are one step each, for the same reason. The
chassis task enters and leaves a driver method in two steps (`EnterDriver`,
then `GetInitMsg` or `Encode`): in between `inUse` says whether the object is
still there. A fault stops the model, as it would the board. `heard` and
`faithful` are history: whether the host has so far kept to one supported
configuration, in the order 0xA004, 0xA005, with enough drives. The properties
are promises to such a host and to no other; repeating a message, at any time,
is always allowed to it. Without that condition they are false: a change of
brand deletes the driver under the running task, 0xA005 first calls through
null, and a `_protocol` byte that happens to equal the brand at power-up (the
member is never initialised) leaves the driver null.

### Reporter

`report()` of one task is at most eight steps. The mutex is NuttX's: the count of
a semaphore, and a holder, whom a woken thread enters only when it runs again
(`woken`). `pthread_mutex_init` (`Reporter.cxx:19`) sets both, whoever is inside
and whoever waits: the count no longer knows the tasks blocked before, so that no
unlock wakes one of them unless a further task waits, which is then overlooked in
its place. The same happens to `gyro_mut`. An unlock wakes the waiter of the
highest priority; the model lets it be any. `OwnerChecked` is NuttX's
`CONFIG_PTHREAD_MUTEX` choice: whether an unlock by a thread that does not hold
the mutex is refused. The buffer is two facts, whose code and whose body it
holds.

What can be promised then is that the three tasks never come to wait all of them
(`ReportsGoOn`); that an overlap never comes back once all sockets are open and the
semaphore is as it should be (`StaysSettled`); and that it comes to this unless a
task is overlooked for ever (`EventuallySettled`), which one or two of them may be.
Its specification is named `ReporterSpec`, and so on, because
`MutexProofs` extends it together with `GyroAccess`.

### GyroDecoder

`After`, `Completes` and `Routed` are the decoder as functions of a state and
a byte; `DecodeFrame` applies them. An announced length of 1 makes the sum be
compared with the byte before the buffer; the model takes either outcome.
`routes` is history for `RoutedOnce`, and so are `frame` and `over` for
`FramesRouted`: the bytes since the last A5 5A, which `Came` collects without a
look at what the decoder makes of them. Inside the methods `rx_buffer`,
`rx_wr_index` and `RC_Flag` are the members of `CGyroDevice` (`Gyro.h:82-84`),
not the variables of the same names at the top of `Gyro.cxx`; `rx_buffer` has no
initialiser, so it starts with any of `HeapBytes`.

### CommandDispatch

Words of the buffer are kept in halves, so that a datagram of two bytes
overwrites one. `destport` is never written, so the branch that answers an NTP
server is dead; the query itself, which `0x1013` sends, is modelled with its flag:
`isWaitingForReply_` goes up with the first query and nothing ever clears it.
What the other handlers do is in the other modules; here they only return.

### Odometry

The kinematics of a `DOUBLE_DIFF` chassis are linear in the wheels' increments
up to the heading, so the pose is kept as what it has taken from each wheel,
modulo the width of the counters: `pos` for `m_x` and `m_y`, `ang` for
`m_angle`. Scaling, sine and cosine are left out, and so are the velocities of
the report and its time stamps. What `doCalc` does before it adds shares only
`firstIn` with the reset and is one step (`Baseline` or `Filter`): a reset
anywhere in it has the effect of one just before or just after. The two
additions are steps of their own, and the reset of `0xA005`, which runs in the
dispatch task, may come between any two of them or between the load and the
store of one (`survives`). History variables say where each wheel was at the
last sample (`known`) and at the baseline of the pose (`origin`), how many
positions were corrupted (`noise`; the slots that nothing initialised count as
one), and whether increments were added after a reset (`raced`).

`PoseWhole` and `NoiseBounded` are about poses that no reset raced with. After
such a race the model shows what the code does: the pose keeps the increments
of the old one, or one component survives, until the next reset; `AddPosition`
and `AddAngle` do not look at `firstIn`.

### GyroAccess

The mutex is NuttX's counting semaphore, modelled from outside the repository:
an unlock hands it to the waiter of the highest priority. The gyro task holds it
from before the blocking read until the last byte is decoded. `Garbage` is what
the uninitialised semaphore may hold; a client that locks it then (`early`) may
get in, block for ever or share the device, and no property but `TypeOK` and
`CalibrationReady` speaks of that case. `main.cxx` starts the config and
dispatch tasks before the gyro task and gives them higher priorities, so the
case is possible. `_configBuffer` is two words; a datagram overwrites none, one
or both of them. Every gyro command of the dispatch task is only printed, and
every configuration but the calibration only builds a reply.

### WheelDrive

One wheel, for every number of wheels, index, mounting and brand. Numbers go
through frames byte by byte, in bytes of `Base` values, with the sign and the
width of the code; the driver at the other end takes a speed as its manual says
and counts its encoder in the same width. Speeds come in halves, because
`setVelocities` rounds. A chassis of one wheel is left out: `setVelocities` has no
case for it and sends what `m_vel` happens to hold.

### CanDrivers

All protocols, each with the motor drivers it speaks to, on one bus. A protocol
opens its motors and then sends rounds of commands, one frame to each motor;
answers come in any order. MingZhi's brings its motors into operation by messages
that take the place of commands, counted by one counter for all of them, and again
when a motor says that it has restarted. A number is four bytes of `Base` values.

Met on the way, outside the property or within what it grants: Castd and Keya add
0.5 whatever the sign, so that a negative speed is off by up to a unit and a half;
RL's `decode` returns true on an error, and answers a speed command as a state;
HLS's `encode` ends in `seer_assert(false)`; MingZhi's counter takes the number of
wheels when the program is loaded. The `.cpp` drivers are not in the Makefile. The
answers to the start messages, error codes and emergency buttons are left out.

### Protobuf

A schema with a field of every kind the board's messages use stands for all of
them. A host writes records in any order, repeats, splits and packs them, and
knows more fields than the board; a datagram brings a beginning of them. Bytes
have three bits (two in a varint) and the integers are as narrow in proportion,
so that a negative `int32` in its five-byte and ten-byte forms, and both ends of
each width, are within reach. `Meaning` says what the records mean, without
bytes; decoding is compared with it.

What the model shows besides: a tag cut short ends a message as if it were
complete (`pb_decode.c:258-262`), so does a tag of 0, and the wire type of a
scalar field is not checked against the field's.
`pb_check_proto3_default_value` looks at the first item of an array only; a
submessage whose sole content is such an array is not sent.

### TelnetOptions and TelnetStream

`TelnetOptions` has one option, both ends, and the TCP streams between; requests
of the applications may come at any moment. An end that asks for DO again before
its DONT is answered takes the WONT for the answer to the second request and
waits for ever (`reversed`); the property excepts that sequence.
`TelnetStream` hands the receiver its input in pieces of every size. Two inputs
are beyond it and are named: a subnegotiation longer than the largest buffer,
whose rest is taken for data, and an MCCPv1 sequence (`COMPRESS WILL SE`) split
before its last byte.

### Dhcp

One server and its table, clients that all use the same transaction identifier,
a host with a client of another make, and a network that loses datagrams; the
server may restart and forget its table at any moment. `dhcpd_leaseexpired`
says of a lease that it has expired exactly when it has not, which is what
run `dhcp_twice` shows with two clients. With one client nothing comes of it,
and `ClientBound` holds.

### Tftp

Requests may be repeated, so that several sessions, on ports of their own,
answer one transfer, and the file may change between them. Failure is always
allowed to a transfer, success is what the property speaks of. The model shows
what the property does not ask: `tftpget` never acknowledges a block again, so
one lost acknowledgement ends the transfer after three tries; it takes the
server's port from any host; the port test of `tftpput` compares a value with
itself. Block numbers wrap at 65536, beyond the files of the model.

### EspSockets and EspCommands

`EspSockets` follows one socket through opening, receiving and closing, against
the worker that reads the serial line. `lesp_read_ipd` lets go of the mutex while
the FIFO is full and goes on with the index it had; a close that times out with
data under way (`late`) then lets bytes of one connection into the next, or a
reader sleep over what the worker put there for another, and the property
excepts it. That nothing is missing is said of the moment when line, worker and
FIFO have nothing left, and of the bytes the worker has not dropped. It drops a
byte that finds the FIFO full, and all that is left of a packet when a read fails
or times out in the middle of it: `lesp_read_ipd` then returns -1
(`esp8266.c:503-507`), and the worker reads the rest as lines of text (`stray`). That
rest means nothing as text (a bound of the model: payload that reads like an
answer or an announcement is left out), but the line it breaks off in may end with
the announcement of the next packet, or the close, that follows it; these are then
swallowed with it. `lost` has the bytes dropped, and `SocketReads` says that no others are
missing, whatever was dropped before them.

`EspCommands` has the two buffers through which worker and task exchange lines.
Answers carry no name. `lesp_flush` before each operation keeps a late answer out
of it, but waits only for 100 ms of silence (`esp8266.c:730-738`), whatever the
module still owes. In the model it may end at any moment, and `overdue` says that
it ended too early: the operation may then take an earlier one's answer for its own
and be reported done though the module never did it. `ReportedDone` excepts
that operation, and no other: one before which the flush saw out all that was owed
is reported rightly, whatever went wrong earlier.

Met on the way, outside the properties: the peer's `CLOSED` frees a socket under
its user, with the data it has not read; `lesp_connect` unlocks a mutex it has
not locked when `lesp_check` fails; `lesp_flush` has no bound under a steady
stream of lines; `lesp_soft_reset` repeats `ATE0` for ever with the mutex held.

### Thttpd, HttpRequest and HttpAnswer

One action per pass through a stage of the loop (`stage`): wait, accept, serve
the next descriptor, read, send, linger, timers; the timer that looks for idle
connections (`idle`) looks at one connection in a step. Descriptors and timers are
lists that the code edits in place; the model keeps their order, because
deleting an entry moves the last one into its place and may make `next` skip it
for a round. A file is sent to its end in one go; a peer that stops reading
blocks the server inside `httpd_write`, so the case `SENDING` of `idle` never
occurs. `HttpRequest` has the scanner of a request's end, fed in pieces. A line
ended by LF CR LF, and a blank behind the second word of a two-word line, are
not recognised and are outside its inputs.

`HttpAnswer` has what is made of a request: the slot of a connection, `hc`, is
set back and filled again for each client, and the answer is made from it and
from the files. A path is the sequence of what stands between its slashes; the
chain of checks of `httpd_parse_request` is a chain of functions that a refusal
passes through unchanged. `AnsweredAsAsked` compares each answer with what its
request means by itself, so that nothing of an earlier request can be in it.
Names that begin with a dot are outside its inputs (`expand_filename` takes the
dot off), and so is a directory asked for with an empty query.

Met on the way: a file that is not there is answered 500 and not 404; of several
`Accept-Encoding` headers only the last is kept; the header of a partial answer
does not fit into the default buffer of 256 bytes, and `add_response` cuts it;
passwords and the referer check do not compile.

### NtpDaemon

The daemon, in the steps between which the scheduler is unlocked, and one task
that starts and stops it. The semaphore counts for both calls, daemons that end
on their own post too, and the wake-up signal is lost on a daemon that is not
waiting. A server name that does not resolve ends the daemon without a word
(`ntpclient.c:379`): `unresolved` names that case. With two tasks that call,
an `ntpc_stop` during `ntpc_start` is overwritten by the daemon's
`state = NTP_RUNNING`; the model has one.

### Ppp

`pppd` against a peer that keeps to RFC 1661 on a line that loses frames, with
and without chat scripts (with them a reconnection is a new call), and with
peers that want PAP or options `pppd` does not know. A context is a record, and
each function of the code is a function from a context to the next one, so that
`ahdlc_tx`, which may reconnect in the middle of whatever was to be sent, returns
a reset context to a caller that goes on with it. `Mishap` loses a frame, ends
the link from the other side or refuses a request, `MaxMishaps` times;
`TimersRunOut` lets the five seconds pass, and a peer whose answer takes as long
is a mishap too.

What the model shows about the code: the end of a request's retries,
`state &= TIMEOUT`, clears every flag and sets none, so `ppp_check_errors` never
sees it; a request of the peer answered in the reconnecting `ahdlc_tx` leaves
`LCP_RX_UP` in the context that was just reset; a half-open link (`IPCP_TX_UP`
without `IPCP_RX_UP`) is only ended by the six hours of `PPP_IP_TIMEOUT`, which a
peer that sends IP packets holds off for ever; an IP packet that has come is
overwritten when a request is built in the same buffer before `pppd` passes it
on; a PAP request holds neither the name nor the password
(`bptr = memcpy(bptr, ...)`), so that PAP never succeeds.

### FtpServer

One session, from the first `USER` to the end, with the daemon's accounts or
without any. Paths are sequences of nodes, and `Strip` does to them what
`pathignore` and `node2path` do: a `..` takes the last node that still counts, and
at the root nothing. `SessionSound` holds because `home` and `work` are only ever
changed together. The data connection is counted, as sockets are lost easily when
a `PASV` listens, is replaced, or is accepted. Transfers go through the file
system step by step, so that each step may fail. Met on the way, outside the
property: `restartpos` outlives the transfer it was meant for, `RNTO` leaves the
old name for the next one, only the first of several lines received at once is
executed, and `SIZE` in ASCII mode answers more than once for what is no file.

### FtpClient

A session of the client, its server, and one file on each side. The client waits
for every reply, so a call is one step, and what the server, the network and the
local file do in it are the outcomes it may have. Each function takes a session to
the set of the sessions it may end in, with its result in `ok`, so that the
module reads as the code does: `Get` is `RecvInit`, `Receive`, `Finish`. Replies
wait in `inbox`; `InStep` says that none is left when a call returns, that what
the client keeps of the server (directory, type, what it can do) is true, and that
a get that succeeds has fetched the file. Mutant: the final reply of a transfer is
left unread, and every later command takes the reply before it.

Assumed: the user logs in before its other calls, and gives up a session that has
left a transfer unread (`abandoned`); a reply that comes too late ends the wait as
an end of the stream does. The property asks nothing after these: when `fopen` or
`fseek` fails after the server's mark, or `ftpc_xfrabort` finds a reply waiting
(it says "flush cmd channel" and reads the data stream), the replies of the
transfer stay unread. Nor of a call that does not return (`stuck`): the result of
`STOR` is not looked at, so that a refused `STOR` writes where nobody reads or, in
active mode, waits in `accept` for ever, as any transfer does there that the server
answers with 425.

Met on the way, outside the property: code 500 passes as a success (`> 500`), and
so does a final 426 or 451, so that a file cut short is reported as fetched; a
reply of several lines that breaks off counts as a reply; a login answered with 332
counts as one; `ftpc_listdir` lists the current directory when it cannot change to
the one asked for, and dereferences null before a login; resuming a get into no
file takes the offset from the stack; offsets of text are counted in bytes of
either side; the listener of an active transfer is never closed.

### Json and JsonLists

`Json` has the heap of cJSON: items with `next`, `prev`, `child`, a name and the
reference flag, and every operation edits them pointer by pointer. `JsonLists`
says the same without pointers: an item has a list, and an operation changes the
lists its name speaks of and frees what it is told to. `ListsKept` is that
specification, under the mapping that reads each item's list from the heap. So a
link that an operation forgets shows when a later one follows it, and an item
that is lost or freed twice shows at once. Texts are parsed into the same heap, with
the parser's failures, which have to give back what they took, and `Transfer`
prints a value, deletes it and parses its text, which has to mean the same.

A string belongs to the item that was made with it or parsed; a reference copies the
pointer `valuestring` (`cJSON.c:1098`), as it copies `child`, and `cJSON_Delete` leaves
both alone in a reference (`cJSON.c:1142`). An item has the pointer
(`valuestring`), a string its characters (`text`, `NoText` once freed); an item
whose string is freed under it shows as a value that `JsonLists` does not have.

The user keeps to what the library asks of it and does not check: an item is
added to one place, and not below itself; a list that a reference shows is not
changed, and an item in it, or one whose string or list it shows, not deleted,
while the reference lives. Met on the
way, outside the property: `cJSON_ReplaceItemInObject` loses the name the new item
may have had; an empty object is printed by way of `malloc(0)`, which may return
null; the halves of a surrogate pair are put together with `|` where the offset
has to be added; a text may end within a string, or go on behind its value.

### Codecs

What one function writes another reads back: URL and base-64 text, URLs, hardware
addresses, netmasks. MD5 is its buffering: a message comes in pieces of any length
and is fed in whole blocks, whose bit count carries from a low into a high word
(`LowMax`); the digest is kept as the blocks it was made of. Not modelled:
`MD5Transform`, malformed escapes, and `netlib_prefix2ipv6netmask`, which is wrong.
`netlib_parsehttpurl` does not end for a host longer than its buffer, and its inputs
stay below that.

### Chat

A script is taken apart as text, then followed line by line. The time for an answer
may be over at any moment, with a character of it or without. `ScriptFollowed` holds
against everything the other end may say; what it grants is what the code does: a
character read as the time ends makes the wait succeed (`chat.c:506`), and a
character that breaks off a match is not tried as the first of the next, so that
"OK" is missed in "OOK". Met besides: the test of `ECHO`'s argument is turned round
and sees the end of its line; `\c` counts only at the end of a script; `TIMEOUT 0` does
not wait; an empty script's list of tokens is not initialised (left out).

### Smtp, Discover and Telnetd

`Smtp` sends mails over one handle, each over a connection of its own, to a server
that refuses, accepts or closes at any step. Replies are assumed whole: one in two
pieces puts the client a reply ahead for good. Met on the way: the header of the
second receiver says `To:`; no line is dot-stuffed; short sends are not checked;
`smtp_send` may report an error for a mail that was accepted.

`Discover` answers requests, whole or in part. `nbytes` is not checked, so that a
short datagram is completed by the bytes of the request before it and answered; the
property speaks of whole packets. A second `discover_start` rewrites the shared
state and is not modelled.

`Telnetd` starts daemons one after the other, each handed its configuration through
one variable, and follows the descriptors of daemon and sessions. Met on the way:
`ndaemons` is never incremented, so that each start initialises `startsem` again;
after a failing driver or `task_create` descriptors stay open until the daemon ends,
and `g_telnetdcommon.daemon` then points to what was freed.

### WebServer

Requests come in blocks cut anywhere but between a CR and its LF, and are answered
from a list of files or a file system, with scripts and functions; a connection may
be kept. Met on the way: a CR at the end of a segment gets 400 or worse; after a
lost connection (status -1, which is not 400 or more) the last file is sent once
more; the build with mmap sends headers and no body; a second request in the same
block is swallowed; the name that replaces "/" is copied without its end, so that
the tail of an earlier name stays; names and types match by their beginning;
scripts with `SENDFILE` would go through null; `single_server` may close a
descriptor twice.

### XmlRpc

Documents in one line or many, cut or hurt, are parsed; the function they name is
called with its arguments, and its response or a fault is built with its length.
Met on the way: `xmlrpc_insertlength` leaves a blank inside a length of 1000 or more
with no hundreds; `xmlrpc_parsemethod`'s result is ignored; blanks of indentation are
taken for values; more than `MAX_ARGS` arguments overflow, and a cut tag is read
past the end of the document (both left out).

## Runs

| run | module and properties | bounds |
|---|---|---|
| `chassis_safety` | `Chassis`: `NoLostWakeup`, `SpeedSettled`, `ImplementsRegister`, unreliable bus | 2 wheels, 2 values per component, posts saturate at 2, 1 frame per motor, FIFO of 2 |
| `chassis_live` | `FinalSpeedDriven`, `OdoServed`, motors that answer late or never, interrupted read is -1 | 2 wheels, posts saturate at 1, 1 frame per motor, FIFO of 2 |
| `chassis_query` | `FullQueryResponse` violated on a slow bus | 2 wheels, FIFO of 6 |
| `bring_up` | `BringUp`: `NoFault`, `WheelsAddressable`, `AllWheelsInitialised`, `EventuallyRuns` | six configurations: each kind of brand, 0 to 4 wheels |
| `mutexes` | `MCMutexes`: of `GyroAccess` `Exclusive`, `CalibrationReady`, `ClientServed`, `DecoderRuns`; of `Reporter` `ReportsGoOn`, `StaysSettled`, `ReportsSettle` | the three tasks of the firmware around each, 3 initial counts; owner checked |
| `gyro_decoder` | `GyroDecoder`: `RoutedOnce`, `FramesRouted` | buffer of 5, 7 byte values, 2 of them on the heap |
| `dispatch` | `CommandDispatch`: `AnswerTellsServed`, `NothingReplayed` | 9 command words, 2 arguments |
| `dispatch_unknown` | `CommandDispatch`: `UnknownAnsweredZero` violated | as `dispatch` |
| `odometry` | `Odometry`: `PoseWhole`, `NoiseBounded`, `FilterRecovers` | counters modulo 10, limit 2, steps of 1 over 3 positions around the wrap, 1 corrupted position (`MaxNoise`) besides the uninitialised slots, 1 reset that finds `doCalc` at work (`MaxHits`) |
| `libraries` | `MCLibraries`: the properties of all library modules, see below | below |
| `dhcp_twice` | `Dhcp`: `NoAddressTwice` violated | 2 clients |
| `http_file` | `Thttpd`: `FileComplete` violated | a file of 4 units |

The two mutexes share no state: each behaviour of `mutexes` is one of the tasks around
one of them, the others resting, and `ReportsSettle` is `EventuallySettled` of
the behaviours in which the reporters run.

In `libraries` each behaviour is one of one library, the others resting, so that
the run is as large as the sum of the libraries:

| library | properties | bounds |
|---|---|---|
| `WheelDrive` | `WheelsUnderstood`: what is measured is what was commanded | bytes of 2 values, 8 speeds up to the limits of four bytes |
| `CanDrivers` | `DialoguesKept`: driver and motors agree on every number | 2 motors, 1 restart of a motor |
| `Protobuf` | `EncodingsKept`: messages mean what they say | 2 records |
| `Codecs` | `EncodingsKept` | blocks of 4, bit count carried at 8, messages up to 11 |
| `TelnetOptions` | `EndsAgree`, `NoLoop` | 2 requests for each end |
| `TelnetStream` | `StreamFaithful` | 2 calls of at most 2 bytes, buffer 1 |
| `Dhcp` | `ClientBound` | 1 client and a stranger, 2 addresses, queues of 2, 1 loss, 1 restart, 2 foreign messages |
| `Tftp` | `TransferIntact` | 3 blocks, 2 sessions |
| `EspSockets` | `SocketReads`: what is read is what was sent, and nobody sleeps over data | FIFO of 2, the line read 1 byte at a time, 2 connections of 2 bytes in packets of any size (for more, see Proofs) |
| `EspCommands` | `ReportedDone` | 2 operations of up to 3 commands each, 1 notice (for more, see Proofs) |
| `Thttpd` | `SlotsAccounted`, `SlotsReturn` | 2 slots, linger, idle period and limit 1, 1 read, buffer 2, header 1 |
| `HttpRequest` | `RequestsServed`: a request is taken as one when it is there | up to 4 words and 1 header |
| `HttpAnswer` | `DialoguesKept`: each request is answered by what it says | 52 requests, 2 states of a tree of 12 files |
| `NtpDaemon` | `CallsTakeEffect` | semaphore to 3, 2 daemons on their way out |
| `Ppp` | `LinkComesUp` | 2 retries, 2 identifiers, 1 mishap, 3 configurations |
| `FtpServer` | `SessionSound` | 2 accounts and a stranger, 4 paths, working directory of at most 2 nodes |
| `FtpClient` | `DialoguesKept`: replies and commands stay in step | a file of 2 characters, one a line feed, and up to 1 more appended; a server without `STOU` |
| `Chat` | `DialoguesKept`: a script is followed | 3 characters, time limits up to 2 |
| `Smtp` | `DialoguesKept`: a mail reported sent was accepted | 2 mails |
| `Discover` | `RequestsServed`: who asks for the device is answered, and rightly | 2 hosts, packets whole and in part |
| `Telnetd` | `RequestsServed`: a session has its own connection and its daemon's program | 3 sessions, 2 daemons |
| `WebServer` | `DialoguesKept` | 1 visitor with 2 requests, buffer of 6 |
| `XmlRpc` | `DialoguesKept` | 2 calls, 20 bytes of text, strings up to 6 |
| `Json` | `ListsKept` | 3 items, 1 name; items made: objects, strings, arrays of one number; texts: an object whose name and string have escapes, and an array that does not end as it begins |

Why the bounds are enough. Two wheels are the smallest chassis with a "between
two wheels"; two values per component make a torn command visible; the
semaphore saturates and the FIFO overflows within the bounds, so both limits
are exercised. Byte values of the decoder's run include both header
bytes, lengths below, at and above the buffer's, codes, and a matching sum; the
buffer of 5 holds a whole frame with one byte of payload. The words of the
dispatch run include every kind of handler result, both kinds of unknown
command, and words that agree with a served command in one half only. The wheel
positions of the odometry lie on both sides of the wrap of the counters; the
corrupted position is accepted after one of them and rejected after another;
with one corrupted position the bound of `NoiseBounded` is less than the largest
error the counters can show, and it is reached. Three initial counts let an early
client in, block it, and let two in.

For the libraries: two requests for each end make negotiations cross and be taken
back; two records let fields repeat, split and come in either order; three blocks
and two sessions let an old session's block come where the new one's is due; a
FIFO of 2, which holds one byte, with connections of 2 bytes fills, wraps and
leaves bytes behind, and the second connection meets them; two operations let an
answer to the first come during the second (a FIFO of 3, connections of 3 bytes and
three operations, 302 000 states with all other libraries, show nothing more, and
`SocketsRead` and `CommandsDone` hold for all of them); two slots fill the server's table; two retries
end within the steps the model has, and one mishap at any moment, together with
timers that run at any moment the peer leaves them, reaches every reconnection
(two mishaps and five configurations, 141 000 states, show nothing more); three
items make a list with an item between two others, a list below a list, or a list
with a reference to it.

What the four violations show:

- `chassis_query`: `waitCmdRet` matches a reply by its type only. When the timer
  ends a query, its late replies are counted for the next one, which then
  returns through "get full query odo response" (`chassis.cxx:203`) with a
  sample of the earlier query. `QueryAnsweredInFull` proves that this is the only
  way.
- `dispatch_unknown`: a command no `case` knows is answered with its own code, the
  word the buffer begins with; "return 0" says the comment at
  `task_commanddispatch.cxx:245`. `AnswerTellsServed`, in `dispatch`, is what the
  code does keep: an answer tells a command that was served from one that was not.
- `dhcp_twice`: "verify that the lease has not already been taken or offered"
  (`dhcpd.c:651`) is what the server means to do before it offers an address;
  with the test of expiry turned round it offers the address of a lease that
  lies ahead, and two clients end up with it.
- `http_file`: `handle_send` counts the header it sends towards the file's
  offset, and `read_buffer` does not stop at the end of a range: a file that does
  not fit into the first buffer ends early, though the header promised its
  length.

Two more facts the models show and no run states, because no line of the
repository promises otherwise. With `EintrVisible` and a lost reply,
`FinalSpeedDriven` fails: `waitCmdRet` retries its read as long as a speed
command is pending, and the pending command waits for `waitCmdRet`. With
`OwnerChecked = FALSE`, `EventuallySettled` fails: an unlock by the wrong
thread raises the count for the next one, and can keep an overlap going for ever.

## Fairness

- `Chassis`: weak fairness of the chassis task (a ready task with no ready
  higher one runs, and the higher ones block on their sockets), of the timer (it
  is periodic), and of each motor's reply (a motor on the bus answers; with
  `Unreliable` it may also fail to, which satisfies it as well).
- `BringUp`: weak fairness of the chassis task. None of the host.
- `Reporter`: each task begins a report again and again, and goes on with it: weak
  fairness of `ReportLock` and of the task's steps (`Report`), of which a blocked
  task has none. Strong fairness of `OpenSocket`: `socket()` does not fail for ever.
  Nothing is assumed of the mutex, neither that a waiter is woken nor which.
- `Odometry`: weak fairness of the chassis task, whose queries end, answered or
  aborted. None of the wheels or of the resets.
- `GyroAccess`: weak fairness of each task. For the gyro task this includes that
  a read returns, with bytes or an error: `ClientServed` and `DecoderRuns` hold
  only for a gyro that keeps sending. One that falls silent stops the next
  command in the dispatch task, and with it the speed commands.
- `TelnetOptions`: both ends read what TCP delivers.
- `Dhcp`: the server and each client handle what has come, and a client's receive
  times out when nothing comes. None of the network: it may lose `MaxLost`
  datagrams at any moment.
- `Thttpd`: weak fairness of its loop; strong fairness of polls that take time
  and of connections that have been announced, both of which are the world's to
  give: a server whose polls never took time would run no timer.
- `NtpDaemon`: weak fairness of the daemon, of its last post and of the task that
  waits for it.
- `Ppp`: weak fairness of `pppd` and of the peer's answers, strong fairness of the
  timers and of the peer's own requests, whose restart timer (RFC 1661, 3 s) is
  shorter than the 5 s of `pppd`. With a peer that is much slower the two can miss
  each other for ever.
- The other modules have safety properties only.

`MCLibraries` states each of them for the library that runs.

## Proofs

All proofs hold for every value of the constants that satisfies a named
assumption: that of the module (`ChassisAssumption`, ...), which TLC evaluates in
every run of the module, or, for the libraries, the hypothesis that the theorem
itself states (`SocketParameters`, ...), which the values of `MCLibraries.cfg`
satisfy.

- **ChassisProofs.** `IInv` is `TypeOK`, `NoLostWakeup`, `EintrInv` and
  `SpeedInv`. `SpeedSettled` speaks of a sleeping task only; `SpeedInv` says, for
  every `pc`, how much of the last command has reached `planarVel` and `sent`
  unless a new one is pending. `EintrInv` says that an interrupted wait has its
  flag up. `NoLostWakeup` is inductive only with these: a pending command is what
  excuses a stale velocity. `RegisterImplemented` adds that every step of the
  task is a step of `SpeedRegister` or none: `IInv` gives what the guard of
  `Drive` asks for.
  `QueryAnsweredInFull` is `FullQueryResponse` under the condition that the run
  `chassis_query` shows to be missing: no request and no answer outlives its
  query (`QueryStartsClear`, asked whenever the first frame of a query is
  written). A timer that fires after all answers are read, on a bus that loses
  none of them late, satisfies it; motors may still fail and timers still cut a
  query short. `QueryInv` says that a wheel has at most one request or answer
  under way, this query's, and none once its sample is stored, so that what was
  counted is what was stored. It holds up to two wheels: `waitCmdRet` has a slot
  for 0x582 and one for all others.
- **BringUpProofs.** `Kept` is what a faithful host can rely on: the brand heard
  is the brand held, the driver exists once it was heard, identifiers cover the
  wheels once the parameters came, and the static counter and the initialised
  wheels add up. It is inductive because a repeated `setProtocol` finds its own
  brand and changes nothing.
- **MutexProofs**, the reporters. `StaysSettled` needs no invariant beyond
  `ReporterTypeOK`: `Settled` is itself preserved by every step, for both kinds of
  mutex. It needs `OneAdmitted` for that, which speaks of the count and of tasks
  that were woken and have not run: exclusion alone is lost again when a count
  that is one too high lets the next task in.
- **GyroDecoderProofs.** `TypeOK` for every buffer size; `RoutedOnce` from
  `Behind`, which says that after a routing the index is past the announced
  length until the next header. `RoutesWhatCame` proves `FramesRouted` from
  `Follows`: after an A5 5A the index is the number of bytes since, the buffer
  begins with them, and the frame is over exactly if its last byte has come. The
  sum of a frame is a recursive function of its bytes, of which the proof needs
  only that equal bytes have equal sums.
- **CommandDispatchProofs.** The invariant is that, after the first datagram,
  the buffer's word is no served command; hence `NothingReplayed`. `AskedOnce`
  from the flag that only goes up, and `RepliesInWords` from the shape of a reply.
  `AnswersTell` follows each kind of answer back to the handler that made it.
- **OdometryProofs.** `Whole` extends `PoseWhole` to every `pc`: between the two
  additions the position is ahead of the heading by exactly `delta`. It is
  inductive because a reset there either zeroes both and raises `firstIn`, which
  makes the next addition a race, or races itself. `NoiseStaysBounded` keeps an
  account for each wheel: the error of the pose and the distance between the
  filter's memory and the wheel are together paid for by the corrupted positions
  so far, each of which can cost `ENCODER_MAX_DIFF` and the motion of two samples.
  Neither is bounded alone: a rejected position leaves the pose right and the
  memory behind, and the next accepted one turns the distance into error.
- **MutexProofs**, the gyro. `CalibrationReady` from `Order`, the order of `doInit`
  with `bInited` last; `Exclusive` from `Accounted`: until a client is early, the
  count is 1 less the tasks that took the mutex, and whoever waits waits for
  somebody inside.

- **LibraryProofs**, five library modules and a wheel:
  - `TransfersIntact` (`Blocks` a positive number, any number of sessions and of
    datagrams lost, delayed and doubled). What a session of the server has, or
    what a client has stored, is 1, 2, 3, ... without a gap (`SessionsRunOn`,
    `GetRunsOn`, `PutRunsOn`), and what is under way on the network is no
    newer than its session. The lemma per handler is the one that matters: a block that comes
    twice, or late from an older session, is either the next or changes nothing.
  - `CommandsDone`, any number of commands and notices. `OneUnderWay`: an operation
    has at most one answer that belongs to it, and unless the flush ended too early
    (`overdue`) every line between module and task suits the operation that asked
    (`LinesSuit`, `ReadSuits`). `OverdueReads`: while it did, nothing is claimed, and
    the next flush decides anew.
  - `EndsKeepAgreeing`, any number of requests. For each option and direction the
    two states of RFC 1143 and the two wires are one dialogue (`InDialogue`):
    which of at most two messages are under way each way is a function of the
    states. All combinations of the six states are gone through by
    `RequestInDialogue` and `AnswerInDialogue`.
  - `SlotsStayAccounted` (`SlotParameters`: at least one slot, the times any
    numbers). `Sound` says that free list and watched descriptors have each slot
    they must, once, and no other; `ServedFits` that an entry of the last poll that
    is still to be served is of a connection that can be, as the order of the
    list changes under the loop that walks it.
  - `SocketsRead` (`SocketParameters`: the worker reads fewer bytes at once than
    the FIFO has room for). `Line`: the packets on the line follow each other up to
    what has arrived; `Hold`: the worker's packet comes before them; `Kept`: what
    was handed over, with the FIFO behind it, is every byte before the worker's
    but the lost ones, in order, and a packet given up in the middle only adds its
    rest to these (`KeptCut`, `DropKeeps`); `Awake`: a sleeping reader has a post to come,
    or what the worker has read fits the FIFO. That the FIFO holds more than one
    read of the line is what the last one rests on: a reader for whom the post
    comes at the end of a read would otherwise sleep while its bytes are dropped.
  - `WheelsMeasureWell` (`WheelParameters`: a byte has at least one value, speeds
    are integers). `BytesAre` takes a number apart by repeated division, and
    `ReadBack` puts it together, both as the driver does and by the shifts of
    `decode`: the result is the number up to whole turns of a counter of four
    bytes (`Alike`). `WheelTurnsRight`: the speed understood is alike the one
    commanded and the encoder alike the way, each with the sign of the mounting,
    and `OneSign` says that both tables of the code have the same. The number
    read is then alike the way; below one turn there is one such number.
- **SessionProofs**, five library modules:
  - `StreamsAreHeard` (`StreamParameters`: texts have a length; any buffer, any
    number of calls). `Hears` is an ideal receiver that takes one byte at a time,
    raises each byte of data at once and has a buffer without end. `Follows` says
    how the tracker of the code relates to it at each byte of a piece: the data
    from `start` on is still to be raised, or the byte after an MCCP sequence is
    still to be skipped. `CallsSay` and `SubsSay`: an ideal receiver at rest
    makes of the bytes of each call what the call said, and is at rest again.
    `StreamInv`: from the tracker's state, the ideal receiver raises over the
    bytes still on the line exactly what is left of what was said. It is what
    `StreamFaithful` lacks to be inductive: how much is heard says nothing about
    what the rest of the line will be taken for. All this is induction over the
    bytes. The library's induction theorem takes an operator, but `WFMin` does
    not: `Induction` and `Recursion` derive from it, for a set and for a
    function, what the proof needs.
  - `SessionsAreSound` (`FtpParameters`: the homes of the accounts, and `$HOME` for
    a daemon without accounts, are absolute paths without `.` and `..`; a client's
    paths are any sequences of nodes). First the paths: `Strip` takes only what is
    above, so that what `node2path` returns begins with the home, has no `..` left
    (`Clean`), and lies below it (`Below`). `LoginOk` then says that a session that
    resolves paths has a clean home and working directory, that of a user who is
    logged in is his account's, and that the name an `RNFR` has left is below the
    home of the user it is of; `ConnInv` that an open data socket is the session's
    and goes with the step of the transfer; `ActsInv` that what a transfer still has
    open was resolved for the user who is logged in now. `SessionSound` alone is not
    inductive: it speaks of operations, and says nothing of the name, the directory
    and the file which the next one will use.
  - `RequestsAreServed`, three independent parts.
    `RequestRecognised` (`RequestParameters`: any number of words and headers): the
    state of the machine in `httpd_got_request` is a function of how many
    characters it has read (`Stand`), found by where these end in a line; `Run`
    folds one character after the other, so that reading `n` at once is reading
    them one by one (`RunGrows`, `OneMore`), however a request is cut.
    `RightlyAnswered` (`DiscoverParameters`: devices and packets are any numbers): the
    sum that is built byte by byte is that of its parts (`SumAppend`), hence a
    checksum makes it 0 modulo 256, which is what `Parse` asks of a request and a host
    of a response; the invariant keeps the response of the daemon's own device.
    `SessionsOwn` (`TelnetdParameters`: configurations differ, none has port 0, and a
    connection is not called `none` or `console`): `ConfigsHandedOver` follows
    the one variable through which a configuration goes, from the start that
    writes it to the daemon that takes it, with nobody starting in between;
    `DescriptorsInOrder` that a daemon has its console on all of the first three
    descriptors, or, once it accepts, on none; and `SessionsMade` that a session has
    its connection on all three, and the program of the daemon that accepted it.

The modules' `TypeCorrect` theorems are listed on their own; where a proof states
`TypeOK`, or `AskedOnce`, no run repeats it.

Only model-checked:

- liveness: `FinalSpeedDriven`, `OdoServed`, `EventuallyRuns`,
  `EventuallySettled`, `FilterRecovers`, `ClientServed`, `DecoderRuns`, `NoLoop`,
  `ClientBound`, `SlotsReturn`, `CallsTakeEffect` and `LinkComesUp`, which the
  prover does not reach;
- `ReportsGoOn`: that the waiters overlooked are never all three needs an account of
  which tasks the count has forgotten; TLC goes through all states of the three
  instances the firmware has;
- `EncodingsKept` and `DialoguesKept`: they compare what folds and recursive
  functions make of texts and numbers. Each would need an induction of its own, as
  `StreamsAreHeard` does; most of the functions are of `SequencesExt`, about whose
  folds the library states nothing that the provers can use;
- `ListsKept`, the refinement of `JsonLists`: lists are followed through links by
  a recursive function.

## Not modelled, and why

Kinematics and unit conversions are floating-point arithmetic without control.
`main.cxx` is a straight line of `task_create`. The `.cpp` drivers are not built.
DI/DO pins are read and reported, with no state of their own. `bStateCmd` and
`stopCycle`'s counterpart are dead code. A chassis that is not `DOUBLE_DIFF` has a
pose that nothing initialises and nothing updates.

Of the network utilities: `netlib` is otherwise one `ioctl` per function, and
`webclient`, `ping`, `pppd`'s tools and the like are calls in a row. Of the libraries
that are modelled: contents of telnet's NEW-ENVIRON, TTYPE, ZMP and MSSP
subnegotiations, thttpd's directory listings and the feeding of CGI programs, the
network scans and the server side of the ESP8266 driver, the bytes and CRC of
PPP frames, the parsing of FTP command lines, wording, ASCII conversion and
offsets of the FTP server's transfers, paths and listings of the FTP client, JSON numbers that are no `int`, memory running out, and
several FTP sessions at once.
`src/include` is declarations. See `components` in `PROJECT.json`.

## Plan

Done: 1 `Chassis`, 2 `BringUp`, 3 `Reporter`, 4 `GyroDecoder`,
5 `CommandDispatch`, 6 `GyroAccess`, 7 `Odometry`, each with its run and proofs.

Then 8 `SpeedRegister` and its refinement, 9 `WheelDrive`, 10 the libraries, each
with its properties in `libraries`.

Then `CanDrivers`, `Codecs`, `Chat`, `Smtp`, `Discover`, `Telnetd`, `WebServer`
and `XmlRpc`, and the proofs of `NoiseBounded`, `AnswerTellsServed`,
`FramesRouted`, of a wheel and of ten library modules: every safety invariant of
the runs but `EncodingsKept`, `DialoguesKept` and `ReportsGoOn`; and of a query on a quiet bus.

Next, in this order:

11. Proofs of `ReportsGoOn` and of the parts of `DialoguesKept` that need no
    induction (`Smtp`, the states of `WebServer`).
12. FTP client and FTP server of this repository together.
13. The feeding of CGI programs by thttpd.
