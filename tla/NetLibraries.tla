---------------------------- MODULE NetLibraries ----------------------------
(***************************************************************************)
(* The wheels and the libraries of src/netutils about which theorems are   *)
(* proved: their constants, their state, and what each of them promises.   *)
(* MCLibraries checks these promises on small instances, LibraryProofs     *)
(* proves them.                                                            *)
(***************************************************************************)
CONSTANTS
  MaxRequests,                      \* TelnetOptions
  MaxOps, MaxData, BufferMax,       \* TelnetStream
  Blocks, MaxSessions,              \* Tftp
  MaxCommands, MaxNotices,          \* EspCommands
  NumSlots, Linger, IdlePeriod, IdleLimit, MaxReads, IoBuffer, HeaderSize,
  FileSizes,                        \* Thttpd
  FifoSize, WorkerBuf, RecvMax, MaxConns, MaxBytes,   \* EspSockets
  FtpAccounts, FtpEnvHome, FtpParams, FtpDepth,       \* FtpServer
  TelnetConfigs, Connections,       \* Telnetd
  DeviceInfos, DescrSize, Packets, Hosts,   \* Discover
  MaxWords, MaxHeaders,             \* HttpRequest
  Base, Speeds                      \* WheelDrive

VARIABLES
  optState, offered, wire, requests, reversed,
  line, said, ops, rx,
  op, transfer, blockno, offset, retry, acktry, port, stored, sessions,
  flight,
  at, operation, asking, asked, ans, bufans, told, workerAns, workerBuf,
  sem, pending, lines, carried, begun, notices, overdue,
  stage, after, server, scan, current, idleLeft, out,
  link, arrived, uart, worker, sock, task, posts, conn, got, lost, late,
  ftpStep, guarded, login, dataConn, ftpFd, ftpPath, restarting, acted,
  starter, common, telnetds, telnets, connected,
  discover, asker, responses,
  asks, readIdx, checkedIdx, checkedState, verdict,
  fitted, commanded, target, position, travelled

Options  == INSTANCE TelnetOptions
Stream   == INSTANCE TelnetStream
Tftp     == INSTANCE Tftp
Commands == INSTANCE EspCommands
Thttpd   == INSTANCE Thttpd
Sockets  == INSTANCE EspSockets
Ftp      == INSTANCE FtpServer
Telnetds == INSTANCE Telnetd
Discovery == INSTANCE Discover
Request  == INSTANCE HttpRequest
Wheel    == INSTANCE WheelDrive

(* The ends of a telnet connection agree on an option when nothing about   *)
(* it is under way (telnetc.c).                                            *)
EndsAgree == Options!EndsAgree

(* What a telnet receiver raises is what was said, in order, and all of it *)
(* in the end, in whatever pieces the connection delivers it (telnetc.c).  *)
StreamFaithful == Stream!StreamFaithful

(* A TFTP transfer that succeeds is whole (src/netutils/tftpc).            *)
TransferIntact == Tftp!TransferIntact

(* What the driver of the ESP8266 reports done is done (esp8266.c).        *)
ReportedDone == Commands!ReportedDone

(* Free list, watched descriptors and timers of thttpd agree with the      *)
(* states of its connections (thttpd.c, fdwatch.c, timers.c).              *)
SlotsAccounted == Thttpd!SlotsAccounted

(* A socket of the ESP8266 is read in full and in time, until a close has  *)
(* timed out (esp8266.c).                                                  *)
SocketReads == Sockets!SocketReads

(* An FTP session acts in its user's home, and returns what it opens       *)
(* (ftpd.c).                                                               *)
SessionSound == Ftp!SessionSound

(* A request is taken as one when it is there (libhttpd.c), a daemon       *)
(* answers those who ask for its device (discover.c), and a telnet session *)
(* is its client's (telnetd).                                              *)
RequestsServed ==
  /\ Request!RequestRecognised
  /\ Discovery!RightlyAnswered
  /\ Telnetds!SessionsOwn

(* Odometry measures what was commanded: a wheel turns as it was told and  *)
(* is measured as it turns (src/src/Mileage.cxx, src/DriverProtocol).      *)
WheelsUnderstood == Wheel!MeasuredAsCommanded

=============================================================================
