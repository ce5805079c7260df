------------------------------ MODULE Discover ------------------------------
(***************************************************************************)
(* src/netutils/discover/discover.c: a daemon that answers those who ask   *)
(* for devices of its class.  Bytes are numbers, and each of socket,       *)
(* setsockopt, ioctl and bind may fail.  The daemon is started once.       *)
(***************************************************************************)
EXTENDS Integers, Sequences

CONSTANTS
  DeviceInfos,   \* records with devclass and description, one to start with
  DescrSize,     \* bytes for the description in a response
  Packets,       \* what hosts send: sequences of bytes, not empty
  Hosts

VARIABLES
  discover,      \* the daemon and g_state
  asker,         \* the last host that the daemon heard, and what it sent
  responses      \* what that host got for it

PROTO_ID == 153
REQUEST == 1
RESPONSE == 2
ALL == 255
REQUEST_SIZE == 4

Sum(bytes) ==
  LET sum[n \in 0 .. Len(bytes)] == IF n = 0 THEN 0 ELSE sum[n - 1] + bytes[n]
  IN  sum[Len(bytes)]

(* The byte that makes a packet's sum zero.                                *)
Checksum(bytes) == (-Sum(bytes)) % 256

(* discover_initresponse.  strncpy fills up with zeros.                    *)
InitResponse(info) ==
  LET head == <<PROTO_ID, RESPONSE>>
                \o [i \in 1 .. DescrSize |->
                      IF i <= Len(info.description) THEN info.description[i] ELSE 0]
  IN  Append(head, Checksum(head))

(* discover_parse.  A mutant takes every class for its own.                *)
ParseAnyClass(packet, devclass) ==
  /\ packet[1] = PROTO_ID /\ packet[2] = REQUEST
  /\ packet[4] = Checksum(SubSeq(packet, 1, 3))

Parse(packet, devclass) ==
  /\ packet[1] = PROTO_ID /\ packet[2] = REQUEST
  /\ packet[3] \in {ALL, devclass}
  /\ packet[4] = Checksum(SubSeq(packet, 1, 3))

(* What recvfrom leaves in g_state.request.                                *)
Received(request, packet) ==
  [i \in 1 .. REQUEST_SIZE |-> IF i <= Len(packet) THEN packet[i] ELSE request[i]]

Silence == ""
Nobody == [host |-> Silence, packet |-> <<>>]

DiscoverInit ==
  /\ \E info \in DeviceInfos :
       discover = [state |-> "new", info |-> info, response |-> <<>>, sockets |-> 0,
                   request |-> [i \in 1 .. REQUEST_SIZE |-> 0]]
  /\ asker = Nobody /\ responses = <<>>

----------------------------------------------------------------------------
(* discover_start; the daemon makes its response.                          *)
Start(works) ==
  /\ discover.state = "new"
  /\ discover' = IF works
       THEN [discover EXCEPT !.state = "closed", !.response = InitResponse(discover.info)]
       ELSE discover
  /\ UNCHANGED <<asker, responses>>

(* discover_openlistener: each of its steps may fail, and the daemon ends. *)
OpenListener(works) ==
  /\ discover.state = "closed"
  /\ discover' = IF works THEN [discover EXCEPT !.state = "listening", !.sockets = @ + 1]
                 ELSE [discover EXCEPT !.state = "ended"]
  /\ UNCHANGED <<asker, responses>>

(* recvfrom, discover_parse and discover_respond.  No socket for the       *)
(* response, or none that can be bound, and there is no response.          *)
Hear(host, packet, works) ==
  LET request == Received(discover.request, packet) IN
  /\ discover.state = "listening"
  /\ discover' = [discover EXCEPT !.request = request]
  /\ asker' = [host |-> host, packet |-> packet]
  /\ responses' = IF Parse(request, discover.info.devclass) /\ works
                  THEN <<[to |-> host, bytes |-> discover.response]>>
                  ELSE <<>>

(* recvfrom fails: the socket is closed, unless it was a signal.           *)
RecvFails(signal) ==
  /\ discover.state = "listening"
  /\ discover' = IF signal THEN discover
                 ELSE [discover EXCEPT !.state = "closed", !.sockets = @ - 1]
  /\ asker' = Nobody /\ responses' = <<>>

DiscoverNext ==
  \/ \E works \in BOOLEAN : Start(works) \/ OpenListener(works) \/ RecvFails(works)
  \/ \E host \in Hosts, packet \in Packets, works \in BOOLEAN : Hear(host, packet, works)

----------------------------------------------------------------------------
(* A response goes to the host that asked, and to none that has sent a     *)
(* whole packet of another kind, for another class or with a wrong sum,    *)
(* whatever the daemon heard before; the response is well-formed; and the  *)
(* daemon has one socket when it listens and none otherwise.               *)
RightlyAnswered ==
  /\ \A k \in DOMAIN responses :
       /\ responses[k].to = asker.host
       /\ Sum(responses[k].bytes) % 256 = 0 /\ Len(responses[k].bytes) = DescrSize + 3
       /\ Len(asker.packet) = REQUEST_SIZE =>
            /\ Sum(asker.packet) % 256 = 0
            /\ asker.packet[1] = PROTO_ID /\ asker.packet[2] = REQUEST
            /\ asker.packet[3] \in {ALL, discover.info.devclass}
  /\ discover.sockets = IF discover.state = "listening" THEN 1 ELSE 0

=============================================================================
