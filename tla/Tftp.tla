-------------------------------- MODULE Tftp --------------------------------
(***************************************************************************)
(* The TFTP client of src/netutils/tftpc, getting or putting one file,     *)
(* over a network that loses, delays, repeats and reorders datagrams.      *)
(*                                                                         *)
(* The server answers each request it receives, a repeated one too, with a *)
(* session on a port of its own; a session reads the file as it is when it *)
(* starts.  A block is known by its place in the file, and the last one is *)
(* the only short one.  Files have fewer than 65536 blocks.                *)
(***************************************************************************)
EXTENDS Integers, Sequences

CONSTANTS
  Blocks,         \* blocks of the file
  MaxSessions     \* requests that reach the server, with their repetitions

VARIABLES
  op,             \* "get" or "put"
  transfer,       \* where the call is, or how it ended
  blockno, offset,
  retry,          \* of the caller, and ...
  acktry,         \* ... of tftp_rcvack
  port,           \* of the server, 0 when it is not known yet
  stored,         \* what get has written to its file
  sessions,       \* per port: the blocks that it has sent, or stored
  flight          \* what the client has sent to the sessions

counters == <<blockno, offset, retry, acktry>>
client   == <<op, transfer, counters, port, stored>>
tftpVars == <<client, sessions, flight>>

TFTP_RETRIES == 3
Elsewhere    == MaxSessions + 1
Ports        == DOMAIN sessions

TftpInit ==
  /\ op \in {"get", "put"}
  /\ transfer = "off"
  /\ blockno = 1 /\ offset = 0 /\ retry = 0 /\ acktry = 0
  /\ port = 0
  /\ stored = <<>>
  /\ sessions = <<>>
  /\ flight = {}

----------------------------------------------------------------------------
(* The server (external).                                                  *)

Accept ==
  /\ transfer # "off"
  /\ Len(sessions) < MaxSessions
  /\ sessions' = Append(sessions, IF op = "get" THEN <<1>> ELSE <<>>)
  /\ UNCHANGED <<client, flight>>

SendNext(p) ==
  /\ op = "get"
  /\ Len(sessions[p]) < Blocks
  /\ [port |-> p, no |-> Len(sessions[p]), data |-> 0] \in flight
  /\ sessions' = [sessions EXCEPT ![p] = Append(@, Len(@) + 1)]
  /\ UNCHANGED <<client, flight>>

StoreNext(p) ==
  /\ op = "put"
  /\ \E packet \in flight :
       /\ packet.port = p
       /\ packet.no = Len(sessions[p]) + 1
       /\ sessions' = [sessions EXCEPT ![p] = Append(@, packet.data)]
  /\ UNCHANGED <<client, flight>>

----------------------------------------------------------------------------
(* The client.                                                             *)

(* The first request; sending it again adds nothing to a network that      *)
(* repeats datagrams by itself.                                            *)
Request ==
  /\ transfer = "off"
  /\ transfer' = IF op = "get" THEN "data" ELSE "request"
  /\ UNCHANGED <<op, counters, port, stored, sessions, flight>>

SendFails ==
  /\ transfer \in {"data", "request"}
  /\ transfer' = "error"
  /\ UNCHANGED <<op, counters, port, stored, sessions, flight>>

(* tftpget_cb *)

(* Once more round the retries; the first block is requested anew, from    *)
(* whatever port answers.                                                  *)
GetAgain(count) ==
  /\ retry' = retry + count
  /\ transfer' = IF retry' = TFTP_RETRIES THEN "error" ELSE transfer
  /\ port' = IF blockno = 1 THEN 0 ELSE port
  /\ UNCHANGED <<op, blockno, offset, acktry, stored, sessions, flight>>

GetNothing == GetAgain(1)

Written(p, n) ==
  /\ stored' = Append(stored, <<p, n>>)
  /\ flight' = flight \cup {[port |-> p, no |-> blockno, data |-> 0]}
  /\ IF n = Blocks
       THEN transfer' = "ok" /\ UNCHANGED <<blockno, retry>>
       ELSE blockno' = blockno + 1 /\ retry' = 0 /\ UNCHANGED transfer
  /\ port' = p
  /\ UNCHANGED <<op, offset, acktry, sessions>>

GetDataUnnumbered(p, n) ==
  IF port \in {0, p} THEN Written(p, n) ELSE GetAgain(0)

(* A block from another port is answered with an error and not counted;    *)
(* one of another number, such as the last one repeated, is counted and    *)
(* not acknowledged again.                                                 *)
GetData(p, n) ==
  CASE port \notin {0, p}                -> GetAgain(0)
    [] port \in {0, p} /\ n # blockno    -> GetAgain(1)
    [] port \in {0, p} /\ n = blockno    -> Written(p, n)

(* tftpput_cb *)

Send(p, no, off) ==
  flight' = flight \cup {[port |-> p, no |-> no, data |-> off + 1]}

Resend ==
  /\ retry' = retry + 1
  /\ acktry' = 0
  /\ transfer' = IF retry' > TFTP_RETRIES THEN "error" ELSE transfer

(* tftp_rcvack: nothing comes, or something of the server that is no ACK.  *)
PutNothing(p) ==
  /\ port' = IF port = 0 THEN p ELSE port
  /\ IF acktry + 1 < TFTP_RETRIES
       THEN acktry' = acktry + 1 /\ UNCHANGED <<retry, transfer>>
       ELSE Resend
  /\ UNCHANGED <<op, blockno, offset, stored, sessions, flight>>

(* The port is taken over before the address is looked at.                 *)
PutFromElsewhere ==
  /\ port' = IF port = 0 THEN Elsewhere ELSE port
  /\ UNCHANGED <<op, transfer, counters, stored, sessions, flight>>

(* The first ACK is awaited with blockno NULL, and its number written      *)
(* there: the write is ignored, or it is a fault.                          *)
PutRequested(p) ==
  /\ transfer = "request"
  /\ port' = IF port = 0 THEN p ELSE port
  /\ acktry' = 0 /\ retry' = 0
  /\ \/ transfer' = "data" /\ Send(port', blockno, offset)
     \/ transfer' = "fault" /\ UNCHANGED flight
  /\ UNCHANGED <<op, blockno, offset, stored, sessions>>

PutAcked(n) ==
  /\ transfer = "data"
  /\ CASE n # blockno -> Resend /\ UNCHANGED <<blockno, offset, flight>>
       [] n = blockno /\ offset + 1 = Blocks ->
            transfer' = "ok" /\ UNCHANGED <<counters, flight>>
       [] n = blockno /\ offset + 1 < Blocks ->
            /\ blockno' = blockno + 1
            /\ offset' = offset + 1
            /\ retry' = 0 /\ acktry' = 0
            /\ Send(port, blockno', offset')
            /\ UNCHANGED transfer
  /\ UNCHANGED <<op, port, stored, sessions>>

Get ==
  /\ op = "get" /\ transfer = "data"
  /\ \/ GetNothing
     \/ \E p \in Ports : \E n \in DOMAIN sessions[p] : GetData(p, n)

Put ==
  /\ op = "put" /\ transfer \in {"request", "data"}
  /\ \/ \E p \in {0} \cup Ports : PutNothing(p)
     \/ PutFromElsewhere
     \/ \E p \in Ports : PutRequested(p)
     \/ \E p \in Ports : \E n \in 0 .. Len(sessions[p]) : PutAcked(n)

TftpNext ==
  \/ Accept
  \/ \E p \in Ports : SendNext(p) \/ StoreNext(p)
  \/ Request \/ SendFails \/ Get \/ Put

----------------------------------------------------------------------------
(* A transfer that reports success is whole: a file that was got is one    *)
(* version of the server's, each block once and in its place, and a file   *)
(* that was put is complete in a session of the server.                    *)
TransferIntact ==
  LET whole == [n \in 1 .. Blocks |-> n] IN
  transfer = "ok" =>
    IF op = "get"
      THEN \E p \in Ports : stored = [n \in 1 .. Blocks |-> <<p, n>>]
      ELSE \E p \in Ports : sessions[p] = whole

============================================================================
