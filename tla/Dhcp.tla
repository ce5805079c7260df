-------------------------------- MODULE Dhcp --------------------------------
(***************************************************************************)
(* The DHCP server, src/netutils/dhcpd, with clients that run              *)
(* src/netutils/dhcpc on one LAN.                                          *)
(*                                                                         *)
(* The server answers one message at a time from a table with one entry    *)
(* per address.  The clients all use the same transaction identifier and   *)
(* tell their replies by the hardware address alone.  A lease time is kept *)
(* as whether it lies ahead; leases last days, so none runs out here.      *)
(***************************************************************************)
EXTENDS Integers, Sequences

CONSTANTS
  Clients,      \* hardware addresses that run dhcpc
  Stranger,     \* another host, with a DHCP client of its own
  NumAddresses, \* CONFIG_NETUTILS_DHCPD_MAXLEASES
  QueueMax,     \* datagrams a socket holds
  MaxLost,      \* datagrams the network loses
  MaxRestarts,  \* restarts of the server
  MaxForeign    \* messages of the stranger

VARIABLES
  lease,        \* ds_leases
  toServer, inbox,
  phase,        \* per client: where dhcpc_request is
  retries, ipaddr,
  faults        \* losses, restarts and foreign messages so far

clientVars == <<phase, retries, ipaddr>>
dhcpVars   == <<lease, toServer, inbox, clientVars, faults>>

Address == 1 .. NumAddresses
Macs    == Clients \cup {Stranger}
NoMac   == "none"
NoIp    == 0
OutOfRange == NumAddresses + 1

Free      == [mac |-> NoMac, allocated |-> FALSE, ahead |-> FALSE]
Held(mac) == [mac |-> mac, allocated |-> TRUE, ahead |-> TRUE]

Queued(q, msg) == IF Len(q) < QueueMax THEN Append(q, msg) ELSE q

Discover(mac) == [typ |-> "DISCOVER", mac |-> mac, reqip |-> NoIp, server |-> FALSE]
Request(mac, ip) == [typ |-> "REQUEST", mac |-> mac, reqip |-> ip, server |-> TRUE]
Decline(mac) == [typ |-> "DECLINE", mac |-> mac, reqip |-> NoIp, server |-> TRUE]

Reply(typ, mac, ip) == [typ |-> typ, mac |-> mac, ip |-> ip]

DhcpInit ==
  /\ lease = [a \in Address |-> Free]
  /\ toServer = <<>>
  /\ inbox = [c \in Clients |-> <<>>]
  /\ phase = [c \in Clients |-> "off"]
  /\ retries = [c \in Clients |-> 0]
  /\ ipaddr = [c \in Clients |-> NoIp]
  /\ faults = [lost |-> 0, restarts |-> 0, foreign |-> 0]

----------------------------------------------------------------------------
(* The server's table.                                                     *)

(* dhcpd_leaseexpired is the wrong way round: a lease whose time lies      *)
(* ahead is cleared and called expired, one whose time is over is not.     *)
LeaseExpired(l) == l.ahead

FindByMac(mac) == {a \in Address : lease[a].mac = mac}

(* dhcpd_findbyipaddr with the test for expiry that follows it everywhere. *)
Available(a) == ~lease[a].allocated \/ LeaseExpired(lease[a])

(* dhcpd_allocipaddr takes the first available address.                    *)
AllocIpAddr ==
  LET free == {a \in Address : Available(a)} IN
  IF free = {} THEN NoIp ELSE CHOOSE a \in free : \A b \in free : a <= b

(* The address dhcpd_discover offers.                                      *)
OfferedTo(msg) ==
  CASE FindByMac(msg.mac) # {} -> CHOOSE a \in FindByMac(msg.mac) : TRUE
    [] FindByMac(msg.mac) = {} /\ msg.reqip \in Address /\ Available(msg.reqip)
                               -> msg.reqip
    [] OTHER                   -> AllocIpAddr

(* What dhcpd_request answers; "silent" for nothing.                       *)
ResponseTo(msg) ==
  LET held == FindByMac(msg.mac)
      a    == CHOOSE x \in held : TRUE
  IN
  CASE held # {} /\ msg.server  -> IF msg.reqip # NoIp THEN "ACK" ELSE "NAK"
    [] held # {} /\ ~msg.server -> IF msg.reqip = a THEN "ACK" ELSE "NAK"
    [] held = {} /\ ~msg.server /\ msg.reqip \notin Address -> "NAK"
    [] held = {} /\ ~msg.server /\ msg.reqip \in Address ->
         IF Available(msg.reqip) THEN "silent" ELSE "NAK"
    [] OTHER -> "silent"

----------------------------------------------------------------------------
(* The server, one message a step.                                         *)

ToMac(reply) ==
  inbox' = [c \in Clients |-> IF c = reply.mac THEN Queued(inbox[c], reply)
                                               ELSE inbox[c]]

ToAll(reply) == inbox' = [c \in Clients |-> Queued(inbox[c], reply)]

(* The offer is entered in the table before it is sent.                    *)
DhcpdDiscover(msg) ==
  LET a == OfferedTo(msg) IN
  IF a = NoIp
    THEN UNCHANGED <<lease, inbox>>
    ELSE /\ lease' = [lease EXCEPT ![a] = Held(msg.mac)]
         /\ ToMac(Reply("OFFER", msg.mac, a))

(* The ACK carries the address of the table, whatever was requested.  Only *)
(* a request without a server identifier looks the wanted address up, and  *)
(* clears it when it finds it expired.                                     *)
DhcpdRequest(msg) ==
  LET a == CHOOSE x \in FindByMac(msg.mac) : TRUE IN
  CASE ResponseTo(msg) = "ACK" ->
         /\ lease' = [lease EXCEPT ![a] = Held(msg.mac)]
         /\ ToMac(Reply("ACK", msg.mac, a))
    [] ResponseTo(msg) = "NAK" ->
         ToAll(Reply("NAK", msg.mac, NoIp)) /\ UNCHANGED lease
    [] ResponseTo(msg) = "silent" ->
         /\ lease' = IF ~msg.server /\ msg.reqip \in Address
                       THEN [lease EXCEPT ![msg.reqip] = Free] ELSE lease
         /\ UNCHANGED inbox

(* The address stays allocated, without an owner.                          *)
DhcpdDecline(msg) ==
  /\ lease' = [a \in Address |->
                 IF lease[a].mac = msg.mac THEN Held(NoMac) ELSE lease[a]]
  /\ UNCHANGED inbox

DhcpdRelease(msg) ==
  /\ lease' = [a \in Address |-> IF lease[a].mac = msg.mac THEN Free ELSE lease[a]]
  /\ UNCHANGED inbox

DhcpdRun ==
  /\ toServer # <<>>
  /\ LET msg == Head(toServer) IN
       CASE msg.typ = "DISCOVER" -> DhcpdDiscover(msg)
         [] msg.typ = "REQUEST"  -> DhcpdRequest(msg)
         [] msg.typ = "DECLINE"  -> DhcpdDecline(msg)
         [] msg.typ = "RELEASE"  -> DhcpdRelease(msg)
  /\ toServer' = Tail(toServer)
  /\ UNCHANGED <<clientVars, faults>>

(* dhcpd_run starts from an empty table.                                   *)
Restart ==
  /\ faults.restarts < MaxRestarts
  /\ faults' = [faults EXCEPT !.restarts = @ + 1]
  /\ lease' = [a \in Address |-> Free]
  /\ UNCHANGED <<toServer, inbox, clientVars>>

----------------------------------------------------------------------------
(* The client: dhcpc_request between two calls of recv.                    *)

Send(msgs) ==
  LET all == toServer \o msgs IN
  toServer' = IF Len(all) <= QueueMax THEN all ELSE SubSeq(all, 1, QueueMax)

SendDiscover(c, before) ==
  /\ Send(before \o <<Discover(c)>>)
  /\ phase' = [phase EXCEPT ![c] = "discovering"]
  /\ UNCHANGED <<retries, ipaddr>>

SendRequest(c, before) ==
  /\ Send(before \o <<Request(c, ipaddr[c])>>)
  /\ retries' = [retries EXCEPT ![c] = @ + 1]
  /\ UNCHANGED <<phase, ipaddr>>

RequestUncounted(c, before) ==
  Send(before \o <<Request(c, ipaddr[c])>>) /\ UNCHANGED clientVars

(* The end of a turn of the REQUEST loop.                                  *)
RequestAgain(c, before) ==
  IF retries[c] < 3 THEN SendRequest(c, before) ELSE SendDiscover(c, before)

Start(c) ==
  /\ phase[c] = "off"
  /\ SendDiscover(c, <<>>)
  /\ UNCHANGED <<lease, inbox, faults>>

(* The address of the first OFFER is kept; while none has come, any other  *)
(* datagram only makes the client broadcast again.                         *)
OfferReceived(c, msg) ==
  IF msg.typ = "OFFER" /\ msg.mac = c
    THEN /\ ipaddr' = [ipaddr EXCEPT ![c] = msg.ip]
         /\ phase' = [phase EXCEPT ![c] = "requesting"]
         /\ retries' = [retries EXCEPT ![c] = 1]
         /\ Send(<<Request(c, msg.ip)>>)
    ELSE SendDiscover(c, <<>>)

(* An OFFER now is taken for another server's and declined, also when it   *)
(* is the same server's second answer.                                     *)
ResponseReceived(c, msg) ==
  LET typ == IF msg.mac = c THEN msg.typ ELSE "other" IN
  CASE typ = "ACK"   -> /\ phase' = [phase EXCEPT ![c] = "bound"]
                        /\ ipaddr' = [ipaddr EXCEPT ![c] = msg.ip]
                        /\ UNCHANGED <<retries, toServer>>
    [] typ = "NAK"   -> SendDiscover(c, <<>>)
    [] typ = "OFFER" -> RequestAgain(c, <<Decline(c)>>)
    [] OTHER         -> RequestAgain(c, <<>>)

Recv(c) ==
  /\ phase[c] \in {"discovering", "requesting"}
  /\ inbox[c] # <<>>
  /\ inbox' = [inbox EXCEPT ![c] = Tail(@)]
  /\ IF phase[c] = "discovering" THEN OfferReceived(c, Head(inbox[c]))
                                 ELSE ResponseReceived(c, Head(inbox[c]))
  /\ UNCHANGED <<lease, faults>>

(* Ten seconds without a datagram; the LAN and the server are faster.      *)
RecvTimeout(c) ==
  /\ inbox[c] = <<>>
  /\ toServer = <<>>
  /\ \/ phase[c] = "discovering" /\ SendDiscover(c, <<>>)
     \/ phase[c] = "requesting" /\ RequestAgain(c, <<>>)
  /\ UNCHANGED <<lease, inbox, faults>>

----------------------------------------------------------------------------
(* The network and the other host (external).                              *)

Lose ==
  /\ faults.lost < MaxLost
  /\ faults' = [faults EXCEPT !.lost = @ + 1]
  /\ \/ /\ toServer # <<>>
        /\ toServer' = Tail(toServer)
        /\ UNCHANGED inbox
     \/ \E c \in Clients :
          /\ inbox[c] # <<>>
          /\ inbox' = [inbox EXCEPT ![c] = Tail(@)]
          /\ UNCHANGED toServer
  /\ UNCHANGED <<lease, clientVars>>

(* A host that asks for an address of its choice, reboots with one it      *)
(* remembers, or gives one back.                                           *)
Foreign ==
  /\ faults.foreign < MaxForeign
  /\ faults' = [faults EXCEPT !.foreign = @ + 1]
  /\ \E typ \in {"DISCOVER", "REQUEST", "RELEASE"}, ip \in Address \cup {OutOfRange} :
       toServer' = Queued(toServer, [typ |-> typ, mac |-> Stranger,
                                     reqip |-> ip, server |-> FALSE])
  /\ UNCHANGED <<lease, inbox, clientVars>>

DhcpNext ==
  \/ DhcpdRun \/ Restart \/ Lose \/ Foreign
  \/ \E c \in Clients : Start(c) \/ Recv(c) \/ RecvTimeout(c)

DhcpSpec == DhcpInit /\ [][DhcpNext]_dhcpVars

DhcpFairness ==
  /\ WF_dhcpVars(DhcpdRun)
  /\ \A c \in Clients : /\ WF_dhcpVars(Recv(c))
                        /\ WF_dhcpVars(RecvTimeout(c))

----------------------------------------------------------------------------
(* Properties.                                                             *)

(* A client that asks alone gets an address, whichever datagrams are lost, *)
(* however often the server forgets its table in between, and although     *)
(* another host's request may clear the client's own entry.                *)
ClientBound ==
  \A c \in Clients : phase[c] = "discovering" ~> phase[c] = "bound"

(* "verify that the lease has not already been taken or offered (unless    *)
(* the lease/offer is expired, then the address is free game)"             *)
(* (dhcpd.c:651-653): no two clients are given the same address while the  *)
(* time of their leases lies ahead.                                        *)
NoAddressTwice ==
  \A c, d \in Clients :
    c # d /\ phase[c] = "bound" /\ phase[d] = "bound" => ipaddr[c] # ipaddr[d]

============================================================================
