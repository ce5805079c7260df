-------------------------------- MODULE Ppp --------------------------------
(***************************************************************************)
(* The PPP client of src/netutils/pppd, which brings a link up in layers   *)
(* (LCP, perhaps PAP, IPCP), against a peer that keeps to RFC 1661, over a *)
(* serial line that loses frames.  A frame is whole or lost; a state word  *)
(* is the set of its flags.                                                *)
(*                                                                         *)
(* With chat scripts a reconnection ends the call: the peer starts anew,   *)
(* and nothing of the old call is received.  Without them the line stays.  *)
(***************************************************************************)
EXTENDS Naturals, Sequences

CONSTANTS
  RetryCount,     \* LCP_, IPCP_ and PAP_RETRY_COUNT and AHDLC_TX_OFFLINE
  PppIds,         \* values of ppp_id
  PppSetups,      \* configurations, of pppd and of the peer
  MaxMishaps      \* frames lost, late or unusual, and ends of the link

VARIABLES
  settings,       \* whether there are scripts and a user name, and what the
                  \* peer asks for
  pppd,           \* the context of pppd
  toRemote, toPppd,
  remote,         \* the peer
  mishaps

pppVars == <<settings, pppd, toRemote, toPppd, remote, mishaps>>

Both == {"RX_UP", "TX_UP"}
Timers == {"lcp", "ipcp", "pap"}
Frame(proto, code, id, arg) ==
  [proto |-> proto, code |-> code, id |-> id, arg |-> arg]

(* Options that the peer may ask for; lcplist and ipcplist have "AUTH".    *)
LcpWishes == {"AUTH", "QUALITY"}
Known     == {"AUTH"}

(* ppp_init and ppp_connect, after the sleeps of a reconnection, which are *)
(* still to come here; sent is what has gone out in this step.  Timers     *)
(* that start at 0 are due.                                                *)
Fresh(c) ==
  [c EXCEPT !.lcp = {}, !.lcpRetry = 0, !.ipcp = {}, !.ipcpRetry = 0,
            !.pap = {}, !.papRetry = 0, !.id = 0, !.offline = 0,
            !.local = FALSE, !.held = "none", !.due = @ \cup {"ipcp", "pap"},
            !.asleep = TRUE]

PppInit ==
  /\ settings \in PppSetups
  /\ pppd = [lcp |-> {}, lcpRetry |-> 0, ipcp |-> {}, ipcpRetry |-> 0,
             pap |-> {}, papRetry |-> 0, id |-> 0, offline |-> 0,
             local |-> FALSE, ifup |-> FALSE, held |-> "none", due |-> Timers,
             asleep |-> FALSE, sent |-> <<>>]
  /\ toRemote = <<>> /\ toPppd = <<>>
  /\ remote = [lcp |-> {}, ipcp |-> {}, asks |-> settings.wishes, id |-> 0]
  /\ mishaps = 0

----------------------------------------------------------------------------
(* Sending.                                                                *)
Emit(c, f) == [c EXCEPT !.offline = @ + 1, !.sent = Append(@, f)]
TermReq    == Frame("LCP", "TERM_REQ", 0, {})

(* ppp_reconnect when it is called out of ahdlc_tx, ...                    *)
Hangup(c) ==
  Fresh(Emit(Emit([c EXCEPT !.offline = 0, !.ifup = FALSE], TermReq), TermReq))

(* ... which reconnects when too much was sent without any answer, and     *)
(* returns to the function that has wanted to send.                        *)
AhdlcTx(c, f) == IF c.offline > RetryCount THEN Hangup(c) ELSE Emit(c, f)

Reconnect(c) ==
  Fresh(AhdlcTx(AhdlcTx([c EXCEPT !.ifup = FALSE], TermReq), TermReq))

IpcpUp(c) == Both \subseteq c.ipcp
LcpUp(c)  == Both \subseteq c.lcp

----------------------------------------------------------------------------
(* What comes in.                                                          *)
NextId(c) == [c EXCEPT !.id = (@ + 1) % PppIds]

IpcpStart(c) ==
  [c EXCEPT !.ipcp = {}, !.ipcpRetry = 0, !.local = FALSE,
            !.due = @ \cup {"ipcp"}]

LcpRequest(c, f) ==
  LET d == [IpcpStart(c) EXCEPT !.lcp = @ \ {"TX_UP"}]
      e == [d EXCEPT !.lcp =
                    IF "AUTH" \in f.arg THEN @ \cup {"RX_AUTH"} ELSE @]
  IN IF ~ (f.arg \subseteq Known)
       THEN AhdlcTx(d, Frame("LCP", "CONF_REJ", f.id, f.arg \ Known))
     ELSE IF "AUTH" \in f.arg /\ ~settings.username
       THEN AhdlcTx(d, Frame("LCP", "CONF_REJ", f.id, {"AUTH"}))
     ELSE [AhdlcTx(e, Frame("LCP", "CONF_ACK", f.id, {}))
             EXCEPT !.lcp = @ \cup {"RX_UP"}]

LcpRx(c, f) ==
  CASE f.code = "CONF_REQ" -> LcpRequest(c, f)
    [] f.code = "CONF_ACK" ->
         IF f.id = c.id THEN [c EXCEPT !.lcp = @ \cup {"TX_UP"}] ELSE c
    [] f.code = "CONF_NAK" -> NextId(c)
    [] f.code = "TERM_REQ" ->
         [AhdlcTx(c, Frame("LCP", "TERM_ACK", f.id, {}))
            EXCEPT !.lcp = (@ \ {"TX_UP"}) \cup {"TERM_PEER"}]
    [] f.code = "TERM_ACK" -> c
    [] f.code = "ECHO_REQ" ->
         IF LcpUp(c) THEN AhdlcTx(c, Frame("LCP", "ECHO_REP", f.id, {})) ELSE c
    [] f.code = "ECHO_REP" -> IF LcpUp(c) THEN NextId(c) ELSE c

(* An acknowledgement counts whatever request it is for.                   *)
IpcpRx(c, f) ==
  CASE f.code = "CONF_REQ" ->
         IF f.arg # {}
           THEN AhdlcTx(c, Frame("IPCP", "CONF_REJ", f.id, f.arg))
           ELSE AhdlcTx([c EXCEPT !.ipcp = @ \cup {"RX_UP"}],
                        Frame("IPCP", "CONF_ACK", f.id, {}))
    [] f.code = "CONF_ACK" -> [c EXCEPT !.ipcp = @ \cup {"TX_UP"}]
    [] f.code = "CONF_NAK" ->
         NextId([c EXCEPT !.local = TRUE, !.ifup = TRUE])

PapRx(c, f) == [c EXCEPT !.pap = @ \cup {"AUTH_FAIL"}]

PppUpcall(c, f) ==
  CASE f.proto = "LCP"  -> LcpRx(c, f)
    [] f.proto = "IPCP" -> IpcpRx(c, f)
    [] f.proto = "PAP"  -> PapRx(c, f)
    [] f.proto = "IPV4" -> [c EXCEPT !.held = "packet"]
    [] f.proto = "CCP"  -> AhdlcTx(c, Frame("LCP", "PROT_REJ", f.id, {}))

(* Whatever has come, the other side is alive.                             *)
CountsOn(c, f) == PppUpcall(c, f)

AhdlcRx(c, f) == [PppUpcall(c, f) EXCEPT !.offline = 0]

----------------------------------------------------------------------------
(* What goes out on time.  Requests are made in the buffer that holds a    *)
(* packet just received.                                                   *)
Spoil(c) == IF c.held = "none" THEN c ELSE [c EXCEPT !.held = "spoilt"]
More(retry) == IF retry > RetryCount THEN retry ELSE retry + 1
Request(c, timer, f) == AhdlcTx(Spoil([c EXCEPT !.due = @ \ {timer}]), f)

LcpEchoRequest(c) ==
  IF LcpUp(c) /\ "lcp" \in c.due
    THEN Request(c, "lcp", Frame("LCP", "ECHO_REQ", c.id, {}))
    ELSE c

(* At the end of its retries a task clears every flag, ...                 *)
LcpTask(c) ==
  IF "TX_UP" \notin c.lcp /\ "lcp" \in c.due
    THEN LET d == Request(c, "lcp", Frame("LCP", "CONF_REQ", c.id, {}))
         IN [d EXCEPT !.lcpRetry = More(@),
                      !.lcp = IF d.lcpRetry >= RetryCount THEN {} ELSE @]
    ELSE c

IpcpTask(c) ==
  IF "TX_UP" \notin c.ipcp /\ "ipcp" \in c.due
    THEN LET f == Frame("IPCP", "CONF_REQ", c.id, {c.local})
             d == Request(c, "ipcp", f)
         IN [d EXCEPT !.ipcpRetry = More(@),
                      !.ipcp = IF d.ipcpRetry >= RetryCount THEN {} ELSE @]
    ELSE c

(* ... as PAP's does; its request has neither name nor password.           *)
PapTask(c) ==
  IF "TX_UP" \notin c.pap /\ "pap" \in c.due
    THEN LET d == Request(c, "pap", Frame("PAP", "CONF_REQ", c.id, {}))
         IN [d EXCEPT !.papRetry = More(@),
                      !.pap = IF d.papRetry >= RetryCount THEN {} ELSE @]
    ELSE c

PppPoll(c) ==
  IF IpcpUp(c) THEN LcpEchoRequest(c)
  ELSE LET d == LcpTask(c)
       IN IF ~ LcpUp(d) THEN d
          ELSE IF "RX_AUTH" \in d.lcp THEN PapTask(d) ELSE IpcpTask(d)

PppCheckErrors(c) == "TERM_PEER" \in c.lcp \/ "AUTH_FAIL" \in c.pap

----------------------------------------------------------------------------
(* The loop of pppd.                                                       *)
NewCall(r) == [r EXCEPT !.lcp = {}, !.ipcp = {}, !.asks = settings.wishes]

(* The context is c, what it has sent is on its way, and in is left to     *)
(* be received.                                                            *)
Becomes(c, in) ==
  /\ pppd' = [c EXCEPT !.sent = <<>>]
  /\ IF c.asleep /\ settings.scripts
       THEN /\ toRemote' = <<>> /\ toPppd' = <<>>
            /\ remote' = NewCall(remote)
       ELSE /\ toRemote' = toRemote \o c.sent /\ toPppd' = in
            /\ UNCHANGED remote
  /\ UNCHANGED <<settings, mishaps>>

(* ppp_poll reads until there is nothing to read or a packet, and then has *)
(* the tasks run; what it does about errors comes right after it.          *)
Finish(c) ==
  LET d == PppPoll(c)
  IN IF d.asleep THEN d
     ELSE IF PppCheckErrors(d) THEN Reconnect(d)
     ELSE [d EXCEPT !.held = "none"]

Poll ==
  /\ ~pppd.asleep
  /\ \/ /\ toPppd # <<>>
        /\ \E c \in {AhdlcRx(pppd, Head(toPppd))} :
             LET in == Tail(toPppd) IN
             IF c.asleep \/ (in # <<>> /\ c.held = "none")
               THEN Becomes(c, in)
               ELSE \E d \in {Finish(c)} : Becomes(d, in)
     \/ /\ toPppd = <<>>
        /\ \E c \in {Finish(pppd)} : c # pppd /\ Becomes(c, <<>>)

(* ppp_send, when the network has a packet.                                *)
SendPacket ==
  /\ ~pppd.asleep /\ toRemote = <<>> /\ toPppd = <<>>
  /\ IpcpUp(pppd)
  /\ Becomes(AhdlcTx(pppd, Frame("IPV4", "packet", 0, {})), toPppd)

(* What the peer has to ask, if it has.                                    *)
Opened(layer) == {"in", "out"} \subseteq layer

(* PAP that was agreed on never succeeds.                                  *)
Authenticated == "AUTH" \notin remote.asks
AsksLcp  == "out" \notin remote.lcp
AsksIpcp == Opened(remote.lcp) /\ Authenticated /\ "out" \notin remote.ipcp

(* Seconds pass.  The restart timer of the peer is the shorter one, so     *)
(* that it has asked before, and a frame that takes as long is a mishap.   *)
Still == toRemote = <<>> /\ toPppd = <<>> /\ ~AsksLcp /\ ~AsksIpcp

TimersRunOut ==
  /\ pppd.due # Timers \/ pppd.asleep
  /\ toRemote = <<>> \/ ~pppd.asleep
  /\ pppd' = [pppd EXCEPT !.due = Timers, !.asleep = FALSE]
  /\ \/ (pppd.asleep \/ Still) /\ UNCHANGED mishaps
     \/ mishaps < MaxMishaps /\ mishaps' = mishaps + 1
  /\ UNCHANGED <<settings, toRemote, toPppd, remote>>

(* PPP_IP_TIMEOUT: for six hours no packet has come.  By then nobody waits *)
(* for an answer any more.                                                 *)
Silence ==
  /\ ~pppd.asleep /\ Still
  /\ "TX_UP" \in pppd.lcp
  /\ LcpUp(pppd) => "TX_UP" \in pppd.ipcp
  /\ Becomes(Reconnect(pppd), <<>>)

Waiting == TimersRunOut \/ Silence

----------------------------------------------------------------------------
(* The peer (external), a state machine of RFC 1661 for each layer: "out"  *)
(* when its request is acknowledged, "in" when it has acknowledged pppd's. *)
Says(r, frames) ==
  /\ remote' = r
  /\ toPppd' = toPppd \o frames
  /\ UNCHANGED <<settings, pppd, mishaps>>

LcpAsk(r)  == Frame("LCP", "CONF_REQ", r.id, r.asks \cap LcpWishes)
IpcpAsk(r) == Frame("IPCP", "CONF_REQ", r.id, r.asks \ LcpWishes)
Anew(r)    == [r EXCEPT !.id = (@ + 1) % PppIds]

(* Its requests may cross with pppd's.                                    *)
Quiet == toPppd = <<>> /\ Len(toRemote) <= 1

RemoteAsks ==
  /\ Quiet
  /\ UNCHANGED toRemote
  /\ \/ AsksLcp /\ Says(remote, <<LcpAsk(remote)>>)
     \/ AsksIpcp /\ Says(remote, <<IpcpAsk(remote)>>)

(* An answer counts if it is for the last request.                         *)
Acked(r, layer, f) ==
  IF f.id = r.id THEN [r EXCEPT ![layer] = @ \cup {"out"}] ELSE r
Rejected(r, f) ==
  IF f.id = r.id THEN Anew([r EXCEPT !.asks = @ \ f.arg]) ELSE r

(* A request in a layer that was open closes it.                           *)
RemoteLcp(r, f) ==
  CASE f.code = "CONF_REQ" ->
         LET ack == Frame("LCP", "CONF_ACK", f.id, {})
             again == Anew([r EXCEPT !.lcp = {"in"}, !.ipcp = {}])
         IN IF Opened(r.lcp)
              THEN Says(again, <<LcpAsk(again), ack>>)
              ELSE Says([r EXCEPT !.lcp = @ \cup {"in"}], <<ack>>)
    [] f.code = "CONF_ACK" ->
         Says(Acked(r, "lcp", f), <<>>)
    [] f.code = "CONF_REJ" ->
         Says(Rejected(r, f), <<>>)
    [] f.code = "TERM_REQ" ->
         Says(Anew(NewCall(r)), <<Frame("LCP", "TERM_ACK", f.id, {})>>)
    [] f.code = "ECHO_REQ" /\ Opened(r.lcp) ->
         Says(r, <<Frame("LCP", "ECHO_REP", f.id, {})>>)
    [] OTHER -> Says(r, <<>>)

RemoteIpcp(r, f) ==
  CASE f.code = "CONF_REQ" ->
         LET given == TRUE \in f.arg
             code == IF given THEN "CONF_ACK" ELSE "CONF_NAK"
             answer == Frame("IPCP", code, f.id, {})
             in == IF given THEN {"in"} ELSE {}
             again == Anew([r EXCEPT !.ipcp = in])
         IN IF Opened(r.ipcp)
              THEN Says(again, <<IpcpAsk(again), answer>>)
              ELSE Says([r EXCEPT !.ipcp = (@ \ {"in"}) \cup in], <<answer>>)
    [] f.code = "CONF_ACK" ->
         Says(Acked(r, "ipcp", f), <<>>)
    [] f.code = "CONF_REJ" ->
         Says(Rejected(r, f), <<>>)

RemoteHears ==
  /\ toRemote # <<>>
  /\ toRemote' = Tail(toRemote)
  /\ LET f == Head(toRemote) IN
     \/ f.proto = "LCP" /\ RemoteLcp(remote, f)
     \/ /\ f.proto = "IPCP" /\ Opened(remote.lcp) /\ Authenticated
        /\ RemoteIpcp(remote, f)
     \/ /\ f.proto = "IPCP" /\ ~ (Opened(remote.lcp) /\ Authenticated)
        /\ Says(remote, <<>>)
     \/ /\ f.proto = "PAP"
        /\ \/ Says(remote, <<>>)
           \/ Says(remote, <<Frame("PAP", "CONF_NAK", f.id, {})>>)
     \/ f.proto = "IPV4" /\ Says(remote, <<>>)

(* What an open peer may send at any time: packets, echo requests, and a   *)
(* protocol that pppd does not know.                                       *)
RemoteSends ==
  /\ toPppd = <<>> /\ toRemote = <<>>
  /\ UNCHANGED toRemote
  /\ \/ Opened(remote.lcp) /\ Says(remote, <<Frame("LCP", "ECHO_REQ", 0, {})>>)
     \/ Opened(remote.lcp) /\ Says(remote, <<Frame("CCP", "CONF_REQ", 0, {})>>)
     \/ Opened(remote.ipcp) /\ Says(remote, <<Frame("IPV4", "packet", 0, {})>>)

(* Mishaps: the peer ends the link, or does not like an LCP request, or a  *)
(* frame is lost.                                                          *)
Mishap ==
  /\ mishaps < MaxMishaps
  /\ mishaps' = mishaps + 1
  /\ UNCHANGED <<settings, pppd>>
  /\ \/ /\ remote.lcp # {} /\ Quiet
        /\ remote' = Anew(NewCall(remote))
        /\ toPppd' = <<Frame("LCP", "TERM_REQ", 0, {})>>
        /\ UNCHANGED toRemote
     \/ /\ toRemote # <<>>
        /\ toRemote' = Tail(toRemote)
        /\ UNCHANGED remote
        /\ LET f == Head(toRemote) IN
           \/ UNCHANGED toPppd
           \/ /\ f.proto = "LCP" /\ f.code = "CONF_REQ"
              /\ toPppd' = Append(toPppd, [f EXCEPT !.code = "CONF_NAK"])
     \/ /\ toPppd # <<>>
        /\ toPppd' = Tail(toPppd)
        /\ UNCHANGED <<remote, toRemote>>

PppNext == \/ Poll \/ SendPacket
           \/ TimersRunOut \/ Silence
           \/ RemoteAsks \/ RemoteHears \/ RemoteSends \/ Mishap

----------------------------------------------------------------------------
(* The link is up when both ends say so and the interface has the address  *)
(* that the peer has given.                                                *)
LinkUp ==
  /\ LcpUp(pppd) /\ IpcpUp(pppd)
  /\ pppd.local /\ pppd.ifup
  /\ Opened(remote.lcp) /\ Opened(remote.ipcp)

(* Whatever is lost, late or refused, and whoever ends the link, it comes  *)
(* up again, if the peer does not insist on PAP (pppd.c, ppp.c, lcp.c,     *)
(* ipcp.c, ahdlc.c).                                                       *)
LinkComesUp ==
  ~ ("AUTH" \in settings.wishes /\ settings.username) => []<>LinkUp

============================================================================
