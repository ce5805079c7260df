----------------------------- MODULE FtpClient -----------------------------
(***************************************************************************)
(* The FTP client (src/netutils/ftpc) and a server that keeps to RFC 959.  *)
(* The client waits for every reply, so that a call is one step; what the  *)
(* server, the network and the local file do in it is open.  A reply that  *)
(* does not come in time ends the wait, as an end of the stream does.      *)
(*                                                                         *)
(* A session is a record, and a function of the client takes it to the set *)
(* of the sessions it may end in, with its result in ok.  Descriptors and  *)
(* memory do not run out.                                                  *)
(***************************************************************************)
EXTENDS Naturals, Sequences, SequencesExt

CONSTANTS
  FtpcLacks,      \* sets of commands that a server may not know
  FtpcRemote,     \* the file on the server ...
  FtpcLocal,      \* ... and the client's, at first
  FtpcSizeMax     \* bound on the length of a file that is appended to

VARIABLE ftpc     \* the session, its server and the files

Absent == <<"absent">>
NoDir  == <<"none">>
Root   == <<>>
Home   == <<"home">>
Dirs   == {Root, Home}
Optional == {"MDTM", "SIZE", "STOU", "CHMOD", "IDLE"}

(* A session that ftpc_connect has not made yet; the last lines are the    *)
(* server's side, and what the model remembers.                            *)
NoSession ==
  [handle |-> FALSE, connected |-> FALSE, up |-> FALSE, loggedin |-> FALSE,
   passive |-> FALSE, caps |-> Optional, xfrmode |-> "unknown", data |-> FALSE,
   code |-> 0, dir |-> NoDir, num |-> 0, initrdir |-> NoDir, currdir |-> NoDir,
   ok |-> TRUE, stuck |-> FALSE,
   lacks |-> {}, gone |-> FALSE, user |-> FALSE, cwd |-> NoDir, type |-> "A",
   rest |-> 0, serving |-> FALSE, inbox |-> <<>>,
   remote |-> FtpcRemote, local |-> Absent, abandoned |-> FALSE, got |-> TRUE]

FtpcInit == \E local \in FtpcLocal : ftpc = [NoSession EXCEPT !.local = local]

----------------------------------------------------------------------------
(* Control.  Nothing follows in a call that waits for ever.                *)
Then(sessions, Op(_)) ==
  UNION { IF s.stuck THEN {s} ELSE Op(s) : s \in sessions }
IfOk(sessions, Op(_)) ==
  UNION { IF s.stuck \/ ~s.ok THEN {s} ELSE Op(s) : s \in sessions }

Succeed(s) == [s EXCEPT !.ok = TRUE]
Fail(s)    == [s EXCEPT !.ok = FALSE]

----------------------------------------------------------------------------
(* The server.                                                             *)
Reply(s, code) ==
  [s EXCEPT !.inbox = Append(@, [code |-> code, dir |-> NoDir, num |-> 0])]
ReplyDir(s, dir) ==
  [s EXCEPT !.inbox = Append(@, [code |-> 257, dir |-> dir, num |-> 0])]
ReplySize(s, size) ==
  [s EXCEPT !.inbox = Append(@, [code |-> 213, dir |-> NoDir, num |-> size])]

(* What goes over the wire for a file.                                     *)
Encoded(file, type) ==
  IF type = "I" THEN file
  ELSE FlattenSeq([k \in DOMAIN file |->
                     IF file[k] = "LF" THEN <<"CR", "LF">> ELSE <<file[k]>>])
From(file, offset) == SubSeq(file, offset + 1, Len(file))

Found(s) == s.user /\ s.cwd = Home /\ s.remote # Absent
MayStore(s) == s.user /\ s.cwd = Home

(* A server that cannot reach the client's port says so.                   *)
Serve(s) ==
  (IF s.passive \/ "EPRT" \notin s.lacks
   THEN {Reply([s EXCEPT !.serving = TRUE], 150)} ELSE {})
    \cup (IF s.passive THEN {} ELSE {Reply([s EXCEPT !.rest = 0], 425)})

Answers(s, verb, arg) ==
  IF verb \in s.lacks
  THEN { Reply(s, code) : code \in IF verb = "MDTM" THEN {202} ELSE {500, 502} }
  ELSE
  CASE verb = "USER" -> {Reply([s EXCEPT !.user = (arg = "anonymous")],
                               IF arg = "anonymous" THEN 230 ELSE 331)}
    [] verb = "PASS" -> {Reply(s, 530), Reply([s EXCEPT !.user = TRUE], 230)}
    [] verb # "QUIT" /\ ~s.user -> {Reply(s, 530)}
    [] verb = "PWD"  -> {ReplyDir(s, s.cwd)}
    [] verb = "CWD"  -> IF arg \in Dirs THEN {Reply([s EXCEPT !.cwd = arg], 250)}
                        ELSE {Reply(s, 550)}
    [] verb = "CDUP" -> {Reply([s EXCEPT !.cwd = Root], 250)}
    [] verb = "TYPE" -> {Reply([s EXCEPT !.type = arg], 200)}
    [] verb = "EPSV" -> {Reply(s, 229)}
    [] verb = "REST" -> {Reply([s EXCEPT !.rest = arg], 350)}
    [] verb = "SIZE" -> IF Found(s)
                        THEN {ReplySize(s, Len(Encoded(s.remote, s.type)))}
                        ELSE {Reply(s, 550)}
    [] verb = "RETR" -> IF Found(s) THEN Serve(s)
                        ELSE {Reply([s EXCEPT !.rest = 0], 550)}
    [] verb \in {"STOR", "APPE", "STOU"} ->
                        IF MayStore(s) THEN Serve(s)
                        ELSE {Reply([s EXCEPT !.rest = 0], 550)}
    [] verb = "NLST" -> Serve(s)
    [] verb = "DELE" -> IF Found(s)
                        THEN {Reply([s EXCEPT !.remote = Absent], 250)}
                        ELSE {Reply(s, 550)}
    [] verb = "RNFR" -> {Reply(s, 350), Reply(s, 550)}
    [] verb \in {"MKD", "RMD", "RNTO"} -> {Reply(s, 250), Reply(s, 550)}
    [] OTHER -> {Reply(s, 200)}

(* The transfer is over on the server's side.                              *)
EndTransfer(s, code) == Reply([s EXCEPT !.serving = FALSE, !.rest = 0], code)

----------------------------------------------------------------------------
(* Replies and commands.  Of a server that is gone, nothing is left.       *)
Gone(s) == [s EXCEPT !.gone = TRUE, !.lacks = {}, !.user = FALSE,
                     !.cwd = NoDir, !.type = "A", !.rest = 0]

Reset(s) ==
  [Gone(s) EXCEPT !.data = FALSE, !.connected = FALSE, !.up = FALSE,
                  !.loggedin = FALSE, !.caps = Optional, !.xfrmode = "unknown",
                  !.code = 0, !.initrdir = NoDir,
                  !.serving = FALSE, !.inbox = <<>>]

(* fptc_getreply.  A reply of several lines may break off after the first: *)
(* the session is reset, and yet there is a reply.                         *)
Read(s) ==
  LET reply == Head(s.inbox)
  IN  [s EXCEPT !.inbox = Tail(@), !.code = reply.code, !.dir = reply.dir,
                !.num = reply.num, !.ok = TRUE]

GetReply(s) ==
  IF ~s.connected THEN {Fail(s)}
  ELSE IF s.inbox = <<>> THEN {[Fail(Reset(s)) EXCEPT !.dir = NoDir]}
  ELSE {Read(s)}
         \cup IF Head(s.inbox).code \in {220, 230}
              THEN {[Succeed(Reset(s)) EXCEPT !.dir = NoDir]} ELSE {}

(* The server hears a command, or says that it goes, or is gone.           *)
Hear(s, verb, arg) ==
  IF s.gone THEN {s}
  ELSE {Gone(s), Reply(Gone(s), 421)}
         \cup Answers(s, verb, arg)

(* ftpc_cmd.                                                               *)
Errout(s) == [Fail(s) EXCEPT !.code = 999]

Cmd(s, verb, arg) ==
  IF ~s.connected THEN {Errout(s)}
  ELSE (IF s.gone THEN {Errout(s)} ELSE {})
         \cup { IF ~t.ok THEN Errout(t)
                ELSE IF t.code = 421 \/ t.code \in 501..599 THEN Fail(t)
                ELSE t : t \in Then(Hear(s, verb, arg), GetReply) }

Plain(s, verb) == Cmd(s, verb, <<>>)

----------------------------------------------------------------------------
(* Connecting and logging in.                                              *)
Rpwd(s) == { [t EXCEPT !.ok = TRUE] : t \in Plain(s, "PWD") }

Chdir(s, dir) ==
  IfOk(Cmd(s, "CWD", dir),
       LAMBDA t : { [u EXCEPT !.currdir = u.dir] : u \in Rpwd(t) })

Relogin(s, user) ==
  LET In(t) ==
        { [u EXCEPT !.currdir = u.dir] : u \in Rpwd([t EXCEPT !.loggedin = TRUE]) }
      Start(t) == IF t.initrdir = NoDir THEN {t}
                  ELSE { Succeed(u) : u \in Chdir(t, t.initrdir) }
      Pass(t)  == IF t.code = 331 THEN Cmd(t, "PASS", user) ELSE {t}
  IN  IfOk(IfOk(IfOk(Cmd([s EXCEPT !.loggedin = FALSE], "USER", user), Pass),
                In), Start)

Login(s, user, dir, passive) ==
  IF ~(s.connected /\ s.up) \/ s.loggedin THEN {Fail(s)}
  ELSE Relogin([s EXCEPT !.initrdir = dir, !.passive = passive], user)

(* ftpc_connect; the session is freed when there is no connection.         *)
Connect(s, lacks) ==
  LET fresh == [NoSession EXCEPT
                  !.handle = TRUE, !.connected = TRUE, !.lacks = lacks,
                  !.cwd = Home, !.local = s.local, !.remote = s.remote]
      Greeted == {Reply(fresh, 220), Reply(Reply(fresh, 120), 220),
                  Reply(fresh, 421), fresh}
      Ready(t) == IF t.code = 120 THEN GetReply(t) ELSE {t}
      Up(t) == IF t.connected /\ t.code = 220 THEN {[t EXCEPT !.up = TRUE]}
               ELSE {[NoSession EXCEPT !.local = s.local, !.remote = s.remote]}
  IN  Then(Then(Then(Greeted, GetReply), Ready), Up)

----------------------------------------------------------------------------
(* Transfers.                                                              *)
XfrMode(s, mode) ==
  IF s.xfrmode = mode THEN {Succeed(s)}
  ELSE { [t EXCEPT !.xfrmode = mode, !.ok = TRUE] : t \in Cmd(s, "TYPE", mode) }

(* ftpc_xfrinit: the data channel, or a listener and its address.          *)
XfrInit(s) ==
  LET Closed(t) == [Fail(t) EXCEPT !.data = FALSE]
      Dial(t) == IF t.code = 229 /\ t.up /\ t.connected
                 THEN {t, Closed(t)} ELSE {Closed(t)}
      Failing(t) == IF t.ok THEN t ELSE Closed(t)
  IN  IF ~(s.connected /\ s.up) THEN {Fail(s)}
      ELSE { Failing(t) : t \in
               IF s.passive THEN IfOk(Plain([s EXCEPT !.data = TRUE], "EPSV"), Dial)
               ELSE Plain(s, "EPRT") }

(* ftpc_sockaccept waits for a server that connects.                       *)
Accept(s) ==
  IF s.passive THEN {s}
  ELSE IF s.serving THEN {[Succeed(s) EXCEPT !.data = TRUE]}
  ELSE {[s EXCEPT !.stuck = TRUE]}

CloseData(s) == [s EXCEPT !.data = FALSE]

(* The server has done with a transfer that the client leaves unread.      *)
Abandon(s, word) == [Fail(EndTransfer(s, word)) EXCEPT !.abandoned = TRUE]

(* ftpc_xfrabort, with the server's last word on the transfer.  When that  *)
(* is there already, nothing reads it; else ABOR, which has a reply too.   *)
XfrAbort(s, word) ==
  LET Second(t) == IF t.code \in {226, 426} THEN GetReply(t) ELSE {t}
  IN  IF ~(s.connected /\ s.up) THEN {Fail(s)}
      ELSE {Abandon(s, word), Fail(Reset(s))} \cup
           { Fail(t) : t \in
               Then(GetReply(Reply(EndTransfer(s, word), 226)), Second) }

(* The wire is read to its end, breaks off, or breaks with an error; the   *)
(* local file may take no more.  A last CR is half of a line's end.        *)
Decoded(wire, mode) ==
  IF mode = "I" THEN wire ELSE SelectSeq(wire, LAMBDA c : c # "CR")

Receive(s, mode, wire) ==
  UNION { LET part == SubSeq(wire, 1, n)
              t == [s EXCEPT !.local = @ \o Decoded(part, mode)]
              whole == n = Len(wire)
          IN  XfrAbort(t, IF whole THEN 226 ELSE 426)
                \cup IF mode = "A" /\ part # <<>> /\ Last(part) = "CR" THEN {}
                     ELSE {[EndTransfer(t, IF whole THEN 226 ELSE 426)
                              EXCEPT !.ok = TRUE]}
          : n \in 0..Len(wire) }

(* After the data channel is closed, the last reply is read; a mutant      *)
(* leaves it.                                                              *)
FinishDeaf(s) == {CloseData(s)}

Finish(s) ==
  IF ~s.ok THEN {CloseData(s)}
  ELSE { Succeed(t) : t \in GetReply(CloseData(s)) }

----------------------------------------------------------------------------
(* ftpc_getfile.  How much of a file that is not there is to be left out,  *)
(* and whether it may be written, is what the stack holds.                 *)
RecvInit(s, mode, offset) ==
  LET Rest(t) == IF offset > 0 THEN Cmd(t, "REST", offset) ELSE {t}
      Retr(t) == Plain(t, "RETR")
  IN  IfOk(IfOk(IfOk(IfOk(XfrInit(s),
        LAMBDA t : XfrMode(t, mode)), Rest), Retr), Accept)

Get(s, how, mode) ==
  LET before == s.local
      new == before = Absent
      offsets == IF how # "resume" THEN {0} ELSE IF new THEN {0, 1}
                 ELSE {Len(before)}
      Kept(offset) ==
        IF new \/ (offset = 0 /\ how # "append") THEN <<>> ELSE before
      Sent(t) == From(Encoded(t.remote, t.type), t.rest)
      Asked(t, offset) ==
        t.local = Kept(offset) \o From(t.remote, offset)
      Judge(t, offset) ==
        [t EXCEPT !.got =
           t.ok /\ t.code = 226 /\ ~t.abandoned
             /\ ~(how = "resume" /\ (new \/ mode = "A")) => Asked(t, offset)]
      Opened(t, offset) ==
        {Abandon(t, 426)} \cup
        { Judge(u, offset) :
            u \in Then(Receive([t EXCEPT !.local = Kept(offset)], mode,
                              Sent(t)), Finish) }
  IN  (IF new THEN {Fail(s)} ELSE {})
        \cup UNION { IfOk(RecvInit(s, mode, offset),
                          LAMBDA t : Opened(t, offset)) : offset \in offsets }

----------------------------------------------------------------------------
(* ftp_putfile.  Only the answer to STOU is looked at, and the result is   *)
(* that the file was sent.  A reset leaves no stream to write to.          *)
Verb(how) == CASE how = "unique" -> "STOU" [] how = "append" -> "APPE"
               [] OTHER -> "STOR"

Store(s, how, sent) ==
  IF ~s.serving \/ how = "unique" THEN s
  ELSE [s EXCEPT !.remote =
          IF how = "append" /\ @ # Absent THEN @ \o sent
          ELSE IF s.rest > 0 /\ @ # Absent
          THEN SubSeq(@, 1, IF s.rest < Len(@) THEN s.rest ELSE Len(@)) \o sent
          ELSE sent]

Transmit(s, how, mode, offset) ==
  LET wire == Encoded(From(s.local, offset), mode)
      Part(n) == Store(s, how, Decoded(SubSeq(wire, 1, n), mode))
  IN  IF ~s.data THEN {[s EXCEPT !.stuck = TRUE]}
      ELSE IF ~s.serving THEN {Succeed(s)}
      ELSE {Succeed(EndTransfer(Part(Len(wire)), 226))}
             \cup UNION { XfrAbort(Part(n), 426) : n \in 0..Len(wire) }

SendFile(s, how, mode, offset) ==
  LET Rest(t) == IF offset > 0 THEN Cmd(t, "REST", offset) ELSE {t}
      Stor(t) == Plain(t, Verb(how))
      Refused(t) == how = "unique" /\ t.code = 502
      Send(t) ==
        IF Refused(t) THEN {[Fail(t) EXCEPT !.caps = @ \ {"STOU"}]}
        ELSE { Succeed(u) : u \in
                 Then(Then(Accept(t), LAMBDA u : Transmit(u, how, mode, offset)),
                      Finish) }
  IN  IF how = "unique" /\ "STOU" \notin s.caps THEN {Fail(s)}
      ELSE IfOk(XfrInit(s),
             LAMBDA t : Then(Then(Then(XfrMode(t, mode), Rest), Stor), Send))

FileSize(s) ==
  LET Size(t) ==
        { IF u.code = 502 THEN [Fail(u) EXCEPT !.caps = @ \ {"SIZE"}]
          ELSE IF u.ok THEN u ELSE Fail(u) : u \in Plain(t, "SIZE") }
  IN  IF "SIZE" \notin s.caps THEN {Fail(s)}
      ELSE Then(XfrMode(s, "A"), Size)

Put(s, how, mode) ==
  IF s.local = Absent THEN {Fail(s)}
  ELSE IF how # "resume" THEN SendFile(s, how, mode, 0)
  ELSE IfOk(FileSize(s), LAMBDA t : SendFile(t, how, mode, t.num))

----------------------------------------------------------------------------
(* ftpc_listdir: there, the list, and back.                                *)
RecvDir(s) ==
  LET List(t) ==
        Then({EndTransfer(t, 226), EndTransfer(t, 426)}, Finish)
          \cup Then(XfrAbort(t, 226), Finish)
  IN  IF ~(s.connected /\ s.up) THEN {Fail(s)}
      ELSE IfOk(IfOk(IfOk(XfrInit(s), LAMBDA t : Plain(t, "NLST")),
                     Accept), List)

ListDir(s, dir) ==
  IF s.currdir = NoDir THEN {[s EXCEPT !.stuck = TRUE]}
  ELSE IF dir = s.currdir THEN RecvDir(s)
  ELSE Then(Then(Cmd(s, "CWD", dir), RecvDir),
            LAMBDA t : { [u EXCEPT !.ok = t.ok] : u \in
                           Cmd(t, "CWD", t.currdir) })

----------------------------------------------------------------------------
(* The other calls.                                                        *)
Cdup(s) == Then(Plain(s, "CDUP"),
             LAMBDA t : { [u EXCEPT !.currdir = u.dir] : u \in Rpwd(t) })

Site(s, verb) ==
  LET none == IF verb = "IDLE" THEN {500, 502} ELSE {502}
  IN  IF verb \notin s.caps THEN {Fail(s)}
      ELSE { IF t.code \in none THEN [t EXCEPT !.caps = @ \ {verb}] ELSE t :
               t \in Plain(s, verb) }

FileTime(s) ==
  IF ~(s.connected /\ s.up) \/ "MDTM" \notin s.caps THEN {Fail(s)}
  ELSE { CASE ~t.ok -> t
           [] t.ok /\ t.code = 202 -> [Fail(t) EXCEPT !.caps = @ \ {"MDTM"}]
           [] OTHER -> t : t \in Plain(s, "MDTM") }

Rename(s) == IfOk(Plain(s, "RNFR"), LAMBDA t : Plain(t, "RNTO"))

(* ftpc_quit says QUIT, ftpc_disconnect does not; the session is freed.    *)
Quit(s) == {[NoSession EXCEPT !.local = s.local, !.remote = s.remote]}

----------------------------------------------------------------------------
(* A call returns.  No later one looks at what these hold.                 *)
Call(sessions) ==
  \E s \in sessions :
    ftpc' = [s EXCEPT !.code = 0, !.dir = NoDir, !.num = 0, !.ok = TRUE,
                      !.initrdir = NoDir, !.data = FALSE]

(* The user logs in before it asks for more, and gives a session up that   *)
(* has left a transfer unread.                                             *)
FtpcNext ==
  \/ ~ftpc.handle /\ \E lacks \in FtpcLacks : Call(Connect(ftpc, lacks))
  \/ ftpc.handle /\ ~ftpc.stuck /\ Call(Quit(ftpc))
  \/ /\ ftpc.handle /\ ~ftpc.stuck /\ ~ftpc.abandoned
     /\ \E user \in {"anonymous", "member"}, dir \in {NoDir, Root},
           passive \in BOOLEAN : Call(Login(ftpc, user, dir, passive))
  \/ /\ ftpc.handle /\ ~ftpc.stuck /\ ~ftpc.abandoned
     /\ ftpc.loggedin \/ ~ftpc.connected
     /\ \/ \E dir \in Dirs \cup {<<"nowhere">>} :
             Call(Chdir(ftpc, dir)) \/ Call(ListDir(ftpc, dir))
        \/ Call(Cdup(ftpc))
        \/ \E mode \in {"A", "I"}, how \in {"normal", "append", "resume", "unique"} :
             /\ how = "append" \/ (how = "resume" /\ mode = "A")
                  => Len(ftpc.remote) + Len(ftpc.local) <= FtpcSizeMax
             /\ \/ how # "unique" /\ Call(Get(ftpc, how, mode))
                \/ Call(Put(ftpc, how, mode))
        \/ Call(FileSize(ftpc)) \/ Call(FileTime(ftpc))
        \/ Call(Site(ftpc, "CHMOD")) \/ Call(Site(ftpc, "IDLE"))
        \/ Call(Rename(ftpc))
        \/ \E verb \in {"DELE", "MKD", "RMD", "NOOP", "HELP"} :
             Call(Plain(ftpc, verb))

----------------------------------------------------------------------------
(* The client and its server are together: no reply is left that a later   *)
(* command would take for its own, and they agree on the directory, the    *)
(* type of transfers and what the server can do (ftpc_cmd.c).              *)
Agreed ==
  ftpc.connected /\ ftpc.up /\ ~ftpc.gone =>
    /\ ftpc.inbox = <<>>
    /\ Optional \ ftpc.lacks \subseteq ftpc.caps
    /\ ftpc.loggedin => /\ ftpc.user /\ ftpc.currdir = ftpc.cwd
                        /\ ftpc.xfrmode \in {"unknown", ftpc.type}

(* Whatever the server, the network and the local files do, a session that *)
(* lasts keeps in step with its server, unless the client leaves a         *)
(* transfer whose reply it does not read; and a file that a call has       *)
(* fetched is the server's, in full, behind what was there before if that  *)
(* was asked for (src/netutils/ftpc).                                      *)
InStep == ftpc.got /\ (ftpc.stuck \/ ftpc.abandoned \/ Agreed)

============================================================================
