---------------------------- MODULE MCLibraries ----------------------------
(***************************************************************************)
(* The parts of the repository that share no state with the tasks of the   *)
(* firmware, each with its own module: one of Libraries runs in each       *)
(* behaviour, and the others rest in their first state.                    *)
(* Those of NetLibraries are proved about as well.                         *)
(***************************************************************************)
EXTENDS Integers, Sequences, TLC, NetLibraries

CONSTANTS
  Libraries,   \* the libraries a run is about
  Clients, Stranger, NumAddresses, QueueMax, MaxLost, MaxRestarts, MaxForeign,
  MaxRecords,
  SemValueMax, MaxEnding,
  RetryCount, PppIds, PppSetups, MaxMishaps,
  NumItems, JsonNames, JsonBasics, JsonArrays, JsonTexts, JsonValues,
  FtpcLacks, FtpcRemote, FtpcLocal, FtpcSizeMax,
  WebRequests, WebTrees,
  NumMotors, MotorSpeeds, MotorPositions, MaxMotorRestarts,
  CodedTexts, Urls, Addresses, BlockSize, LowMax, MaxMessage,
  ChatScripts, Chars, MaxChars, MaxTimeout,
  Mails, MaxMails,
  HttpdSetups, HttpdBuffer, HttpdNameMax, HttpdFiles, HttpdCgis, Visits, MaxVisits, MaxVisitors,
  StringSize, XmlCalls, HurtCalls, XmlFunctions, TextBytes, MaxXmlCalls

VARIABLES
  library,
  lease, toServer, inbox, phase, retries, ipaddr, faults,
  sent, cut, held,
  state, interlock, daemon, fails, signalled, ending, caller, unresolved,
  settings, pppd, toRemote, toPppd, remote, mishaps,
  jsonHeap,
  ftpc,
  hc, files, answer,
  canDriver, canMotors, canAnswers, canGot, canRestarts,
  converted, md5,
  script, chat, toChat, spoken,
  smtp, smtpd, toSmtpd, toSmtp, mailing,
  httpd, handler, visitor,
  xmlcall, written, runs, response, xmlCount

(* Wheel speeds in halves, to the limits of four bytes of two values.      *)
MCSpeeds == {-15, -5, -1, 0, 1, 2, 4, 15}

(* Lines with and without a call, peers that want PAP or header compression. *)
MCPppSetups == { [scripts |-> FALSE, username |-> FALSE, wishes |-> {}],
  [scripts |-> TRUE, username |-> FALSE, wishes |-> {"AUTH", "VJ"}],
  [scripts |-> FALSE, username |-> TRUE, wishes |-> {"AUTH"}] }

(* The accounts of the FTP daemon.                                         *)
MCFtpAccounts == [
  guest |-> [admin |-> FALSE, password |-> FALSE, home |-> <<"", "g">>],
  root  |-> [admin |-> TRUE,  password |-> TRUE,  home |-> <<"", "g">>] ]

(* The home of a user without an account.                                  *)
MCFtpEnvHome == <<"", "h">>

(* Paths of a client: none, relative ones, an absolute one through /.. .   *)
MCFtpParams == { <<>>, <<"..">>, <<"a">>, <<"", "..", "a", ".">> }

(* A name in a JSON object, with a line feed.                              *)
MCJsonNames == { <<"K", "LF">> }

(* JSON items that are created.                                            *)
MCJsonBasics == { [type |-> "object", value |-> <<>>],
                 [type |-> "string", value |-> <<"\"", "BS">>] }

(* Numbers that an array is created from.                                  *)
MCJsonArrays == { <<"7">> }

(* A text with escapes in it, and one that does not end as it begins.      *)
MCJsonTexts == {
  <<"{", "\"", "n", "\\", "\\", "u", "\\", "n", "\"", ":", "[", "\"", "\\", "u", "0001", "\"", "]", "}">>,
  <<"[", "\"", "\\", "u", "0001", "\"", ",", "7", "}">> }

(* What these mean.                                                        *)
MCJsonValues == 
  LET Value(type, value, kids) == [type |-> type, value |-> value, kids |-> kids]
      Kid(name, value) == [name |-> name, value |-> value]
  IN  { Value("object", <<>>, <<>>), Value("string", <<"\"", "BS">>, <<>>),
        Value("array", <<>>, <<Kid(<<>>, Value("number", <<"7">>, <<>>))>>),
        Value("object", <<>>, <<Kid(<<"n", "\\", "u", "LF">>,
          Value("array", <<>>, <<Kid(<<>>, Value("string", <<"0001">>, <<>>))>>))>>) }

(* Commands the FTP server of the client does not know.                    *)
MCFtpcLacks == { {"STOU"} }

(* Its file.                                                               *)
MCFtpcRemote == <<"x", "LF">>

(* The client has none of that name.                                       *)
MCFtpcLocal == { <<"absent">> }

(* Requests to the web server: names of all kinds, parts of a file, and more. *)
MCWebRequests == 
  LET Plain == [method |-> "GET", absolute |-> "", path |-> <<"f">>, query |-> "",
        version |-> "1.0", host |-> "", accept |-> <<>>, cookie |-> "", since |-> -1,
        range |-> [from |-> -1, to |-> -1], rangeIf |-> -1, length |-> -1,
        keepAlive |-> FALSE]
      Whole == [Plain EXCEPT !.version = "1.1", !.host = "h", !.accept = <<"1", "2">>,
        !.cookie = "c", !.length = 1, !.keepAlive = TRUE]
  IN  { [Plain EXCEPT !.path = path, !.query = query] : query \in {"", "q"},
          path \in { <<"">>, <<"f">>, <<"%61">>, <<"a", "">>, <<"a", "g">>,
            <<"a", "..">>, <<"a", "..", "f">>, <<".">>, <<"a", ".">>, <<".", "a", "g">>,
            <<"a", ".", "g">>, <<"..", "f">>, <<"", "f">>, <<"a", "", "g">>,
            <<"a", "", "">>, <<"a", "a", "..">>, <<"cgi-bin", "p">>, <<"p">>, <<"no">>,
            <<"locked">>, <<"a", "..", "..">>, <<"f", "">>, <<"cgi-bin", "d", "p">> } }
  \union { [r EXCEPT !.method = method, !.path = path] : r \in {Plain, Whole},
          method \in {"GET", "HEAD", "POST", "PUT"}, path \in {<<"f">>, <<"cgi-bin", "p">>} }
  \union { [Plain EXCEPT !.range = [from |-> from, to |-> to], !.rangeIf = rangeIf] :
          from \in {0, 1}, to \in {-1, 0, 1, 9}, rangeIf \in {-1, 1} }
  \union { [Plain EXCEPT !.since = since, !.method = method] :
          since \in {1, 2}, method \in {"GET", "HEAD"} }
  \union { [Whole EXCEPT !.absolute = absolute, !.host = host, !.version = version] :
          absolute \in {"", "h"}, host \in {"", "h"}, version \in {"0.9", "1.0", "1.1"} }

(* The files of the web server.                                            *)
MCWebTree == 
  LET root == <<"mnt", "www">>
      scripts == root \o <<"cgi-bin">>
      Node(dir, world, size, mtime) ==
        [dir |-> dir, world |-> world, size |-> size, mtime |-> mtime]
  IN  root :> Node(TRUE, "x", 0, 1) @@ root \o <<"f">> :> Node(FALSE, "r", 3, 1)
      @@ root \o <<"a">> :> Node(TRUE, "r", 0, 1)
      @@ root \o <<"a", "g">> :> Node(FALSE, "r", 1, 1)
      @@ root \o <<"a", "a">> :> Node(TRUE, "r", 0, 1)
      @@ root \o <<"p">> :> Node(FALSE, "x", 1, 1) @@ scripts :> Node(TRUE, "x", 0, 1)
      @@ scripts \o <<"p">> :> Node(FALSE, "x", 1, 1)
      @@ root \o <<"locked">> :> Node(FALSE, "none", 1, 1)
      @@ root \o <<"index.htm">> :> Node(FALSE, "r", 1, 1)
      @@ <<"mnt">> :> Node(TRUE, "x", 0, 1) @@ <<"mnt", "f">> :> Node(FALSE, "r", 1, 1)

(* They may change: a file is written anew, and directories get an index.  *)
MCWebTrees == 
  LET root == <<"mnt", "www">>
      index == [dir |-> FALSE, world |-> "r", size |-> 1, mtime |-> 1]
  IN  { MCWebTree, [MCWebTree EXCEPT ![root \o <<"f">>] = [@ EXCEPT !.size = 2, !.mtime = 2]]
                   @@ root \o <<"index.html">> :> index
                   @@ root \o <<"a", "index.html">> :> index }

(* Speeds that fit in two bytes of two values, after the division by four. *)
MCMotorSpeeds == {-6, 5}

(* The least number of four such bytes, and one with other bytes.          *)
MCMotorPositions == {-8, 3}

(* Letters and digits, a percent and a plus sign, a blank, and others.     *)
MCCodedTexts == 
  UNION {[1 .. n -> {97, 52, 71, 37, 43, 32, 233}] : n \in 0 .. 3}
    \union {<<37, 52, 52, 37>>, <<255, 1, 128, 127>>, <<97, 32, 37, 250, 98>>}

(* Hosts with and without a port, and paths.                               *)
MCUrls == 
  { u \in [host : {<<97>>, <<97, 98, 46>>}, port : {-1, 0, 8, 8080, 65535},
           slashes : 0 .. 2, file : {<<>>, <<97>>, <<97, 47, 98>>}] :
    u.slashes = 0 => u.file = <<>> }

(* Hardware addresses.                                                     *)
MCAddresses == [1 .. 2 -> {0, 171, 255}] \union {<<1, 2, 253, 160, 10, 176>>, <<8, 7, 6, 5, 4, 3, 2, 255>>}

(* Scripts of a chat: answers waited for, commands, and quoted words.      *)
MCChatScripts == 
  LET L(lhs, rhs) == [lhs |-> lhs, rhs |-> rhs] IN
  { <<L(<<>>, <<"A", "T">>), L(<<"O", "K">>, <<"a", " ", "b">>), L(<<"K">>, <<>>)>>,
    <<L(<<"TIMEOUT">>, <<"1">>), L(<<"ECHO">>, <<"ON">>),
      L(<<"O", "K", "O">>, <<"\"", "\\">>), L(<<"PAUSE">>, <<"1">>)>>,
    <<L(<<"TIMEOUT">>, <<"0">>), L(<<"O", " ">>, <<" ", "\\">>), L(<<"TIMEOUT">>, <<"-1">>),
      L(<<"SAY">>, <<"n">>), L(<<"K">>, <<"c">>)>> }

(* Mails with one receiver and with two.                                   *)
MCMails == {[from |-> "f", to |-> "t", cc |-> c] : c \in {"", "c"}}

(* Devices, one with a description that is too long.                       *)
MCDeviceInfos == { [devclass |-> 7, description |-> <<200, 100>>], [devclass |-> 255, description |-> <<1, 2, 3, 4>>] }

(* Right and wrong requests, and parts of one.                             *)
MCPackets == 
  { <<153, 1, 7, 95>>, <<153, 1, 255, 103>>, <<153, 1, 9, 93>>, <<152, 1, 7, 96>>,
    <<153, 2, 7, 94>>, <<153, 1, 7, 94>>, <<153>>, <<1, 2>> }

(* Two telnet daemons.                                                     *)
MCTelnetConfigs == <<[port |-> 23, entry |-> "nsh"], [port |-> 24, entry |-> "test"]>>

(* Ways to build the uIP web server.                                       *)
MCHttpdSetups == {[classic |-> c, timeouts |-> c, cgiPath |-> c] : c \in BOOLEAN}

(* Its files: texts and scripts with percent signs, and a directory.       *)
MCHttpdFiles == 
  LET F(name, data) == [name |-> name, dir |-> FALSE, data |-> data] IN
  << F(<<"/", "a">>, <<<<"t">>, <<"%">>, <<"t">>>>),
     F(<<"/", "index", ".", "shtml">>, <<<<"t">>, <<"%">>, <<"%">>, <<"!">>, <<" ">>,
       <<"/", "f">>, <<"LF">>, <<"t">>>>),
     F(<<"/", "s", ".", "shtml">>, <<<<"%">>, <<"!">>, <<":">>, <<" ">>, <<"/", "a">>, <<"LF">>,
       <<"t">>, <<"%">>, <<"t">>, <<"t">>, <<"t">>, <<"t">>, <<"t">>, <<"t">>, <<"t">>, <<"%">>,
       <<"!">>, <<":">>, <<" ">>, <<"/", "no">>, <<"LF">>, <<"t">>>>),
     F(<<"/", "e">>, <<>>), F(<<"/", "404", ".", "html">>, <<<<"no">>>>),
     [name |-> <<"/", "d">>, dir |-> TRUE, data |-> <<>>] >>

(* Its functions.                                                          *)
MCHttpdCgis == << <<"/", "f">>, <<"/", "g">> >>

(* Requests to it, right and wrong, with lines that are too long.          *)
MCVisits == 
  LET Get(name) == <<<<"GET">>, name, <<"HTTP/1.0">>>>
      Keep == <<<<"Connection">>, <<"keep-alive">>>>
  IN  { <<Get(n), Keep>> : n \in { <<"/">>, <<"/", "s", ".", "shtml">>, <<"/", "no">>,
          <<"/", "f">>, <<"/", "a", "b", "c", "d">> } }
      \union { <<Get(<<"/", "a", "/">>), <<<<"Content-Length">>, <<"0">>>>, Keep>>,
               <<Get(<<"/", "e">>)>>, <<Get(<<"/", "d">>)>> }
      \union { <<Get(<<"/", "a">>), Keep, h>> : h \in { <<<<"Host">>>>,
          <<<<"Content-Length">>, <<"1">>>>, [i \in 1 .. 5 |-> <<"X">>], [i \in 1 .. 6 |-> <<"X">>] } }
      \union { <<<<word, <<"/", "a">>, <<"HTTP/2">>>>>> : word \in {<<"POST">>, <<"GET">>} }

(* Calls with arguments of each type, too few, unknown, and too long ones. *)
MCXmlCalls == 
  LET P(type, value) == [type |-> type, value |-> value]
      Call(name, params) == [name |-> name, params |-> params]
  IN  { Call(<<"f">>, <<P("i4", <<"7">>), P("string", <<"1", "x">>)>>),
        Call(<<"f">>, <<P("int", <<"1">>), P("boolean", <<"1">>)>>),
        Call(<<"g">>, <<P("double", <<"7">>), P("boolean", <<"7">>), P("string", <<"y">>)>>),
        Call(<<"h">>, <<>>), Call(<<"n", "o">>, <<>>),
        Call(<<"f">>, <<P("string", <<"a", "b", "c", "d", "e", "f", "g">>)>>) }

(* A call whose document is cut or broken.                                 *)
MCHurtCalls == 
  { [name |-> <<"f">>, params |-> <<[type |-> "int", value |-> <<"7">>]>>] }

(* Functions, one with a response that cannot be built.                    *)
MCXmlFunctions == 
  (<<"f">> :> [asks |-> <<"i", "s">>,
               returns |-> <<<<"{">>, <<"i", 5>>, <<"s", 0>>, <<"}">>>>])
  @@ (<<"g">> :> [asks |-> <<"d", "b">>, returns |-> <<<<"d", 0>>>>])
  @@ (<<"h">> :> [asks |-> <<>>, returns |-> <<<<"?">>>>])

(* Connections to the telnet daemons.                                      *)
MCConnections == <<"c1", "c2", "c3">>

Dhcp        == INSTANCE Dhcp
Protobuf    == INSTANCE Protobuf
Ntp         == INSTANCE NtpDaemon
Ppp         == INSTANCE Ppp
Json        == INSTANCE Json
Ftpc        == INSTANCE FtpClient
Web         == INSTANCE HttpAnswer
Drivers     == INSTANCE CanDrivers
Conversions == INSTANCE Codecs
Chats       == INSTANCE Chat
Mailer      == INSTANCE Smtp
Uip         == INSTANCE WebServer
XmlRpcs     == INSTANCE XmlRpc

wheel     == <<fitted, commanded, target, position, travelled>>
options   == <<optState, offered, wire, requests, reversed>>
stream    == <<line, said, ops, rx>>
dhcp      == <<lease, toServer, inbox, phase, retries, ipaddr, faults>>
protobuf  == <<sent, cut, held>>
tftp      == <<op, transfer, blockno, offset, retry, acktry, port, stored, sessions, flight>>
sockets   == <<link, arrived, uart, worker, sock, task, posts, conn, got, lost, late>>
commands  == <<at, operation, asking, asked, ans, bufans, told, workerAns, workerBuf, sem, pending, lines, carried, begun, notices, overdue>>
thttpd    == <<stage, after, server, scan, current, idleLeft, out>>
http      == <<asks, readIdx, checkedIdx, checkedState, verdict>>
ntp       == <<state, interlock, daemon, fails, signalled, ending, caller, unresolved>>
ppp       == <<settings, pppd, toRemote, toPppd, remote, mishaps>>
ftp       == <<ftpStep, guarded, login, dataConn, ftpFd, ftpPath, restarting, acted>>
json      == <<jsonHeap>>
ftpclient == <<ftpc>>
web       == <<hc, files, answer>>
drivers   == <<canDriver, canMotors, canAnswers, canGot, canRestarts>>
codecs    == <<converted, md5>>
chats     == <<script, chat, toChat, spoken>>
mailer    == <<smtp, smtpd, toSmtpd, toSmtp, mailing>>
discovery == <<discover, asker, responses>>
telnetd   == <<starter, common, telnetds, telnets, connected>>
webserver == <<httpd, handler, visitor>>
xmlrpc    == <<xmlcall, written, runs, response, xmlCount>>
vars == <<library, wheel, options, stream, dhcp, protobuf, tftp, sockets, commands, thttpd, http, ntp, ppp, ftp, json, ftpclient, web, drivers, codecs, chats, mailer, discovery, telnetd, webserver, xmlrpc>>

Init ==
  /\ library \in Libraries
  /\ Wheel!WheelInit
  /\ library # "wheel" =>
       fitted = [wheels |-> 2, index |-> 0, inverse |-> 1, brand |-> "Copley"]
  /\ Options!OptionsInit
  /\ library # "options" =>
       offered = [e \in Options!End |-> [s \in Options!Side |-> FALSE]]
  /\ Stream!StreamInit
  /\ Dhcp!DhcpInit
  /\ Protobuf!PbInit
  /\ Tftp!TftpInit
  /\ library # "tftp" =>
       op = "get"
  /\ Sockets!EspInit
  /\ Commands!CmdInit
  /\ Thttpd!ThttpdInit
  /\ Request!RequestInit
  /\ library # "http" =>
       asks = [words |-> 1, headers |-> 0, eol |-> <<"n">>]
  /\ Ntp!NtpInit
  /\ Ppp!PppInit
  /\ library # "ppp" =>
       settings = [scripts |-> FALSE, username |-> FALSE, wishes |-> {}]
  /\ Ftp!FtpInit
  /\ library # "ftp" =>
       guarded
  /\ Json!JsonInit
  /\ Ftpc!FtpcInit
  /\ Web!WebInit
  /\ library # "web" =>
       files = CHOOSE tree \in WebTrees : TRUE
  /\ Drivers!CanInit
  /\ library # "drivers" =>
       canDriver.protocol = Drivers!Own("Keya", 4)
  /\ Conversions!CodecsInit
  /\ Chats!ChatInit
  /\ library # "chats" =>
       Len(script) = 3
  /\ Mailer!SmtpInit
  /\ Discovery!DiscoverInit
  /\ library # "discovery" =>
       discover.info.devclass = 7
  /\ Telnetds!TelnetdInit
  /\ library # "telnetd" =>
       starter.silent
  /\ Uip!WebServerInit
  /\ library # "webserver" =>
       httpd.setup.classic
  /\ XmlRpcs!XmlInit

(* A step of one library.                                                  *)
In(lib) ==
  /\ library = lib
  /\ UNCHANGED library
  /\ lib # "wheel" => UNCHANGED wheel
  /\ lib # "options" => UNCHANGED options
  /\ lib # "stream" => UNCHANGED stream
  /\ lib # "dhcp" => UNCHANGED dhcp
  /\ lib # "protobuf" => UNCHANGED protobuf
  /\ lib # "tftp" => UNCHANGED tftp
  /\ lib # "sockets" => UNCHANGED sockets
  /\ lib # "commands" => UNCHANGED commands
  /\ lib # "thttpd" => UNCHANGED thttpd
  /\ lib # "http" => UNCHANGED http
  /\ lib # "ntp" => UNCHANGED ntp
  /\ lib # "ppp" => UNCHANGED ppp
  /\ lib # "ftp" => UNCHANGED ftp
  /\ lib # "json" => UNCHANGED json
  /\ lib # "ftpclient" => UNCHANGED ftpclient
  /\ lib # "web" => UNCHANGED web
  /\ lib # "drivers" => UNCHANGED drivers
  /\ lib # "codecs" => UNCHANGED codecs
  /\ lib # "chats" => UNCHANGED chats
  /\ lib # "mailer" => UNCHANGED mailer
  /\ lib # "discovery" => UNCHANGED discovery
  /\ lib # "telnetd" => UNCHANGED telnetd
  /\ lib # "webserver" => UNCHANGED webserver
  /\ lib # "xmlrpc" => UNCHANGED xmlrpc

Next ==
  \/ In("wheel") /\ Wheel!WheelNext
  \/ In("options") /\ Options!OptionsNext
  \/ In("stream") /\ Stream!StreamNext
  \/ In("dhcp") /\ Dhcp!DhcpNext
  \/ In("protobuf") /\ Protobuf!PbNext
  \/ In("tftp") /\ Tftp!TftpNext
  \/ In("sockets") /\ Sockets!EspNext
  \/ In("commands") /\ Commands!CmdNext
  \/ In("thttpd") /\ Thttpd!ThttpdMain
  \/ In("http") /\ Request!RequestNext
  \/ In("ntp") /\ Ntp!NtpNext
  \/ In("ppp") /\ Ppp!PppNext
  \/ In("ftp") /\ Ftp!FtpNext
  \/ In("json") /\ Json!JsonNext
  \/ In("ftpclient") /\ Ftpc!FtpcNext
  \/ In("web") /\ Web!WebNext
  \/ In("drivers") /\ Drivers!CanNext
  \/ In("codecs") /\ Conversions!CodecsNext
  \/ In("chats") /\ Chats!ChatNext
  \/ In("mailer") /\ Mailer!SmtpNext
  \/ In("discovery") /\ Discovery!DiscoverNext
  \/ In("telnetd") /\ Telnetds!TelnetdNext
  \/ In("webserver") /\ Uip!WebServerNext
  \/ In("xmlrpc") /\ XmlRpcs!XmlNext

Spec ==
  /\ Init /\ [][Next]_vars
  /\ \A e \in Options!End :
       WF_options(library = "options" /\ Options!Negotiate(e))
  /\ WF_dhcp(library = "dhcp" /\ Dhcp!DhcpdRun)
  /\ \A c \in Clients :
       /\ WF_dhcp(library = "dhcp" /\ Dhcp!Recv(c))
       /\ WF_dhcp(library = "dhcp" /\ Dhcp!RecvTimeout(c))
  /\ WF_thttpd(library = "thttpd" /\ Thttpd!ThttpdMain)
  /\ SF_thttpd(library = "thttpd" /\ Thttpd!TimePasses)
  /\ SF_thttpd(library = "thttpd" /\ Thttpd!ConnectionsCome)
  /\ WF_ntp(library = "ntp" /\ Ntp!Daemon)
  /\ WF_ntp(library = "ntp" /\ Ntp!Caller)
  /\ WF_ntp(library = "ntp" /\ Ntp!TellEnded)
  /\ WF_ppp(library = "ppp" /\ Ppp!Poll)
  /\ WF_ppp(library = "ppp" /\ Ppp!RemoteHears)
  /\ SF_ppp(library = "ppp" /\ Ppp!Waiting)
  /\ SF_ppp(library = "ppp" /\ Ppp!RemoteAsks)

----------------------------------------------------------------------------
(* Negotiation of a telnet option ends (telnetc.c).                        *)
NoLoop == library = "options" => Options!NoLoop

(* A lone DHCP client gets an address (dhcpc.c, dhcpd.c).                  *)
ClientBound == library = "dhcp" => Dhcp!ClientBound

(* No address is given to two clients (dhcpd.c).                           *)
NoAddressTwice == library = "dhcp" => Dhcp!NoAddressTwice

(* Each connection slot of thttpd is freed again (src/netutils/thttpd).    *)
SlotsReturn == library = "thttpd" => Thttpd!SlotsReturn

(* A file is sent whole (src/netutils/thttpd/thttpd.c).                    *)
FileComplete == library = "thttpd" => Thttpd!FileComplete

(* A PPP link comes up, again and again (src/netutils/pppd).               *)
LinkComesUp == library = "ppp" => Ppp!LinkComesUp

(* Items of a JSON value hold what their calls describe (src/netutils/json). *)
ListsKept == Json!ListsKept

(* What is encoded is decoded to itself (src/protobuffer, codecs, netlib). *)
EncodingsKept ==
  /\ library = "protobuf" => Protobuf!MessagesKept
  /\ library = "codecs" => Conversions!ConversionsFaithful

(* Starting and stopping the NTP daemon takes effect (src/netutils/ntpclient). *)
CallsTakeEffect ==
  /\ library = "ntp" => Ntp!CallsReturn
  /\ Ntp!CallsSettle

(* Both ends of a dialogue understand each other: clients keep in step     *)
(* with the other end (src/netutils/ftpc, chat, smtp), each driver protocol *)
(* with its motors (src/DriverProtocol), and each request is answered by    *)
(* what it says (libhttpd.c, httpd.c, xmlparser.c).                         *)
DialoguesKept ==
  /\ Ftpc!InStep
  /\ library = "chats" => Chats!ScriptFollowed
  /\ library = "mailer" => Mailer!MailsAccepted
  /\ library = "drivers" => Drivers!DriversUnderstood
  /\ library = "web" => Web!AnsweredAsAsked
  /\ library = "webserver" => Uip!VisitsAnswered
  /\ library = "xmlrpc" => XmlRpcs!CalledAsWritten

============================================================================
