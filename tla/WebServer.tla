----------------------------- MODULE WebServer -----------------------------
(***************************************************************************)
(* src/netutils/webserver (the uIP web server): connections are accepted,  *)
(* requests parsed block by block and answered from a list of files        *)
(* (CLASSIC) or a file system (SENDFILE), with scripts and functions.  The *)
(* threads of two connections have nothing in common: one at a time is     *)
(* modelled.  What is sent and kept is in tokens, each a sequence: a word, *)
(* a name by its characters, and CR and LF.  Segments do not part a CR     *)
(* from its LF, and a client waits for an answer before it asks again.     *)
(***************************************************************************)
EXTENDS Integers, Sequences, SequencesExt, FiniteSetsExt, TLC

CONSTANTS
  HttpdSetups,     \* records: classic, timeouts (so that connections are kept), cgiPath
  HttpdBuffer,     \* tokens in ht_buffer, and those sent at once from a script
  HttpdNameMax,    \* characters in ht_filename
  HttpdFiles,      \* the files in their order: name, dir and data
  HttpdCgis,       \* the names of functions, the last registered first
  Visits,          \* requests, as sequences of lines
  MaxVisits,       \* requests of a client
  MaxVisitors      \* clients

VARIABLES
  httpd,           \* the accept loop
  handler,         \* httpd_handler and its pstate
  visitor          \* the client: what is under way, and its answers

CR == <<"CR">>
LF == <<"LF">>
NUL == <<"NUL">>
Index == <<"/", "index", ".", "shtml">>

----------------------------------------------------------------------------
(* httpd_fs_open: the first file with a name that the given one begins     *)
(* with.  In a line of a script a name that ends is as good.               *)
FsMatches(name, inLine) ==
  {i \in DOMAIN HttpdFiles :
     /\ ~HttpdFiles[i].dir
     /\ \/ IsPrefix(HttpdFiles[i].name, name)
        \/ inLine /\ IsPrefix(name, HttpdFiles[i].name)}

FsOpen(name, inLine) ==
  LET found == FsMatches(name, inLine)
  IN  IF found = {} THEN 0 ELSE Min(found)

(* httpd_sendfile_open.                                                    *)
SendfileOpen(name) ==
  LET found == {i \in DOMAIN HttpdFiles : HttpdFiles[i].name = name /\ ~HttpdFiles[i].dir}
  IN  IF found = {} THEN 0 ELSE Min(found)

(* httpd_openindex.  No name of an index is known with SENDFILE.           *)
OpenIndex(name) ==
  LET file == IF name # <<>> /\ Last(name) = "/" THEN Front(name) ELSE name
  IN  IF httpd.setup.classic THEN FsOpen(file, FALSE) ELSE SendfileOpen(file)

(* httpd_cgi.                                                              *)
HttpdCgi(name) ==
  LET found == {i \in DOMAIN HttpdCgis : IsPrefix(HttpdCgis[i], name)}
  IN  IF found = {} THEN <<>> ELSE HttpdCgis[Min(found)]

CgiSays(function) == <<"cgi">> \o function

(* handle_script, from each place in a file.  A mutant looks for the next  *)
(* percent sign from where it is.                                          *)
SearchFromHere(data, k) == k
SearchFrom(data, k) == IF data[k] = <<"%">> THEN k + 1 ELSE k

HandleScript(data) ==
  LET n == Len(data)
      IsScript(k) == data[k] = <<"%">> /\ k < n /\ data[k + 1] = <<"!">>
      LineEnd(k) == CHOOSE j \in k .. n : data[j] = LF /\ \A i \in k .. j - 1 : data[i] # LF
      Rest(k) == FlattenSeq(SubSeq(data, k, LineEnd(k) - 1))
      Run(k) ==   \* what a script sends, and whether it fails
        IF data[k + 2] = <<":">>
        THEN LET file == FsOpen(Rest(k + 4), TRUE)
             IN  [ok |-> file # 0, sent |-> IF file # 0 THEN HttpdFiles[file].data ELSE <<>>]
        ELSE [ok |-> TRUE, sent |-> LET f == HttpdCgi(Rest(k + 3))
                                    IN  IF f = <<>> THEN <<>> ELSE <<CgiSays(f)>>]
      Percents(k) == {j \in SearchFrom(data, k) .. n : data[j] = <<"%">>}
      TextLen(k) ==
        LET upTo == IF Percents(k) # {} /\ Min(Percents(k)) # k THEN Min(Percents(k)) - k
                    ELSE n - k + 1
        IN  Min({upTo, HttpdBuffer})
      from[k \in 1 .. n + 1] ==
        IF k > n THEN [ok |-> TRUE, sent |-> <<>>]
        ELSE IF IsScript(k)
        THEN LET run == Run(k) IN
             IF ~run.ok THEN run
             ELSE LET rest == from[LineEnd(k) + 1]
                  IN  [ok |-> rest.ok, sent |-> run.sent \o rest.sent]
        ELSE LET rest == from[k + TextLen(k)]
             IN  [ok |-> rest.ok, sent |-> SubSeq(data, k, k + TextLen(k) - 1) \o rest.sent]
  IN  from[1]

----------------------------------------------------------------------------
(* An answer: len is -1 where no Content-Length is sent.                   *)
Answer(status, len, body, keep) == [status |-> status, len |-> len, body |-> body, keep |-> keep]

(* httpd_senderror.  The page for an error is a file, or a line.           *)
ErrorPage(status) == <<"/", ToString(status), ".", "html">>
ErrorLine(status) == <<<<"Error", ToString(status)>>>>

SendError(status, keep) ==
  LET file == OpenIndex(ErrorPage(status))
      body == IF file # 0 THEN HttpdFiles[file].data ELSE ErrorLine(status)
  IN  Answer(status, Len(body), body, keep /\ status = 404)

IsShtml(name) ==
  /\ "." \in ToSet(name)
  /\ LET dot == Min({i \in DOMAIN name : name[i] = "."})
     IN  dot < Len(name) /\ name[dot + 1] = "shtml"

(* httpd_sendfile, and which function says it all.                         *)
SendFile(name, keep) ==
  LET function == HttpdCgi(name)
      file == OpenIndex(name)
      data == HttpdFiles[file].data
  IN  IF httpd.setup.cgiPath /\ function # <<>>
      THEN Answer(0, -1, <<CgiSays(function)>>, FALSE)
      ELSE IF file = 0 THEN SendError(404, keep)
      ELSE IF httpd.setup.classic /\ IsShtml(name)
      THEN Answer(200, -1, HandleScript(data).sent, FALSE)
      ELSE Answer(IF data = <<>> THEN 204 ELSE 200, Len(data), data, keep)

----------------------------------------------------------------------------
NoHandler == [state |-> "none", buffer |-> <<>>, o |-> 0, line |-> "method",
              filename |-> <<>>, keep |-> FALSE, status |-> 0]
NoVisitor == [state |-> "none", toSend |-> <<>>, asked |-> <<>>, answers |-> <<>>]

WebServerInit ==
  /\ \E setup \in HttpdSetups :
       httpd = [state |-> "closed", setup |-> setup, sockets |-> 0, visits |-> 0]
  /\ handler = NoHandler /\ visitor = NoVisitor

(* httpd_init, httpd_listen, and netlib_listenon.                          *)
ListenOn(works) ==
  /\ httpd.state = "closed"
  /\ httpd' = IF works THEN [httpd EXCEPT !.state = "accept", !.sockets = 1]
              ELSE [httpd EXCEPT !.state = "ended"]
  /\ UNCHANGED <<handler, visitor>>

(* netlib_server and single_server: accept, setsockopt and pthread_create  *)
(* may fail.  Only the lack of a thread is put up with; a handler starts   *)
(* with all of its state zero, if there is memory for it.                  *)
AcceptVisitor(failure) ==
  /\ httpd.state = "accept" /\ handler.state = "none" /\ httpd.visits < MaxVisitors
  /\ CASE failure = "none" ->
            /\ httpd' = [httpd EXCEPT !.sockets = @ + 1, !.visits = @ + 1]
            /\ handler' = [NoHandler EXCEPT !.state = "parse",
                                            !.buffer = [i \in 1 .. HttpdBuffer |-> NUL]]
            /\ visitor' = [NoVisitor EXCEPT !.state = "connected"]
       [] failure \in {"EAGAIN", "malloc"} ->
            /\ httpd' = [httpd EXCEPT !.visits = @ + 1]
            /\ UNCHANGED <<handler, visitor>>
       [] failure = "other" ->
            /\ httpd' = [httpd EXCEPT !.state = "ended", !.sockets = @ - 1]
            /\ UNCHANGED <<handler, visitor>>

----------------------------------------------------------------------------
(* httpd_parse takes one line of a block.  What is after a CR at the end   *)
(* of the buffer is ht_filename.                                           *)
Method(p, words) ==
  CASE words = <<>> \/ words[1] # <<"GET">> \/ Len(words) = 1 -> [p EXCEPT !.status = 501]
    [] Len(words) >= 2 /\ words[1] = <<"GET">>
         /\ ~(Len(words) = 3 /\ words[3] \in {<<"HTTP/1.0">>, <<"HTTP/1.1">>}) ->
         [p EXCEPT !.status = 505]
    [] OTHER -> IF Len(words[2]) >= HttpdNameMax THEN [p EXCEPT !.status = 414]
                ELSE [p EXCEPT !.filename = words[2], !.line = "header"]

Header(p, words) ==
  CASE words = <<>> -> [p EXCEPT !.line = "body"]
    [] Len(words) = 1 -> [p EXCEPT !.status = 400]
    [] Len(words) >= 2 ->
         IF words[1] = <<"Content-Length">> /\ words[2] # <<"0">> THEN [p EXCEPT !.status = 413]
         ELSE IF httpd.setup.timeouts /\ words = <<<<"Connection">>, <<"keep-alive">>>>
         THEN [p EXCEPT !.keep = TRUE] ELSE p

TakeLine(p, cr) ==
  LET words == SubSeq(p.buffer, p.start, cr - 1)
      after == [p EXCEPT !.start = cr + 2]
  IN  IF cr = HttpdBuffer \/ p.buffer[cr + 1] # LF THEN [p EXCEPT !.status = 400]
      ELSE CASE p.line = "method" -> Method(after, words)
             [] p.line = "header" -> Header(after, words)
             [] p.line = "body"   -> after

(* Each line of the block in turn, and what is left goes to its front.  A  *)
(* mutant forgets what is left.                                            *)
ShuffledAway(p) == [p EXCEPT !.o = 0]
Shuffled(p) ==
  LET left == SubSeq(p.buffer, p.start, p.o)
  IN  [p EXCEPT !.buffer = left \o SubSeq(@, Len(left) + 1, HttpdBuffer), !.o = Len(left)]

Block(h, segment) ==
  LET filled == [state |-> h.state, line |-> h.line, filename |-> h.filename, keep |-> h.keep,
                 status |-> 0, start |-> 1, o |-> h.o + Len(segment),
                 buffer |-> SubSeq(h.buffer, 1, h.o) \o segment
                              \o SubSeq(h.buffer, h.o + Len(segment) + 1, HttpdBuffer)]
      taken  == FoldLeft(LAMBDA p, i : IF p.status = 0 /\ i >= p.start /\ p.buffer[i] = CR
                                       THEN TakeLine(p, i) ELSE p,
                         filled, [i \in 1 .. filled.o |-> i])
      left   == IF taken.status = 0 THEN Shuffled(taken) ELSE taken
      Named(name) == IF httpd.setup.classic /\ name = <<"/">> THEN Index ELSE name
  IN  [state    |-> IF left.status # 0 \/ left.line = "body" THEN "send" ELSE "parse",
       buffer   |-> left.buffer, o |-> left.o, line |-> left.line,
       filename |-> IF left.line = "body" THEN Named(left.filename) ELSE left.filename,
       keep     |-> left.keep,
       status   |-> IF left.status = 0 /\ left.line = "body" THEN 200 ELSE left.status]

Room == HttpdBuffer - handler.o

(* recv gives a part of what has come, a whole line's end or all that fits. *)
Recv(n) ==
  LET segment == SubSeq(visitor.toSend, 1, n) IN
  /\ handler.state = "parse" /\ n \in 1 .. Min({Room, Len(visitor.toSend)})
  /\ n < Room => Last(segment) # CR
  /\ handler' = Block(handler, segment)
  /\ visitor' = [visitor EXCEPT !.toSend = SubSeq(@, n + 1, Len(@))]
  /\ UNCHANGED httpd

(* The buffer is full; or recv fails, or it takes too long, which counts   *)
(* as failing unless it was asked for.                                     *)
Fail(status) ==
  /\ handler.state = "parse"
  /\ CASE status = 413 -> Room = 0
       [] status = 400 -> Room > 0
       [] status = 408 -> Room > 0 /\ httpd.setup.timeouts /\ visitor.toSend = <<>>
  /\ handler' = [handler EXCEPT !.state = "send", !.status = status]
  /\ UNCHANGED <<httpd, visitor>>

(* The client is gone: the status is less than any of an error.            *)
ConnectionLost ==
  /\ handler.state = "parse" /\ Room > 0 /\ visitor.state = "gone" /\ visitor.toSend = <<>>
  /\ handler' = [handler EXCEPT !.state = "send", !.status = -1]
  /\ UNCHANGED <<httpd, visitor>>

(* httpd_handler answers, and goes on with the connection or closes it.    *)
Reply ==
  LET reply == IF handler.status >= 400 THEN SendError(handler.status, handler.keep)
               ELSE SendFile(handler.filename, handler.keep)
  IN
  /\ handler.state = "send"
  /\ visitor' = IF visitor.state = "gone" THEN visitor
                ELSE [visitor EXCEPT !.answers = Append(@, reply @@ [failed |-> handler.status])]
  /\ IF reply.keep
     THEN /\ handler' = [handler EXCEPT !.state = "parse", !.o = 0, !.line = "method",
                                        !.keep = FALSE, !.status = 0,
                                        !.filename = IF reply.status = 404
                                                     THEN ErrorPage(404) ELSE @]
          /\ UNCHANGED httpd
     ELSE /\ handler' = NoHandler
          /\ httpd' = [httpd EXCEPT !.sockets = @ - 1]

----------------------------------------------------------------------------
(* The client (external).                                                  *)
Line(words) == words \o <<CR, LF>>
Written(visit) == FlattenSeq([k \in DOMAIN visit |-> Line(visit[k])]) \o Line(<<>>)

Ask(visit) ==
  /\ visitor.state = "connected" /\ handler.state = "parse"
  /\ Len(visitor.answers) = Len(visitor.asked) /\ Len(visitor.asked) < MaxVisits
  /\ visitor' = [visitor EXCEPT !.asked = Append(@, visit), !.toSend = Written(visit)]
  /\ UNCHANGED <<httpd, handler>>

Leave ==
  /\ visitor.state = "connected"
  /\ visitor' = [visitor EXCEPT !.state = "gone"]
  /\ UNCHANGED <<httpd, handler>>

WebServerNext ==
  \/ \E works \in BOOLEAN : ListenOn(works)
  \/ \E failure \in {"none", "EAGAIN", "malloc", "other"} : AcceptVisitor(failure)
  \/ \E n \in 1 .. HttpdBuffer : Recv(n)
  \/ \E status \in {400, 408, 413} : Fail(status)
  \/ ConnectionLost \/ Reply \/ Leave
  \/ \E visit \in Visits : Ask(visit)

----------------------------------------------------------------------------
(* What a line is worth, by itself.                                        *)
MethodStatus(words) ==
  IF words[1] # <<"GET">> THEN 501
  ELSE IF Len(words) # 3 \/ words[3] \notin {<<"HTTP/1.0">>, <<"HTTP/1.1">>} THEN 505
  ELSE IF Len(words[2]) >= HttpdNameMax THEN 414 ELSE 0

LineStatus(visit, k) ==
  CASE Len(visit[k]) >= HttpdBuffer -> 413
    [] Len(visit[k]) = HttpdBuffer - 1 -> 400
    [] Len(visit[k]) < HttpdBuffer - 1 ->
         IF k = 1 THEN MethodStatus(visit[k])
         ELSE IF Len(visit[k]) = 1 THEN 400
         ELSE IF visit[k][1] = <<"Content-Length">> /\ visit[k][2] # <<"0">> THEN 413 ELSE 0

Wrong(visit) == {k \in DOMAIN visit : LineStatus(visit, k) # 0}
Kept(visit) == httpd.setup.timeouts /\ <<<<"Connection">>, <<"keep-alive">>>> \in ToSet(visit)

(* The files a name may stand for, and what a script says: its text, with  *)
(* another file or a function's words in place of each of its lines.       *)
FilesNamed(name) ==
  LET whole == IF name = <<"/">> /\ httpd.setup.classic THEN Index
               ELSE IF Last(name) = "/" THEN Front(name) ELSE name
  IN  {f \in ToSet(HttpdFiles) : ~f.dir /\ (IF httpd.setup.classic THEN IsPrefix(f.name, whole)
                                            ELSE f.name = whole)}

IsMarked(data, i) == data[i] = <<"%">> /\ i < Len(data) /\ data[i + 1] = <<"!">>

Spoken(data) ==
  LET InScript(i) == \E j \in 1 .. i : IsMarked(data, j) /\ \A k \in j .. i - 1 : data[k] # LF
      Name(i) == CHOOSE name \in {FlattenSeq(SubSeq(data, i, k)) : k \in i .. Len(data)} :
                   \E k \in i .. Len(data) - 1 :
                     /\ data[k + 1] = LF /\ name = FlattenSeq(SubSeq(data, i, k))
                     /\ \A j \in i .. k : data[j] # LF
      Included(i) == {f \in ToSet(HttpdFiles) : f.name = Name(i + 4)}
      Says(i) == CASE data[i + 2] = <<":">> ->
                        IF Included(i) = {} THEN <<NUL>> ELSE (CHOOSE f \in Included(i) : TRUE).data
                   [] data[i + 2] # <<":">> ->
                        IF Name(i + 3) \in ToSet(HttpdCgis) THEN <<CgiSays(Name(i + 3))>> ELSE <<>>
  IN  FlattenSeq([i \in DOMAIN data |->
        IF ~InScript(i) THEN <<data[i]>> ELSE IF IsMarked(data, i) THEN Says(i) ELSE <<>>])

(* A file that a script lacks ends the answer.                             *)
UpToNul(tokens) ==
  IF NUL \in ToSet(tokens)
  THEN SubSeq(tokens, 1, Min({i \in DOMAIN tokens : tokens[i] = NUL}) - 1) ELSE tokens

RightBody(answer, name, keep) ==
  \/ /\ FilesNamed(name) = {} /\ answer.status = 404 /\ answer.keep = keep
  \/ \E f \in FilesNamed(name) :
       IF httpd.setup.classic /\ IsShtml(IF name = <<"/">> THEN Index ELSE name)
       THEN /\ answer.len = -1 /\ ~answer.keep
            /\ answer.body = UpToNul(Spoken(f.data))
       ELSE answer.body = f.data /\ answer.len = Len(f.data) /\ answer.keep = keep

(* Each request is answered once, in its order, by what its first wrong    *)
(* line says or with the file it names, however it came in; the length is  *)
(* that of what is sent; scripts are run and not shown; the connection is  *)
(* kept just when the client was told so, and every socket is closed in    *)
(* the end.                                                                *)
VisitsAnswered ==
  /\ Len(visitor.answers) <= Len(visitor.asked) \/ Last(visitor.answers).failed \in {400, 408}
  /\ \A k \in DOMAIN visitor.answers \intersect DOMAIN visitor.asked :
       LET answer == visitor.answers[k]
           visit  == visitor.asked[k]
       IN  /\ answer.len # -1 => answer.len = Len(answer.body)
           /\ k < Len(visitor.answers) => answer.keep
           /\ IF Wrong(visit) # {}
              THEN answer.status \in {LineStatus(visit, Min(Wrong(visit))), 400, 408}
              ELSE answer.failed = 200 =>
                     \/ answer.status = 0 /\ httpd.setup.cgiPath
                          /\ HttpdCgi(visit[1][2]) # <<>>
                     \/ RightBody(answer, visit[1][2], Kept(visit))
  /\ httpd.sockets = (IF httpd.state = "accept" THEN 1 ELSE 0)
                       + (IF handler.state = "none" THEN 0 ELSE 1)

=============================================================================
