----------------------------- MODULE HttpAnswer -----------------------------
(***************************************************************************)
(* How the web server answers a request (libhttpd.c).  A connection takes  *)
(* a slot, hc, that other connections have had before; its request is      *)
(* parsed into the slot, and the answer made from the slot and the files.  *)
(* Built without virtual hosts, ~user, passwords and listings, which is    *)
(* the default.                                                            *)
(*                                                                         *)
(* A path is the sequence of what stands between its slashes, so that the  *)
(* last part is "" when it ends in one.  "%61" is an encoded "a".  Names   *)
(* do not begin with a dot, and the response buffer holds a header.        *)
(***************************************************************************)
EXTENDS Integers, Sequences, SequencesExt

CONSTANTS
  WebRequests,    \* requests that clients make
  WebTrees        \* what may be in the file system: from paths to nodes

VARIABLES hc, files, answer

Root       == <<"mnt", "www">>
Scripts    == Root \o <<"cgi-bin">>                 \* CONFIG_THTTPD_CGI_PATTERN
IndexNames == <<"index.html", "index.htm">>
NoRange    == [from |-> -1, to |-> -1]
NoBody     == <<>>
NoAnswer   == [status |-> 0]

----------------------------------------------------------------------------
(* httpd_get_conn.  Mutants leave a field of the request before.           *)
Fresh ==
  [method |-> "UNKNOWN", query |-> "", orig |-> <<"">>, expn |-> <<"">>,
   accept |-> <<>>, cookie |-> "", reqhost |-> "", hdrhost |-> "",
   since |-> -1, rangeIf |-> -1, length |-> -1, mime |-> TRUE, oneOne |-> FALSE,
   gotRange |-> FALSE, start |-> 0, end |-> -1, keepAlive |-> FALSE,
   linger |-> FALSE, refused |-> 0]

GetConnSameRange == [Fresh EXCEPT !.end = hc.end]
GetConnSameQuery == [Fresh EXCEPT !.query = hc.query]
HttpdGetConn     == Fresh

Refuse(h, status) == [h EXCEPT !.refused = status]
Unless(h, condition, status) == IF condition THEN h ELSE Refuse(h, status)
IfFine(h, then) == IF h.refused = 0 THEN then ELSE h

----------------------------------------------------------------------------
(* Names of files.                                                         *)
Decoded(part) == IF part = "%61" THEN "a" ELSE part          \* httpd_strdecode

Within(path, junk) ==
  FlattenSeq([i \in DOMAIN path |->
    IF path[i] = junk /\ i \in 2..(Len(path) - 1) THEN <<>> ELSE <<path[i]>>])

RECURSIVE Past(_, _), Undotted(_), Trimmed(_)
Past(path, junk) ==
  IF Len(path) > 1 /\ path[1] = junk THEN Past(Tail(path), junk) ELSE path

Undotted(path) ==
  LET p  == Past(path, "..")
      up == {i \in 2..(Len(p) - 1) : p[i] = ".."}
  IN  IF up = {} THEN p
      ELSE LET i == CHOOSE i \in up : \A j \in up : i <= j
           IN  Undotted(SubSeq(p, 1, i - 2) \o SubSeq(p, i + 1, Len(p)))

Trimmed(path) ==
  IF Len(path) > 2 /\ Last(path) = ".." THEN Trimmed(Front(Front(path))) ELSE path

DeDotdot(path) ==
  Trimmed(Undotted(Within(Past(Within(path, ""), "."), ".")))

(* expand_filename: below the root, without a dot it begins with and a      *)
(* slash it ends in.                                                       *)
ExpandFilename(path) ==
  LET name  == IF path[1] = "." THEN Tail(path) ELSE path
      parts == IF name # <<>> /\ Last(name) = "" THEN Front(name) ELSE name
      Go(dir, part) == IF part # ".." THEN Append(dir, part)
                       ELSE IF dir = <<>> THEN dir ELSE Front(dir)
  IN  FoldLeft(Go, Root, parts)

----------------------------------------------------------------------------
(* httpd_parse_request.                                                    *)
RequestLine(h, r) ==
  LET line == [h EXCEPT !.mime = (r.version # "0.9"),
                        !.oneOne = (r.version = "1.1")]
  IN  IF r.absolute = "" THEN line
      ELSE IF ~line.oneOne THEN Refuse(line, 400)
      ELSE [line EXCEPT !.reqhost = r.absolute]

Method(h, r) ==
  IF r.method \in {"GET", "HEAD", "POST"} THEN [h EXCEPT !.method = r.method]
  ELSE Refuse(h, 501)

FileName(h, r) ==
  LET url  == IF r.path = <<"">> /\ r.query = "" THEN <<".">>
              ELSE [i \in DOMAIN r.path |-> Decoded(r.path[i])]
      name == DeDotdot(url)
  IN  Unless([h EXCEPT !.query = IF r.query = "" THEN @ ELSE r.query,
                       !.orig = name],
             ~(name[1] = "" /\ Len(name) > 1) /\ name[1] # "..", 400)

Headers(h, r) ==
  IF ~h.mime THEN h
  ELSE LET range == r.range # NoRange
       IN  [h EXCEPT
              !.hdrhost   = IF r.host = "" THEN @ ELSE r.host,
              !.accept    = @ \o r.accept,
              !.cookie    = IF r.cookie = "" THEN @ ELSE r.cookie,
              !.since     = IF r.since = -1 THEN @ ELSE r.since,
              !.gotRange  = @ \/ range,
              !.start     = IF range THEN r.range.from ELSE @,
              !.end       = IF r.range.to = -1 THEN @ ELSE r.range.to,
              !.rangeIf   = IF r.rangeIf = -1 THEN @ ELSE r.rangeIf,
              !.length    = IF r.length = -1 THEN @ ELSE r.length,
              !.keepAlive = @ \/ r.keepAlive]

Resolve(h) ==
  LET expn == ExpandFilename(h.orig)
  IN  IF h.oneOne /\ h.reqhost = "" /\ h.hdrhost = "" THEN Refuse(h, 400)
      ELSE Unless([h EXCEPT !.linger = @ \/ (h.oneOne /\ h.keepAlive),
                            !.expn = expn],
                  IsPrefix(Root, expn), 403)

HttpdParseRequest(h, r) ==
  LET line   == RequestLine(h, r)
      method == IfFine(line, Method(line, r))
      name   == IfFine(method, FileName(method, r))
      asked  == IfFine(name, Headers(name, r))
  IN  IfFine(asked, Resolve(asked))

----------------------------------------------------------------------------
(* Answers.                                                                *)
SendErr(h, r, status) ==
  [status |-> status, head |-> h.mime, file |-> <<>>, body |-> NoBody,
   location |-> <<>>, env |-> <<>>, linger |-> h.linger, request |-> r]

SendDirredirect(h, r) ==
  [SendErr(h, r, 302) EXCEPT
     !.location = [path |-> Append(r.path, ""), query |-> h.query]]

(* cgi, and what create_environment hands to the program.                  *)
Cgi(h, r) ==
  IF h.method = "HEAD" THEN SendErr(h, r, 501)
  ELSE [SendErr(h, r, 200) EXCEPT
          !.file = h.expn, !.linger = FALSE,
          !.env = [query |-> h.query, accept |-> h.accept, cookie |-> h.cookie,
                   host |-> h.hdrhost, length |-> h.length, method |-> h.method]]

(* send_mime, and where handle_read lets the file be sent from and to.     *)
SendMime(h, r, node, status) ==
  LET partial == /\ status = 200 /\ h.gotRange /\ h.end >= h.start
                 /\ h.end # node.size - 1 \/ h.start # 0
                 /\ h.rangeIf \in {-1, node.mtime}
      range   == h.gotRange /\ (h.mime => partial)
  IN  [SendErr(h, r, IF h.mime /\ partial THEN 206 ELSE status) EXCEPT
         !.file = h.expn,
         !.body = IF h.method = "HEAD" \/ status = 304 THEN NoBody
                  ELSE IF range THEN <<h.start, h.end + 1>>
                  ELSE <<0, node.size>>]

SendFile(h, r) ==
  LET node == files[h.expn]
      g == [h EXCEPT !.end = IF h.gotRange /\ (@ = -1 \/ @ >= node.size)
                             THEN node.size - 1 ELSE @]
  IN  IF h.method # "HEAD" /\ h.since # -1 /\ h.since >= node.mtime
      THEN SendMime(g, r, node, 304) ELSE SendMime(g, r, node, 200)

(* The rest of httpd_start_request, for a file or a directory's index.     *)
StartFile(h, r) ==
  CASE files[h.expn].world = "none"               -> SendErr(h, r, 403)
    [] Len(h.expn) = Len(Scripts) + 1 /\ IsPrefix(Scripts, h.expn) -> Cgi(h, r)
    [] files[h.expn].world = "x"                  -> SendErr(h, r, 403)
    [] OTHER                                      -> SendFile(h, r)

HttpdStartRequest(h, r) ==
  LET indices == SelectSeq(IndexNames, LAMBDA n : Append(h.expn, n) \in DOMAIN files)
  IN  CASE h.expn \notin DOMAIN files -> SendErr(h, r, 500)
        [] files[h.expn].world = "none" -> SendErr(h, r, 403)
        [] ~files[h.expn].dir -> StartFile(h, r)
        [] h.orig \notin {<<"">>, <<".">>} /\ Last(h.orig) # "" -> SendDirredirect(h, r)
        [] indices = <<>> -> SendErr(h, r, 403)
        [] OTHER -> StartFile([h EXCEPT !.expn = Append(@, Head(indices))], r)

----------------------------------------------------------------------------
WebInit == hc = Fresh /\ files \in WebTrees /\ answer = NoAnswer

(* handle_newconnect takes the slot, handle_read serves its request.       *)
NewConnection == answer # NoAnswer /\ hc' = HttpdGetConn /\ answer' = NoAnswer
                   /\ UNCHANGED files

HandleRead(r) ==
  LET h == HttpdParseRequest(hc, r)
  IN  /\ answer = NoAnswer
      /\ hc' = h
      /\ answer' = IF h.refused # 0 THEN SendErr(h, r, h.refused)
                   ELSE HttpdStartRequest(h, r)
      /\ UNCHANGED files

FilesChange == answer = NoAnswer /\ files' \in WebTrees /\ UNCHANGED <<hc, answer>>

WebNext == NewConnection \/ FilesChange \/ \E r \in WebRequests : HandleRead(r)

----------------------------------------------------------------------------
(* What a request means, by itself.                                        *)
Meant(r) ==
  LET Go(dir, part) == CASE part \in {"", "."} -> dir
                         [] part = ".." -> IF dir = <<>> THEN dir ELSE Front(dir)
                         [] OTHER -> Append(dir, Decoded(part))
  IN  Root \o FoldLeft(Go, <<>>, r.path)

IndexOf(dir) ==
  LET there == {i \in DOMAIN IndexNames : Append(dir, IndexNames[i]) \in DOMAIN files}
  IN  IF there = {} THEN {}
      ELSE {Append(dir, IndexNames[CHOOSE i \in there : \A j \in there : i <= j])}

(* The file that is to be sent for a request, or none.                     *)
MeantFile(r) ==
  IF Meant(r) \notin DOMAIN files THEN {}
  ELSE IF files[Meant(r)].dir THEN IndexOf(Meant(r)) ELSE {Meant(r)}

IsScript(file) == Front(file) = Scripts

(* The bytes of a file that a request asks for.                            *)
MeantPart(r, node) ==
  LET to == IF r.range.to = -1 \/ r.range.to >= node.size
            THEN node.size ELSE r.range.to + 1
  IN  IF r.range = NoRange \/ r.range.from >= to
           \/ r.rangeIf \notin {-1, node.mtime}
      THEN <<0, node.size>> ELSE <<r.range.from, to>>

Known(r, node) == r.since >= node.mtime /\ r.method # "HEAD"

Proper(r) == /\ r.method \in {"GET", "HEAD", "POST"}
             /\ r.version = "1.1" => r.host # "" \/ r.absolute # ""
             /\ r.absolute # "" => r.version = "1.1"

Straight(r) == \A i \in DOMAIN r.path :
                 r.path[i] \notin {".", ".."} /\ (r.path[i] = "" => i = Len(r.path))

(* Each request is answered by what it says itself, whatever requests the  *)
(* slot has seen before: the file it names, below the root and open to the *)
(* world; the part of it that was asked for, under a status that says so;  *)
(* "not modified" only to who has asked; a redirection to the directory,   *)
(* with its own query; and a program gets its own request's environment.   *)
(* A file that is there and may be served is served (libhttpd.c).          *)
AnsweredAsAsked ==
  answer # NoAnswer =>
    LET r == answer.request IN
    /\ answer.head = (r.version # "0.9")
    /\ answer.status \in {200, 206, 304} =>
         /\ Proper(r) /\ MeantFile(r) = {answer.file}
         /\ LET node == files[answer.file]
                part == MeantPart(r, node)
            IN  IF IsScript(answer.file)
                THEN /\ node.world # "none" /\ ~answer.linger
                     /\ answer.env = [query |-> r.query, accept |-> r.accept,
                          cookie |-> r.cookie, host |-> r.host,
                          length |-> r.length, method |-> r.method]
                ELSE /\ node.world = "r"
                     /\ answer.linger = (r.version = "1.1" /\ r.keepAlive)
                     /\ answer.status = 304 <=> Known(r, node)
                     /\ answer.status = 206 <=>
                          ~Known(r, node) /\ part # <<0, node.size>>
                     /\ answer.body = IF Known(r, node) \/ r.method = "HEAD"
                                      THEN NoBody ELSE part
    /\ answer.status = 302 =>
         /\ Proper(r) /\ Meant(r) \in DOMAIN files /\ files[Meant(r)].dir
         /\ Last(r.path) # ""
         /\ answer.location = [path |-> Append(r.path, ""), query |-> r.query]
    /\ Proper(r) /\ Straight(r) =>
         \A file \in MeantFile(r) :
           \/ answer.status \in {200, 206, 304, 302}
           \/ \E path \in {Meant(r), file} : files[path].world = "none"
           \/ IF IsScript(file) THEN r.method = "HEAD"
              ELSE files[file].world = "x"

============================================================================
