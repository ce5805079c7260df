------------------------------- MODULE XmlRpc -------------------------------
(***************************************************************************)
(* src/netutils/xmlrpc: documents are parsed, functions called with their  *)
(* arguments, and responses built.  A document is in characters, where the *)
(* words of a tag, and what a value is made of, count as one each; after   *)
(* its end there are zeros.  A call has no more than MAX_ARGS arguments.   *)
(***************************************************************************)
EXTENDS Integers, Sequences, SequencesExt, FiniteSetsExt, TLC

CONSTANTS
  StringSize,    \* CONFIG_XMLRPC_STRINGSIZE
  XmlCalls,      \* calls as they are meant: a name and parameters
  HurtCalls,     \* those whose documents may be cut or broken
  XmlFunctions,  \* what is registered: by its name, the types it asks for and what it returns
  TextBytes,     \* bytes of a string that is returned
  MaxXmlCalls

VARIABLES
  xmlcall,       \* g_xmlcall
  written,       \* the document of this call: what is meant, and its text
  runs,          \* the functions called for it, with what they got
  response,      \* what is written to its socket
  xmlCount

----------------------------------------------------------------------------
(* xmlrpc_getelement, always with StringSize: the elements of a text.      *)
Element(text, first) ==
  LET n     == Len(text)
      Ends  == {j \in first + 1 .. n : text[j] \in {"<", ">", "LF"}}
      last  == IF Ends = {} THEN n + StringSize
               ELSE IF text[Min(Ends)] = ">" THEN Min(Ends) ELSE Min(Ends) - 1
      plain == IF Ends # {} /\ text[Min(Ends)] = ">" THEN last - 1 ELSE last
      upTo  == Min({last, first + StringSize - 1})
  IN  [type |-> IF plain - first + 1 >= StringSize /\ StringSize > 1 THEN "PARSE_ERROR"
                ELSE IF text[first] = "<" THEN "TAG" ELSE "VALUE",
       data |-> SubSeq(text, first, Min({upTo, n})), next |-> upTo + 1]

Elements(text) ==
  LET from[k \in 1 .. Len(text) + StringSize + 1] ==
        LET shown == {j \in k .. Len(text) : text[j] # "LF"}
            element == Element(text, Min(shown))
        IN  IF shown = {} THEN <<>>
            ELSE <<[type |-> element.type, data |-> element.data]>> \o from[element.next]
  IN  from[1]

At(els, k) == IF k <= Len(els) THEN els[k] ELSE [type |-> "DONE", data |-> <<>>]

Open(word) == <<"<", word, ">">>
Close(word) == <<"<", "/", word, ">">>
IsTag(element, tag) == element.type = "TAG" /\ IsPrefix(tag, element.data)

----------------------------------------------------------------------------
TypeOf == ("i4" :> "i") @@ ("int" :> "i") @@ ("boolean" :> "b") @@ ("double" :> "d")
            @@ ("string" :> "s")

(* atoi and atof: a text that is no number is 0.                           *)
Converted(type, data) ==
  IF type = "s" THEN data ELSE IF data[1] \in {"1", "7"} THEN <<data[1]>> ELSE <<"0">>

(* xmlrpc_parseparam: where it gives up, and the argument that it has by   *)
(* then.                                                                   *)
ParamSteps(els, k) ==
  << IsTag(At(els, k), Open("value")),
     At(els, k + 1).type = "TAG" /\ \E w \in DOMAIN TypeOf : IsTag(At(els, k + 1), Open(w)),
     At(els, k + 2).type = "VALUE",
     IsTag(At(els, k + 3), <<"<", "/">>),
     IsTag(At(els, k + 4), Close("value")),
     IsTag(At(els, k + 5), Close("param")) >>

ParseParam(els, k) ==
  LET steps == ParamSteps(els, k)
      wrong == {i \in DOMAIN steps : ~steps[i]}
      word  == CHOOSE w \in DOMAIN TypeOf : IsTag(At(els, k + 1), Open(w))
  IN  [next |-> IF wrong = {} THEN k + 6 ELSE k + Min(wrong),
       args |-> IF \E i \in 1 .. 3 : ~steps[i] THEN <<>>
                ELSE <<[type |-> TypeOf[word],
                        value |-> Converted(TypeOf[word], At(els, k + 2).data)]>>]

(* xmlrpc_parseparams goes on after a parameter that is wrong.             *)
ParseParams(els, k) ==
  LET from[i \in 1 .. Len(els) + 8] ==
        IF IsTag(At(els, i), Open("param"))
        THEN LET param == ParseParam(els, i + 1)
                 rest  == from[param.next]
             IN  [next |-> rest.next, args |-> param.args \o rest.args]
        ELSE [next |-> i + 1, args |-> <<>>]
  IN  IF IsTag(At(els, k), Open("params")) THEN from[k + 1]
      ELSE [next |-> k + 1, args |-> <<>>]

NoCall == [name |-> <<>>, args |-> <<>>, arg |-> 0, error |-> FALSE, response |-> <<>>]

(* xmlrpc_parsemethod.                                                     *)
ParseMethod(els, k) ==
  LET named == [NoCall EXCEPT !.name = At(els, k + 1).data]
      params == ParseParams(els, k + 3)
  IN  IF ~IsTag(At(els, k), Open("methodName")) THEN [next |-> k + 1, call |-> NoCall]
      ELSE IF At(els, k + 1).type # "VALUE" THEN [next |-> k + 2, call |-> NoCall]
      ELSE IF ~IsTag(At(els, k + 2), Close("methodName")) THEN [next |-> k + 3, call |-> named]
      ELSE [next |-> params.next, call |-> [named EXCEPT !.args = params.args]]

----------------------------------------------------------------------------
(* xmlrpc_getinteger, xmlrpc_getbool, xmlrpc_getdouble, xmlrpc_getstring.  *)
Unexpected == ("i" :> -3) @@ ("b" :> -4) @@ ("d" :> -5) @@ ("s" :> -6)

CanGet(call, type) ==
  call.arg < Len(call.args) /\ call.args[call.arg + 1].type = type

(* xmlrpc_buildresponse: lines with their bytes, the length put in last.   *)
Bytes(value) ==
  CASE value[1] = "i" -> 33 + 1 [] value[1] = "b" -> 41 + 1
    [] value[1] = "d" -> 39 + 8 [] value[1] = "s" -> 39 + TextBytes
    [] value[1] = "{" -> 19 [] value[1] = "}" -> 21 [] OTHER -> 0

MemberBytes == 11 + 20 + 1 + 12   \* a name of one byte

InStruct(format, k) ==
  \E j \in 1 .. k - 1 : format[j][1] = "{" /\ \A i \in j .. k - 1 : format[i][1] # "}"

Body(format, error) ==
  LET Line(k) == [what |-> format[k],
                  bytes |-> Bytes(format[k])
                    + IF InStruct(format, k) /\ format[k][1] \notin {"{", "}"}
                      THEN MemberBytes ELSE 0]
  IN  <<[what |-> <<"head">>, bytes |-> 22 + 17 + (IF error THEN 10 ELSE 19)]>>
        \o [k \in DOMAIN format |-> Line(k)]
        \o <<[what |-> <<"foot">>, bytes |-> (IF error THEN 13 ELSE 21) + 19]>>

Length(body) == FoldSeq(LAMBDA line, sum : line.bytes + sum, 0, body)

Blank == -1

(* xmlrpc_insertlength: four places, with blanks for zeros in the first    *)
(* two.  A mutant has them in three.                                       *)
Digit(len, i) == (len \div (10 ^ (4 - i))) % 10

InsertLengthBlanks(len) ==
  [i \in 1 .. 4 |-> IF Digit(len, i) = 0 /\ i < 4 THEN Blank ELSE Digit(len, i)]

InsertLength(len) ==
  [i \in 1 .. 4 |-> IF Digit(len, i) = 0 /\ i < 3 THEN Blank ELSE Digit(len, i)]

BuildResponse(call, format) ==
  LET bad == \E k \in DOMAIN format : format[k][1] \notin {"i", "b", "d", "s", "{", "}"}
      body == Body(format, call.error)
  IN  IF bad THEN [ret |-> -7, response |-> [error |-> call.error, length |-> <<>>, body |-> <<>>]]
      ELSE [ret |-> 0, response |-> [error |-> call.error, body |-> body,
                                     length |-> InsertLength(Length(body))]]

(* A function (external): it gets the arguments it asks for, one after the *)
(* other, and builds its response.                                         *)
Function(call, f) ==
  LET got == [call EXCEPT !.arg = Min({i \in 0 .. Len(f.asks) :
                i = Len(f.asks) \/ ~CanGet([call EXCEPT !.arg = i], f.asks[i + 1])})]
      built == BuildResponse(call, f.returns)
  IN  IF got.arg < Len(f.asks)
      THEN [ret |-> Unexpected[f.asks[got.arg + 1]], call |-> got]
      ELSE [ret |-> built.ret, call |-> [got EXCEPT !.response = built.response]]

(* xmlrpc_sendfault.                                                       *)
Fault(ret) == IF -ret \in 0 .. 7 THEN -ret ELSE 0
FaultFormat(fault) == <<<<"{">>, <<"i", fault>>, <<"s", fault>>, <<"}">>>>

SendFault(call, ret) ==
  [call EXCEPT !.error = TRUE,
               !.response = BuildResponse([call EXCEPT !.error = TRUE],
                                          FaultFormat(Fault(ret))).response]

(* xmlrpc_call.                                                            *)
Call(call) ==
  IF call.name \in DOMAIN XmlFunctions THEN Function(call, XmlFunctions[call.name])
  ELSE [ret |-> -2, call |-> call]

(* xmlrpc_parse.  What xmlrpc_parsemethod returns is not looked at; with a *)
(* wrong beginning, g_xmlcall is that of the call before.                  *)
Begun(els) ==
  IsTag(At(els, 1), <<"<", "?xml">>) /\ IsTag(At(els, 2), Open("methodCall"))

Parse(els, method) ==
  \E parsed \in {Begun(els) /\ IsTag(At(els, method.next), Close("methodCall"))} :
  \E call \in {IF Begun(els) THEN method.call ELSE xmlcall} :
  \E done \in {IF parsed THEN Call(call) ELSE [ret |-> -1, call |-> call]} :
    /\ runs' = IF parsed /\ call.name \in DOMAIN XmlFunctions
               THEN <<[name |-> call.name, args |-> call.args]>> ELSE <<>>
    /\ xmlcall' = IF done.ret = 0 THEN done.call ELSE SendFault(done.call, done.ret)
    /\ response' = <<xmlcall'.response>>

----------------------------------------------------------------------------
(* Documents (external): in one line, one tag a line, with blanks before   *)
(* tags, cut after a number of characters, or without one of them.         *)
Param(p) == Open("param") \o Open("value") \o Open(p.type) \o p.value \o Close(p.type)
              \o Close("value") \o Close("param")

Text(call) ==
  <<"<", "?xml", ">">> \o Open("methodCall") \o Open("methodName") \o call.name
    \o Close("methodName") \o Open("params")
    \o FlattenSeq([k \in DOMAIN call.params |-> Param(call.params[k])])
    \o Close("params") \o Close("methodCall")

Styled(text, style) ==
  FlattenSeq([k \in DOMAIN text |->
    CASE style = "lines" /\ text[k] = ">" -> <<text[k], "LF">>
      [] style = "indented" /\ k > 1 /\ text[k] = "<" -> <<" ", text[k]>>
      [] OTHER -> <<text[k]>>])

XmlInit ==
  /\ xmlcall = NoCall /\ written = [style |-> "none"] /\ runs = <<>> /\ response = <<>>
  /\ xmlCount = 0

XmlParse(call, style, text) ==
  /\ xmlCount < MaxXmlCalls
  /\ xmlCount' = xmlCount + 1
  /\ written' = [style |-> style, call |-> call]
  /\ \E els \in {Elements(text)} : \E method \in {ParseMethod(els, 3)} : Parse(els, method)

Documents(call) ==
  {[style |-> style, text |-> Styled(Text(call), style)] :
     style \in {"compact", "lines", "indented"}}

HurtDocuments(call) ==
  {[style |-> "cut", text |-> SubSeq(Text(call), 1, k - 1)] : k \in DOMAIN Text(call)}
    \cup {[style |-> "broken", text |-> RemoveAt(Text(call), k)] : k \in DOMAIN Text(call)}

XmlNext ==
  \E call \in XmlCalls \cup HurtCalls :
  \E doc \in (IF call \in XmlCalls THEN Documents(call) ELSE {})
             \cup (IF call \in HurtCalls THEN HurtDocuments(call) ELSE {}) :
    XmlParse(call, doc.style, doc.text)

----------------------------------------------------------------------------
(* What the Content-length says: blanks, and the digits that follow.       *)
Said(length) ==
  LET first == Min({i \in 1 .. 4 : length[i] # Blank})
      Read[i \in first - 1 .. 4] == IF i < first THEN 0 ELSE 10 * Read[i - 1] + length[i]
  IN  Read[4]

Meant(call) == [k \in DOMAIN call.params |->
  [type |-> TypeOf[call.params[k].type], value |-> call.params[k].value]]

Fits(call) ==
  /\ Len(call.name) < StringSize
  /\ \A k \in DOMAIN call.params : Len(call.params[k].value) < StringSize

Faulted(fault) ==
  response[1].error /\ \E k \in DOMAIN response[1].body : response[1].body[k].what = <<"i", fault>>

Expected(call) ==
  LET f == XmlFunctions[call.name]
      wrong == {k \in DOMAIN f.asks : k > Len(call.params) \/ Meant(call)[k].type # f.asks[k]}
  IN  IF wrong = {} THEN IF \A k \in DOMAIN f.returns : f.returns[k][1] # "?" THEN 0 ELSE 7
      ELSE -Unexpected[f.asks[Min(wrong)]]

(* A document that is well written has its function called, once, with its *)
(* arguments, and is answered with what that returns or with the fault it  *)
(* met; of one that is not, at most the first arguments are passed on, and *)
(* none of one that is cut; each document is answered for itself, with the *)
(* length of what is sent as long as it has no more than three digits.     *)
CalledAsWritten ==
  written.style # "none" =>
    /\ Length(response[1].body) < 1000 =>
         Said(response[1].length) = Length(response[1].body)
    /\ written.style \in {"compact", "lines"} /\ Fits(written.call) =>
         IF written.call.name \in DOMAIN XmlFunctions
         THEN /\ runs = <<[name |-> written.call.name, args |-> Meant(written.call)]>>
              /\ IF Expected(written.call) = 0
                 THEN /\ ~response[1].error
                      /\ XmlFunctions[written.call.name].returns =
                           [k \in 1 .. Len(response[1].body) - 2 |-> response[1].body[k + 1].what]
                 ELSE Faulted(Expected(written.call))
         ELSE runs = <<>> /\ Faulted(2)
    /\ written.style \in {"indented", "cut"} => runs = <<>> /\ Faulted(1)
    /\ \A k \in DOMAIN runs : written.style = "broken" =>
         Len(runs[k].args) <= Len(written.call.params)

=============================================================================
