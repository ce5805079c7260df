-------------------------------- MODULE Chat --------------------------------
(***************************************************************************)
(* src/netutils/chat/chat.c: a script of lines, each with what is expected *)
(* of the other end and what is then said to it, or with a command and its *)
(* argument.  The script is a text, taken apart first.  A character is a   *)
(* string here, and so are the words that name a command, numbers, and the *)
(* end of a line that is said.  Memory does not run out, and the port      *)
(* takes all that is written or fails.                                     *)
(***************************************************************************)
EXTENDS Integers, Sequences, SequencesExt

CONSTANTS
  ChatScripts,  \* as they are meant: sequences of records with lhs and rhs
  Chars,        \* what the other end says
  MaxChars,     \* how much of it
  MaxTimeout    \* seconds that chat waits at first

VARIABLES
  script,    \* as it is meant
  chat,      \* the lines taken from its text, and where chat is in them
  toChat,    \* characters that chat has not read
  spoken     \* characters that the other end has said

EndOfLine == "\r\n"
Commands == {"ABORT", "ECHO", "PAUSE", "SAY", "TIMEOUT"}
Delimiters == {" ", "\n", "\r", "\t"}

----------------------------------------------------------------------------
(* chat_tokenise: one pass over the text.  noTermin goes back with every   *)
(* character, so that \c counts at the end of the text only.               *)
OnDelimiter(t) ==
  IF t.tok = <<>> /\ ~t.quoted /\ ~t.noTermin THEN t
  ELSE [t EXCEPT !.tokens = Append(@, [string |-> t.tok, noTermin |-> t.noTermin]),
                 !.tok = <<>>]

Add(t, ch) == [t EXCEPT !.tok = Append(@, ch), !.escaped = FALSE]

Character(t0, ch) ==
  LET t == [t0 EXCEPT !.noTermin = FALSE] IN
  CASE ch = "\\" /\ t.quoted  -> [t EXCEPT !.tok = Append(@, "\\")]
    [] ch = "\\" /\ ~t.quoted ->
         IF t.escaped THEN Add(t, "\\") ELSE [t EXCEPT !.escaped = TRUE]
    [] ch = "\"" /\ t.escaped  -> Add(t, "\"")
    [] ch = "\"" /\ ~t.escaped ->
         [(IF t.quoted /\ t.tok = <<>> THEN OnDelimiter(t) ELSE t) EXCEPT !.quoted = ~@]
    [] ch \in Delimiters ->
         IF t.quoted THEN [t EXCEPT !.tok = Append(@, ch)] ELSE OnDelimiter(t)
    [] ch \notin Delimiters \union {"\\", "\""} /\ t.escaped ->
         CASE ch = "n" -> Add(t, "\n")
           [] ch = "r" -> Add(t, "\r")
           [] ch = "c" -> [t EXCEPT !.noTermin = TRUE, !.escaped = FALSE]
           [] OTHER    -> [t EXCEPT !.ret = "EINVAL"]
    [] OTHER -> [t EXCEPT !.tok = Append(@, ch)]

Tokenise(text) ==
  LET end == FoldLeft(LAMBDA t, ch : IF t.ret = "OK" THEN Character(t, ch) ELSE t,
                      [tok |-> <<>>, tokens |-> <<>>, quoted |-> FALSE, escaped |-> FALSE,
                       noTermin |-> FALSE, ret |-> "OK"], text)
  IN  IF end.ret = "OK" THEN OnDelimiter(end) ELSE end

(* chat_internalise: tokens in pairs.                                      *)
Line(left, right) ==
  [type |-> IF Len(left.string) = 1 /\ left.string[1] \in Commands THEN "command" ELSE "expect",
   lhs  |-> left.string,
   rhs  |-> right.string \o IF right.noTermin THEN <<>> ELSE <<EndOfLine>>]

ScriptParse(text) ==
  LET end == Tokenise(text)
      n   == Len(end.tokens)
  IN  [ret   |-> IF end.ret # "OK" THEN end.ret ELSE IF n % 2 = 1 THEN "ENODATA" ELSE "OK",
       lines |-> [k \in 1 .. n \div 2 |-> Line(end.tokens[2 * k - 1], end.tokens[2 * k])]]

----------------------------------------------------------------------------
(* How a script is written (external): words with blanks in quotes.        *)
WrittenWord(word) ==
  IF word = <<>> \/ ToSet(word) \intersect Delimiters # {}
  THEN <<"\"">> \o word \o <<"\"">>
  ELSE FlattenSeq([i \in DOMAIN word |->
         IF word[i] \in {"\\", "\""} THEN <<"\\", word[i]>> ELSE <<word[i]>>])

Written(lines) ==
  FlattenSeq([k \in DOMAIN lines |->
    WrittenWord(lines[k].lhs) \o <<" ">> \o WrittenWord(lines[k].rhs) \o <<"\n">>])

ChatInit ==
  /\ script \in ChatScripts
  /\ chat = [state |-> "parse", lines |-> <<>>, at |-> 1, timeout |-> MaxTimeout, echo |-> FALSE,
             match |-> 0, left |-> 0, heard |-> <<>>, late |-> FALSE, said |-> <<>>, ret |-> "OK"]
  /\ toChat = <<>> /\ spoken = 0

OtherEnd == <<script, spoken>>
Current == chat.lines[chat.at]
More == chat.at <= Len(chat.lines)

(* chat.                                                                   *)
Parse ==
  LET parsed == ScriptParse(Written(script)) IN
  /\ chat.state = "parse"
  /\ chat' = [chat EXCEPT !.lines = parsed.lines, !.ret = parsed.ret,
                          !.state = IF parsed.ret = "OK" THEN "line" ELSE "done"]
  /\ UNCHANGED <<toChat, OtherEnd>>

Atoi(word) == CASE word[1] = "-1" -> -1 [] word[1] = "0" -> 0 [] word[1] = "1" -> 1
                [] OTHER -> 0

(* chat_line_run.  ECHO ON turns echo off; as arguments end in the end of  *)
(* a line, it never is ON.                                                 *)
Command ==
  LET name == Current.lhs[1]
      arg  == Current.rhs
  IN  /\ chat.state = "line" /\ More /\ Current.type = "command"
      /\ chat' = [chat EXCEPT
           !.at = @ + 1,
           !.echo = IF name = "ECHO" THEN arg # <<"ON">> ELSE @,
           !.timeout = IF name = "TIMEOUT" /\ Atoi(arg) >= 0 THEN Atoi(arg) ELSE @]
      /\ UNCHANGED <<toChat, OtherEnd>>

(* chat_expect begins to wait, with no time it does not.                   *)
Expect ==
  /\ chat.state = "line" /\ More /\ Current.type = "expect"
  /\ chat' = [chat EXCEPT
       !.match = 0, !.left = chat.timeout, !.heard = <<>>, !.late = (chat.timeout = 0),
       !.state = IF Current.lhs = <<>> \/ chat.timeout = 0 THEN "flush" ELSE "expect"]
  /\ UNCHANGED <<toChat, OtherEnd>>

(* How much of what is expected there is after one more character.  The    *)
(* one that fails to match is not tried as the first.  A mutant keeps what *)
(* matched before.                                                         *)
MatchedKeeping(match, expected, c) == IF c = expected[match + 1] THEN match + 1 ELSE match
Matched(match, expected, c) == IF c = expected[match + 1] THEN match + 1 ELSE 0

(* A character is read, and a second may be over.  With all its time over  *)
(* chat goes on as if the rest had come.                                   *)
Read(passes) ==
  LET match == Matched(chat.match, Current.lhs, Head(toChat))
      found == match = Len(Current.lhs)
      left  == chat.left - passes
  IN  /\ chat.state = "expect" /\ toChat # <<>>
      /\ toChat' = Tail(toChat)
      /\ chat' = [chat EXCEPT !.match = match, !.left = left, !.late = ~found /\ left = 0,
                              !.heard = Append(@, Head(toChat)),
                              !.state = IF found \/ left = 0 THEN "flush" ELSE "expect"]
      /\ UNCHANGED OtherEnd

Wait ==
  /\ chat.state = "expect" /\ toChat = <<>>
  /\ chat' = IF chat.left > 1 THEN [chat EXCEPT !.left = @ - 1]
             ELSE [chat EXCEPT !.state = "done", !.ret = "ETIMEDOUT"]
  /\ UNCHANGED <<toChat, OtherEnd>>

(* chat_flush, until nothing is there.                                     *)
Flush ==
  /\ chat.state = "flush"
  /\ toChat' = <<>>
  /\ chat' = [chat EXCEPT !.state = "send"]
  /\ UNCHANGED OtherEnd

Send(works) ==
  /\ chat.state = "send"
  /\ chat' = IF works THEN [chat EXCEPT !.said = Append(@, Current.rhs), !.at = @ + 1,
                                        !.state = "line"]
             ELSE [chat EXCEPT !.state = "done", !.ret = "ERROR"]
  /\ UNCHANGED <<toChat, OtherEnd>>

(* chat_script_free, and chat returns.                                     *)
End ==
  /\ chat.state = "line" /\ ~More
  /\ chat' = [chat EXCEPT !.state = "done"]
  /\ UNCHANGED <<toChat, OtherEnd>>

Speak ==
  /\ spoken < MaxChars /\ chat.state # "done"
  /\ \E c \in Chars : toChat' = Append(toChat, c)
  /\ spoken' = spoken + 1
  /\ UNCHANGED <<script, chat>>

ChatNext ==
  \/ Parse \/ Command \/ Expect \/ Wait \/ Flush \/ End \/ Speak
  \/ \E passes \in {0, 1} : Read(passes)
  \/ \E works \in BOOLEAN : Send(works)

----------------------------------------------------------------------------
Meant(line) ==
  [type |-> IF Len(line.lhs) = 1 /\ line.lhs[1] \in Commands THEN "command" ELSE "expect",
   lhs |-> line.lhs, rhs |-> line.rhs \o <<EndOfLine>>]

(* The expected words have come, with nothing of their own before them.    *)
Came(expected) ==
  \E i \in 0 .. Len(chat.heard) - Len(expected) :
    /\ SubSeq(chat.heard, i + 1, i + Len(expected)) = expected
    /\ i = 0 \/ chat.heard[i] \notin ToSet(expected)

Expecting == SelectSeq(script, LAMBDA line : Meant(line).type = "expect")

(* A script is taken as it is meant, and held to: what is said is said in  *)
(* its order, only after what it waits for has come to the end, unless the *)
(* time was over with the last character; chat ends well only after all of *)
(* it, and gives up only when that has not come, but perhaps right after   *)
(* characters of its own.                                                  *)
ScriptFollowed ==
  /\ chat.state # "parse" => chat.ret # "EINVAL" /\ chat.ret # "ENODATA"
       /\ chat.lines = [k \in DOMAIN script |-> Meant(script[k])]
  /\ chat.said = [k \in DOMAIN chat.said |-> Expecting[k].rhs \o <<EndOfLine>>]
  /\ chat.state = "done" /\ chat.ret = "OK" => Len(chat.said) = Len(Expecting)
  /\ chat.state = "flush" /\ ~chat.late => IsSuffix(Current.lhs, chat.heard)
  /\ chat.state = "expect" \/ chat.ret = "ETIMEDOUT" => ~Came(Current.lhs)

=============================================================================
