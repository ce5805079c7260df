---------------------------- MODULE HttpRequest ----------------------------
(***************************************************************************)
(* How thttpd finds the end of a request that arrives in pieces:           *)
(* httpd_got_request of src/netutils/thttpd/libhttpd.c, and the buffer of  *)
(* handle_read.  A character is "w" (of a word), "s" (white space), "r" or *)
(* "n" (the two line ends).  The line ends of one request are all alike.   *)
(***************************************************************************)
EXTENDS Integers, Sequences

CONSTANTS
  MaxWords,       \* in the first line
  MaxHeaders      \* lines after it

VARIABLES
  asks,           \* what the client sends
  readIdx,        \* read_idx, how much of it is in the buffer
  checkedIdx,     \* checked_idx, how much of that has been looked at
  checkedState,   \* checked_state
  verdict         \* what httpd_got_request has returned

requestVars == <<asks, readIdx, checkedIdx, checkedState, verdict>>

LineEnd == { <<"n">>, <<"r">>, <<"r", "n">> }

(* The client (external).  A request is lines, an empty one at the end.    *)
Words(n) == [i \in 1 .. 2 * n - 1 |-> IF i % 2 = 1 THEN "w" ELSE "s"]

Headers(a) ==
  LET header == <<"w", "s", "w">> \o a.eol
  IN  [i \in 1 .. a.headers * Len(header) |-> header[((i - 1) % Len(header)) + 1]]

Text(a) == Words(a.words) \o a.eol \o Headers(a) \o a.eol

RequestInit ==
  /\ asks \in [words : 1 .. MaxWords, headers : 0 .. MaxHeaders, eol : LineEnd]
  /\ readIdx = 0
  /\ checkedIdx = 0
  /\ checkedState = "FIRSTWORD"
  /\ verdict = "no"

----------------------------------------------------------------------------
(* Where the machine goes from each state: a state, or a verdict.          *)
Bad  == [state |-> "BOGUS", says |-> "bad"]
Got(state) == [state |-> state, says |-> "got"]
On(state)  == [state |-> state, says |-> "no"]

(* Inside the first line, its white space and its end.                     *)
InLine(word, space, cr, lf) == [w |-> word, s |-> space, r |-> cr, n |-> lf]

(* After a line end: a header line, or the end of the request.             *)
AfterEnd(cr, lf) == InLine(On("LINE"), On("LINE"), cr, lf)

Transition ==
  [FIRSTWORD  |-> InLine(On("FIRSTWORD"), On("FIRSTWS"), Bad, Bad),
   FIRSTWS    |-> InLine(On("SECONDWORD"), On("FIRSTWS"), Bad, Bad),
   SECONDWORD |-> InLine(On("SECONDWORD"), On("SECONDWS"),
                         Got("SECONDWORD"), Got("SECONDWORD")),
   SECONDWS   |-> InLine(On("THIRDWORD"), On("SECONDWS"), Bad, Bad),
   THIRDWORD  |-> InLine(On("THIRDWORD"), On("THIRDWS"), On("CR"), On("LF")),
   THIRDWS    |-> InLine(Bad, On("THIRDWS"), On("CR"), On("LF")),
   LINE       |-> AfterEnd(On("CR"), On("LF")),
   LF         |-> AfterEnd(On("CR"), Got("LF")),
   CR         |-> AfterEnd(Got("CR"), On("CRLF")),
   CRLF       |-> AfterEnd(On("CRLFCR"), Got("CRLF")),
   CRLFCR     |-> AfterEnd(Got("CRLFCR"), Got("CRLFCR")),
   BOGUS      |-> InLine(Bad, Bad, Bad, Bad)]

(* One turn of the loop; nothing is looked at after a verdict.             *)
Check(m, c) == IF m.says = "no" THEN Transition[m.state][c] ELSE m

(* The loop over the characters of s.                                      *)
Run(m, s) ==
  LET run[i \in 0 .. Len(s)] == IF i = 0 THEN m ELSE Check(run[i - 1], s[i])
  IN  run[Len(s)]

(* handle_read: n more characters, and httpd_got_request over what has not *)
(* been looked at.                                                         *)
ReadInState(n, state) ==
  LET m == Run(On(state), SubSeq(Text(asks), checkedIdx + 1, readIdx + n))
  IN
  /\ verdict = "no"
  /\ readIdx + n <= Len(Text(asks))
  /\ readIdx' = readIdx + n
  /\ checkedIdx' = readIdx + n
  /\ checkedState' = m.state
  /\ verdict' = m.says
  /\ UNCHANGED asks

ReadForgetful(n) == ReadInState(n, "FIRSTWORD")

Read(n) == ReadInState(n, checkedState)

RequestNext == \E n \in 1 .. Len(Text(asks)) : Read(n)

----------------------------------------------------------------------------
(* Where the request ends: after the first line end of a line of two words *)
(* (HTTP/0.9), after the blank line if it has three.  One word, or more    *)
(* than three, are no request.                                             *)
Ends ==
  CASE asks.words = 1 -> [at |-> 2, says |-> "bad"]
    [] asks.words = 2 -> [at |-> 4, says |-> "got"]
    [] asks.words = 3 -> [at |-> Len(Text(asks)), says |-> "got"]
    [] OTHER          -> [at |-> 7, says |-> "bad"]

(* However the request is cut into reads, it is taken as one just when all *)
(* of it is there, and as none as soon as that is certain.                 *)
RequestRecognised ==
  verdict = (IF readIdx >= Ends.at THEN Ends.says ELSE "no")

============================================================================
