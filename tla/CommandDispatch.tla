--------------------------- MODULE CommandDispatch ---------------------------
(***************************************************************************)
(* The command dispatch task, src/src/task_commanddispatch.cxx: one UDP    *)
(* socket, one receive buffer on the stack that no turn of the loop clears, *)
(* a table of handlers, and a reply that is sent from the receive buffer.  *)
(*                                                                         *)
(* A 32-bit word of the buffer is kept by its low half, which a datagram   *)
(* of two bytes overwrites alone, and its high half.                       *)
(***************************************************************************)
EXTENDS Integers

CONSTANTS
  Words,      \* command words in datagrams and on the uninitialised stack
  Args        \* what the second word of a datagram, or of the stack, may be

Half == 0 .. 65535

Word == [hi : Half, lo : Half]

ASSUME DispatchAssumption ==
  /\ Words \subseteq Word
  /\ Args \subseteq Int

(* The codes with a handler, 0x1013, 0x101A, 0x1034 and 0xA001 to 0xA008,  *)
(* and what the handler may return: 0, 1 or -1 for the time query, 0 or -1 *)
(* for the two configurations, 0 for the others.                           *)
TimeQuery    == 4115
GyroCmd      == 4122
Speed        == 4148
Acknowledged == 40960
Configs      == 40961 .. 40968

Served == {TimeQuery, GyroCmd, Speed} \cup Configs

HandlerReturns(code) ==
  CASE code = TimeQuery        -> {0, 1, -1}
    [] code \in {40964, 40965} -> {0, -1}
    [] OTHER                   -> {0}

VARIABLES
  inbuf,      \* the first two words of the buffer
  received,   \* whether any datagram has arrived yet
  ntp,        \* the time client: isWaitingForReply_, socket_n, and the
              \* requests it has sent (0, 1, or 2 for more)
  last        \* the last turn of the loop: what arrived, ran and was sent

vars == <<inbuf, received, ntp, last>>

(* int_ct.  Words with the top bit set are negative.                       *)
Code(word) == (IF word.hi < 32768 THEN word.hi ELSE word.hi - 65536) * 65536
              + word.lo

ZeroWord == [hi |-> 0, lo |-> 0]

Size == {"empty", "half", "word", "more"}

NoReply == [len |-> 0, cmd |-> ZeroWord, arg |-> 0]

(* The stack holds anything when the task starts, and so does the byte of  *)
(* the heap that is isWaitingForReply_.                                    *)
Init ==
  /\ inbuf \in [cmd : Words, arg : Args]
  /\ received = FALSE
  /\ \E held \in BOOLEAN : ntp = [waiting |-> held, open |-> FALSE, asked |-> 0]
  /\ last = [size |-> "empty", word |-> ZeroWord, ran |-> FALSE,
             reply |-> NoReply]

(* recvfrom: the bytes of the datagram over the first bytes of the buffer. *)
Received(size, word, arg) ==
  [cmd |-> CASE size = "empty"           -> inbuf.cmd
             [] size = "half"            -> [inbuf.cmd EXCEPT !.lo = word.lo]
             [] size \in {"word", "more"} -> word,
   arg |-> IF size = "more" THEN arg ELSE inbuf.arg]

(* ntpQueryHandler.  A request under way refuses the query.  The flag is   *)
(* up before the socket is tried and stays up when there is none; the      *)
(* handlers of a reply and of a timeout, which would lower it, are never   *)
(* called.                                                                 *)
AskedMore == IF ntp.asked = 0 THEN 1 ELSE 2

NtpQuery(ret, after) ==
  \/ /\ ntp.waiting
     /\ ret = -1
     /\ after = ntp
  \/ /\ ~ntp.waiting /\ ~ntp.open
     /\ ret = 1
     /\ after = [ntp EXCEPT !.waiting = TRUE]
  \/ /\ ~ntp.waiting
     /\ ret = 0
     /\ after = [waiting |-> TRUE, open |-> TRUE, asked |-> AskedMore]

WordKept(buf, found) == buf

(* A served command is zeroed in the buffer.                               *)
WordCleared(buf, found) == IF found THEN [buf EXCEPT !.cmd = ZeroWord] ELSE buf

ReplyLengthOfResult(found, ret) == IF found THEN ret ELSE 4

(* retMsgLen: one word, two after an error, one and ret bytes otherwise.   *)
ReplyLength(found, ret) ==
  CASE ~found             -> 4
    [] found /\ ret < 0   -> 8
    [] found /\ ret >= 0  -> ret + 4

RepliesToQueries(code, found) == code > 4096 \/ ~found

(* Commands up to 0xA000 are answered only when nobody serves them.        *)
Replies(code, found) == code > Acknowledged \/ ~found

(* One turn of the loop.  The handler runs on the bytes after the command  *)
(* word; destport is never written, so the NTP branch is dead.             *)
Dispatch(size, word, arg) ==
  LET got   == Received(size, word, arg)
      code  == Code(got.cmd)
      found == code \in Served
  IN  \E ret \in IF found THEN HandlerReturns(code) ELSE {0} :
        /\ IF code = TimeQuery THEN NtpQuery(ret, ntp') ELSE UNCHANGED ntp
        /\ inbuf' = WordCleared(got, found)
        /\ received' = TRUE
        /\ last' = [size  |-> size,
                    word  |-> word,
                    ran   |-> found,
                    reply |-> IF Replies(code, found)
                                THEN [len |-> ReplyLength(found, ret),
                                      cmd |-> inbuf'.cmd,
                                      arg |-> inbuf'.arg]
                                ELSE NoReply]

Next == \E size \in Size, word \in Words, arg \in Args : Dispatch(size, word, arg)

Spec == Init /\ [][Next]_vars

----------------------------------------------------------------------------
(* Properties.                                                             *)

(* Every variable has its type.                                            *)
TypeOK ==
  /\ inbuf \in [cmd : Word, arg : Int]
  /\ received \in BOOLEAN
  /\ ntp \in [waiting : BOOLEAN, open : BOOLEAN, asked : 0 .. 2]
  /\ last \in [size  : Size,
              word  : Words \cup {ZeroWord},
              ran   : BOOLEAN,
              reply : [len : Nat, cmd : Word, arg : Int]]

(* No command is run twice from what it left in the buffer: a datagram     *)
(* without a byte runs no handler, except the very first one, which finds  *)
(* the uninitialised stack.                                                *)
NothingReplayed ==
  [][received /\ last'.size = "empty" => ~last'.ran]_vars

(* What a host can tell from the answer to a command other than 0: the     *)
(* first word is 0 exactly when the command was served.  (For a command    *)
(* that is not, the code's comment says the opposite: UnknownAnsweredZero.) *)
AnswerTellsServed ==
  last.size \in {"word", "more"} /\ last.word # ZeroWord /\ last.reply.len > 0
    => (last.reply.cmd = ZeroWord <=> last.ran)

(* "if(!findHandler) // return 0": the answer to a command nobody serves   *)
(* is 0.  It is not: the word is cleared for a served command only, and    *)
(* the others are sent back as they came.                                  *)
UnknownAnsweredZero ==
  last.reply.len > 0 /\ ~last.ran => last.reply.cmd = ZeroWord

(* A reply is made of whole words, one or two of them: no result of a      *)
(* handler that is answered leaks into the length.                         *)
ReplyWholeWords == last.reply.len \in {0, 4, 8}

(* No time query is sent while the answer to an earlier one may still come *)
(* ("if a request is already sent, give up this request", sntpSynchr.h):   *)
(* as nothing calls the handler of the answer, at most one is ever sent.   *)
AskedOnce == ntp.asked <= 1

============================================================================
