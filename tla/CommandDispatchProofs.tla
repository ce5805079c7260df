------------------------ MODULE CommandDispatchProofs ------------------------
(***************************************************************************)
(* Proofs about CommandDispatch, for every set of command words: a served  *)
(* command leaves nothing in the buffer that would run it again.           *)
(***************************************************************************)
EXTENDS CommandDispatch, TLAPS

(* recvfrom leaves words in the buffer.                                    *)
LEMMA ReceivedType ==
  ASSUME TypeOK, NEW size \in Size, NEW word \in Words, NEW arg \in Args
  PROVE  Received(size, word, arg) \in [cmd : Word, arg : Int]
<1>1. word \in Word /\ arg \in Int /\ inbuf \in [cmd : Word, arg : Int]
  BY DispatchAssumption DEF TypeOK
<1>2. [inbuf.cmd EXCEPT !.lo = word.lo] \in Word
  BY <1>1 DEF Word
<1>3. QED
  BY <1>1, <1>2 DEF Received, Size

(* What clearing the command word leaves is nobody's command.              *)
LEMMA ClearedIsUnserved ==
  ASSUME NEW got \in [cmd : Word, arg : Int]
  PROVE  LET found == Code(got.cmd) \in Served
         IN  /\ WordCleared(got, found) \in [cmd : Word, arg : Int]
             /\ Code(WordCleared(got, found).cmd) \notin Served
<1>1. ZeroWord \in Word /\ Code(ZeroWord) = 0
  <2>1. ZeroWord \in Word
    <3>1. 0 \in Half
      BY DEF Half
    <3>2. QED
      BY <3>1 DEF ZeroWord, Word
  <2>2. ZeroWord.hi = 0 /\ ZeroWord.lo = 0
    BY DEF ZeroWord
  <2>3. Code(ZeroWord) = 0
    BY <2>2 DEF Code
  <2>4. QED
    BY <2>1, <2>3
<1>2. 0 \notin Served
  BY DEF Served, TimeQuery, GyroCmd, Speed, Configs
<1>3. CASE Code(got.cmd) \in Served
  <2>1. WordCleared(got, TRUE) = [got EXCEPT !.cmd = ZeroWord]
    BY DEF WordCleared
  <2>2. QED
    BY <1>1, <1>2, <1>3, <2>1 DEF WordCleared
<1>4. CASE Code(got.cmd) \notin Served
  BY <1>4 DEF WordCleared
<1>5. QED
  BY <1>3, <1>4

(* A reply's length: every result of a handler that is answered is 0 or    *)
(* negative, so the length is one word or two.                             *)
LEMMA ReplyLengths ==
  ASSUME NEW code, NEW ret \in IF code \in Served THEN HandlerReturns(code)
                                                  ELSE {0},
         Replies(code, code \in Served)
  PROVE  ReplyLength(code \in Served, ret) \in {4, 8}
<1>1. CASE code \in Served
  <2>1. code # TimeQuery
    BY <1>1 DEF Replies, TimeQuery, Acknowledged, Served
  <2>2. ret \in {0, -1}
    BY <1>1, <2>1 DEF HandlerReturns
  <2>3. QED
    BY <1>1, <2>2 DEF ReplyLength
<1>2. CASE code \notin Served
  BY <1>2 DEF ReplyLength
<1>3. QED
  BY <1>1, <1>2

(* What the time client relies on: a request sent is a request awaited.    *)
Asked ==
  /\ ntp \in [waiting : BOOLEAN, open : BOOLEAN, asked : 0 .. 2]
  /\ ntp.asked <= 1
  /\ ntp.asked = 1 => ntp.waiting

(* A time query keeps it so.                                               *)
LEMMA QueryOnce ==
  ASSUME Asked, NEW ret, NtpQuery(ret, ntp')
  PROVE  Asked'
<1>1. CASE ntp' = ntp
  BY <1>1 DEF Asked
<1>2. CASE ntp' = [ntp EXCEPT !.waiting = TRUE]
  BY <1>2 DEF Asked
<1>3. CASE ~ntp.waiting
           /\ ntp' = [waiting |-> TRUE, open |-> TRUE, asked |-> AskedMore]
  <2>1. AskedMore = 1
    BY <1>3 DEF Asked, AskedMore
  <2>2. QED
    BY <1>3, <2>1 DEF Asked
<1>4. QED
  BY <1>1, <1>2, <1>3 DEF NtpQuery

(* And so does a turn of the loop with any command.                        *)
LEMMA TurnAsksOnce ==
  ASSUME Asked, NEW size \in Size, NEW word \in Words, NEW arg \in Args,
         Dispatch(size, word, arg)
  PROVE  Asked'
<1>1. PICK ret : IF Code(Received(size, word, arg).cmd) = TimeQuery
                   THEN NtpQuery(ret, ntp') ELSE UNCHANGED ntp
  BY DEF Dispatch
<1>2. CASE Code(Received(size, word, arg).cmd) = TimeQuery
  BY <1>1, <1>2, QueryOnce
<1>3. CASE Code(Received(size, word, arg).cmd) # TimeQuery
  BY <1>1, <1>3 DEF Asked
<1>4. QED
  BY <1>2, <1>3

(* The parts of one turn of the loop.                                      *)
LEMMA TurnOfLoop ==
  ASSUME TypeOK, NEW size \in Size, NEW word \in Words, NEW arg \in Args,
         Dispatch(size, word, arg)
  PROVE  LET got  == Received(size, word, arg)
             code == Code(got.cmd)
         IN  /\ inbuf' \in [cmd : Word, arg : Int]
             /\ Code(inbuf'.cmd) \notin Served
             /\ received' = TRUE
             /\ last'.size = size
             /\ last'.ran = (code \in Served)
             /\ last'.reply.len \in {0, 4, 8}
             /\ last' \in [size : Size, word : Words \cup {ZeroWord},
                           ran : BOOLEAN,
                           reply : [len : Nat, cmd : Word, arg : Int]]
<1> DEFINE got   == Received(size, word, arg)
           code  == Code(got.cmd)
           found == code \in Served
<1>1. PICK ret \in IF found THEN HandlerReturns(code) ELSE {0} :
        /\ inbuf' = WordCleared(got, found)
        /\ received' = TRUE
        /\ last' = [size  |-> size,
                    word  |-> word,
                    ran   |-> found,
                    reply |-> IF Replies(code, found)
                                THEN [len |-> ReplyLength(found, ret),
                                      cmd |-> inbuf'.cmd,
                                      arg |-> inbuf'.arg]
                                ELSE NoReply]
  BY DEF Dispatch
<1>2. inbuf' \in [cmd : Word, arg : Int] /\ Code(inbuf'.cmd) \notin Served
  <2>1. got \in [cmd : Word, arg : Int]
    BY ReceivedType
  <2>2. QED
    BY <1>1, <2>1, ClearedIsUnserved
<1>3. last'.reply \in [len : Nat, cmd : Word, arg : Int]
      /\ last'.reply.len \in {0, 4, 8}
  <2>1. CASE Replies(code, found)
    <3>1. ReplyLength(found, ret) \in {4, 8}
      BY <2>1, ReplyLengths
    <3>2. last'.reply = [len |-> ReplyLength(found, ret),
                         cmd |-> inbuf'.cmd, arg |-> inbuf'.arg]
      BY <1>1, <2>1
    <3>3. QED
      BY <1>2, <3>1, <3>2
  <2>2. CASE ~Replies(code, found)
    BY <1>1, <2>2 DEF NoReply, ZeroWord, Word, Half
  <2>3. QED
    BY <2>1, <2>2
<1>4. last'.ran = found /\ found \in BOOLEAN /\ last'.size = size
      /\ last'.word = word
  BY <1>1
<1>5. last' \in [size : Size, word : Words \cup {ZeroWord}, ran : BOOLEAN,
                 reply : [len : Nat, cmd : Word, arg : Int]]
  BY <1>1, <1>3, <1>4
<1> QED
  BY <1>1, <1>2, <1>3, <1>4, <1>5

(* The first word of an answer is the word of the buffer after the turn,   *)
(* which is 0 just when the command was served, or 0 itself.               *)
LEMMA TurnTellsServed ==
  ASSUME TypeOK, NEW size \in Size, NEW word \in Words, NEW arg \in Args,
         Dispatch(size, word, arg)
  PROVE  AnswerTellsServed'
<1> DEFINE got   == Received(size, word, arg)
           code  == Code(got.cmd)
           found == code \in Served
<1> SUFFICES ASSUME last'.size \in {"word", "more"}, last'.word # ZeroWord,
                    last'.reply.len > 0
             PROVE  last'.reply.cmd = ZeroWord <=> last'.ran
  BY DEF AnswerTellsServed
<1>1. PICK ret :
        /\ inbuf' = WordCleared(got, found)
        /\ last' = [size  |-> size,
                    word  |-> word,
                    ran   |-> found,
                    reply |-> IF Replies(code, found)
                                THEN [len |-> ReplyLength(found, ret),
                                      cmd |-> inbuf'.cmd,
                                      arg |-> inbuf'.arg]
                                ELSE NoReply]
  BY DEF Dispatch
<1>2. got.cmd = word /\ word # ZeroWord
  BY <1>1 DEF Received
<1>3. Replies(code, found)
  BY <1>1 DEF NoReply
<1>4. last'.reply.cmd = inbuf'.cmd /\ last'.ran = found
  BY <1>1, <1>3
<1>5. got \in [cmd : Word, arg : Int]
  BY ReceivedType
<1>6. CASE found
  BY <1>1, <1>4, <1>5, <1>6 DEF WordCleared
<1>7. CASE ~found
  BY <1>1, <1>2, <1>4, <1>7 DEF WordCleared
<1>8. QED
  BY <1>6, <1>7

(* Nobody's command is in the buffer once a datagram has been handled.     *)
IInv ==
  /\ TypeOK
  /\ ReplyWholeWords
  /\ AnswerTellsServed
  /\ received => Code(inbuf.cmd) \notin Served
  /\ Asked

THEOREM InductiveInvariant == Spec => []IInv
<1>1. Init => IInv
  <2>1. ASSUME Init PROVE TypeOK
    <3>1. inbuf \in [cmd : Word, arg : Int]
      BY <2>1, DispatchAssumption DEF Init
    <3>2. last \in [size : Size, word : Words \cup {ZeroWord}, ran : BOOLEAN,
                    reply : [len : Nat, cmd : Word, arg : Int]]
      BY <2>1 DEF Init, NoReply, ZeroWord, Size, Word, Half
    <3>3. received \in BOOLEAN
      BY <2>1 DEF Init
    <3>4. ntp \in [waiting : BOOLEAN, open : BOOLEAN, asked : 0 .. 2]
      BY <2>1 DEF Init
    <3>5. QED
      BY <3>1, <3>2, <3>3, <3>4 DEF TypeOK
  <2>2. ASSUME Init PROVE ReplyWholeWords /\ AnswerTellsServed /\ ~received
    BY <2>2 DEF Init, ReplyWholeWords, AnswerTellsServed, NoReply
  <2>3. ASSUME Init PROVE Asked
    BY <2>3 DEF Init, Asked
  <2>4. QED
    BY <2>1, <2>2, <2>3 DEF IInv
<1>2. ASSUME IInv, [Next]_vars PROVE IInv'
  <2>1. ASSUME NEW size \in Size, NEW word \in Words, NEW arg \in Args,
               Dispatch(size, word, arg)
        PROVE  IInv'
    <3>1. /\ inbuf' \in [cmd : Word, arg : Int]
          /\ Code(inbuf'.cmd) \notin Served
          /\ received' = TRUE
          /\ last'.reply.len \in {0, 4, 8}
          /\ last' \in [size : Size, word : Words \cup {ZeroWord},
                        ran : BOOLEAN,
                        reply : [len : Nat, cmd : Word, arg : Int]]
      BY <1>2, <2>1, TurnOfLoop DEF IInv
    <3>2. Asked'
      BY <1>2, <2>1, TurnAsksOnce DEF IInv
    <3>3. TypeOK'
      BY <3>1, <3>2 DEF TypeOK, Asked
    <3>4. AnswerTellsServed'
      BY <1>2, <2>1, TurnTellsServed DEF IInv
    <3>5. QED
      BY <3>1, <3>2, <3>3, <3>4 DEF IInv, ReplyWholeWords
  <2>2. CASE UNCHANGED vars
    BY <1>2, <2>2
      DEF vars, IInv, TypeOK, ReplyWholeWords, AnswerTellsServed, Asked
  <2>3. QED
    BY <1>2, <2>1, <2>2 DEF Next
<1>3. QED
  BY <1>1, <1>2, PTL DEF Spec

(* Type correctness of the dispatch loop.                                  *)
THEOREM TypeCorrect == Spec => []TypeOK
<1>1. IInv => TypeOK
  BY DEF IInv
<1>2. QED
  BY <1>1, InductiveInvariant, PTL

(* Replies are made of whole words, for every command word.                *)
THEOREM RepliesInWords == Spec => []ReplyWholeWords
<1>1. IInv => ReplyWholeWords
  BY DEF IInv
<1>2. QED
  BY <1>1, InductiveInvariant, PTL

(* The first word of an answer tells whether the command was served.       *)
THEOREM AnswersTell == Spec => []AnswerTellsServed
<1>1. IInv => AnswerTellsServed
  BY DEF IInv
<1>2. QED
  BY <1>1, InductiveInvariant, PTL

(* At most one time query is ever sent, whatever the flag held at start.   *)
THEOREM QueriesTimeOnce == Spec => []AskedOnce
<1>1. IInv => AskedOnce
  BY DEF IInv, Asked, AskedOnce
<1>2. QED
  BY <1>1, InductiveInvariant, PTL

(* A datagram without a byte finds nobody's command in the buffer.         *)
THEOREM NoReplay == Spec => NothingReplayed
<1>1. ASSUME IInv, [Next]_vars
      PROVE  [received /\ last'.size = "empty" => ~last'.ran]_vars
  <2>1. ASSUME NEW size \in Size, NEW word \in Words, NEW arg \in Args,
               Dispatch(size, word, arg),
               received, last'.size = "empty"
        PROVE  ~last'.ran
    <3>1. size = "empty"
          /\ last'.ran = (Code(Received(size, word, arg).cmd) \in Served)
      BY <1>1, <2>1, TurnOfLoop DEF IInv
    <3>2. Received(size, word, arg).cmd = inbuf.cmd
      BY <3>1 DEF Received
    <3>3. QED
      BY <1>1, <2>1, <3>1, <3>2 DEF IInv
  <2>2. QED
    BY <1>1, <2>1 DEF Next
<1>2. QED
  BY <1>1, InductiveInvariant, PTL DEF Spec, NothingReplayed

==============================================================================
