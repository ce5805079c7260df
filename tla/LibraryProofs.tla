--------------------------- MODULE LibraryProofs ---------------------------
(***************************************************************************)
(* Safety of the libraries under src/netutils, each as it is checked by    *)
(* MCLibraries, for every value of its constants.  What is assumed of them *)
(* is a hypothesis of each theorem.                                        *)
(***************************************************************************)
EXTENDS Integers, Sequences, FiniteSets, NetLibraries, FiniteSetTheorems,
        SequenceTheorems, WellFoundedInduction, TLAPS

----------------------------------------------------------------------------
(* The TFTP client (Tftp).                                                 *)

TftpSpec == Tftp!TftpInit /\ [][Tftp!TftpNext]_(Tftp!tftpVars)

(* The blocks a session has sent or stored are the first ones of the file. *)
FirstBlocks(k) == [n \in 1 .. k |-> n]

SessionsRunOn ==
  /\ sessions \in Seq(Seq(Nat))
  /\ \A p \in DOMAIN sessions :
       /\ Len(sessions[p]) <= Blocks
       /\ sessions[p] = FirstBlocks(Len(sessions[p]))

(* What get has written so far is the beginning of one session's blocks;   *)
(* it stays with that session once it has written a block.                 *)
GetRunsOn ==
  /\ transfer \in {"off", "data", "ok", "error"}
  /\ transfer # "ok" =>
       /\ blockno \in 1 .. Blocks
       /\ stored = [n \in 1 .. blockno - 1 |-> <<port, n>>]
       /\ blockno > 1 => port \in DOMAIN sessions
  /\ transfer = "ok" =>
       \E p \in DOMAIN sessions : stored = [n \in 1 .. Blocks |-> <<p, n>>]

(* Put sends each block under its number, and moves on when it is stored.  *)
PutRunsOn ==
  /\ offset \in Nat
  /\ offset < Blocks
  /\ blockno = offset + 1
  /\ \A packet \in flight :
       packet.no = packet.data /\ packet.data \in 1 .. Blocks
  /\ transfer = "ok" => \E p \in DOMAIN sessions : Len(sessions[p]) = Blocks

TftpInv ==
  /\ op \in {"get", "put"}
  /\ SessionsRunOn
  /\ op = "get" => GetRunsOn
  /\ op = "put" => PutRunsOn

LEMMA OneMoreBlock ==
  ASSUME NEW k \in Nat, NEW s, s = FirstBlocks(k)
  PROVE  s \in Seq(Nat) /\ Len(s) = k /\ Append(s, k + 1) = FirstBlocks(k + 1)
<1>1. s \in Seq(Nat) /\ Len(s) = k
  BY DEF FirstBlocks
<1>2. QED
  BY <1>1 DEF FirstBlocks

LEMMA TftpStarts ==
  ASSUME Blocks \in Nat \ {0}, Tftp!TftpInit
  PROVE  TftpInv
BY DEF Tftp!TftpInit, TftpInv, SessionsRunOn, GetRunsOn, PutRunsOn

(* A session that has grown by its next block still runs on.               *)
LEMMA SessionGrows ==
  ASSUME SessionsRunOn, NEW p \in DOMAIN sessions, Blocks \in Nat \ {0},
         Len(sessions[p]) < Blocks,
         sessions' = [sessions EXCEPT ![p] = Append(@, Len(@) + 1)]
  PROVE  /\ SessionsRunOn'
         /\ DOMAIN sessions' = DOMAIN sessions
         /\ \A q \in DOMAIN sessions : Len(sessions[q]) = Blocks =>
              Len(sessions'[q]) = Blocks
<1> DEFINE k == Len(sessions[p])
<1>1. k \in Nat /\ sessions[p] = FirstBlocks(k) /\ sessions[p] \in Seq(Nat)
  BY DEF SessionsRunOn
<1>2. /\ Append(sessions[p], k + 1) = FirstBlocks(k + 1)
      /\ Append(sessions[p], k + 1) \in Seq(Nat)
      /\ Len(Append(sessions[p], k + 1)) = k + 1
  <2>1. Append(sessions[p], k + 1) = FirstBlocks(k + 1)
    <3> HIDE DEF k
    <3>1. QED
      BY <1>1, OneMoreBlock
  <2>2. QED
    BY <1>1, <2>1
<1>3. /\ DOMAIN sessions' = DOMAIN sessions
      /\ sessions'[p] = Append(sessions[p], k + 1)
      /\ \A q \in DOMAIN sessions : q # p => sessions'[q] = sessions[q]
  OBVIOUS
<1>4. sessions' \in Seq(Seq(Nat))
  BY <1>2 DEF SessionsRunOn
<1>5. \A q \in DOMAIN sessions' :
        Len(sessions'[q]) <= Blocks /\ sessions'[q] = FirstBlocks(Len(sessions'[q]))
  <2> SUFFICES ASSUME NEW q \in DOMAIN sessions'
               PROVE  /\ Len(sessions'[q]) <= Blocks
                      /\ sessions'[q] = FirstBlocks(Len(sessions'[q]))
    OBVIOUS
  <2>1. CASE q = p
    BY <1>1, <1>2, <1>3, <2>1
  <2>2. CASE q # p
    BY <1>3, <2>2 DEF SessionsRunOn
  <2>3. QED
    BY <2>1, <2>2
<1>6. \A q \in DOMAIN sessions : Len(sessions[q]) = Blocks =>
              Len(sessions'[q]) = Blocks
  BY <1>1, <1>2, <1>3
<1>7. QED
  BY <1>3, <1>4, <1>5, <1>6 DEF SessionsRunOn

(* Neither half is disturbed by what it does not name.                     *)
LEMMA SessionsRest ==
  ASSUME SessionsRunOn, UNCHANGED sessions
  PROVE  SessionsRunOn'
BY DEF SessionsRunOn

LEMMA RunsRest ==
  ASSUME op \in {"get", "put"}, op = "get" => GetRunsOn, op = "put" => PutRunsOn,
         UNCHANGED <<op, transfer, blockno, offset, port, stored, flight>>,
         DOMAIN sessions \subseteq DOMAIN sessions',
         \A p \in DOMAIN sessions :
           Len(sessions[p]) = Blocks => Len(sessions'[p]) = Blocks
  PROVE  /\ op' \in {"get", "put"}
         /\ op' = "get" => GetRunsOn'
         /\ op' = "put" => PutRunsOn'
<1>1. ASSUME op = "get" PROVE GetRunsOn'
  <2>1. GetRunsOn
    BY <1>1
  <2>2. /\ transfer' = transfer /\ blockno' = blockno /\ port' = port
        /\ stored' = stored
    OBVIOUS
  <2>3. transfer # "ok" =>
          /\ blockno' \in 1 .. Blocks
          /\ stored' = [n \in 1 .. blockno' - 1 |-> <<port', n>>]
          /\ blockno' > 1 => port' \in DOMAIN sessions'
    BY <2>1, <2>2 DEF GetRunsOn
  <2>4. transfer = "ok" =>
          \E p \in DOMAIN sessions' : stored' = [n \in 1 .. Blocks |-> <<p, n>>]
    BY <2>1, <2>2 DEF GetRunsOn
  <2>5. QED
    BY <2>1, <2>2, <2>3, <2>4 DEF GetRunsOn
<1>2. op = "put" => PutRunsOn'
  BY DEF PutRunsOn
<1>3. QED
  BY <1>1, <1>2

LEMMA AcceptRunsOn ==
  ASSUME TftpInv, Blocks \in Nat \ {0}, Tftp!Accept
  PROVE  TftpInv'
<1> DEFINE first == IF op = "get" THEN <<1>> ELSE <<>>
<1>1. /\ first \in Seq(Nat)
      /\ Len(first) <= Blocks
      /\ first = FirstBlocks(Len(first))
  BY DEF FirstBlocks
<1> HIDE DEF first
<1>2. /\ sessions' = Append(sessions, first)
      /\ UNCHANGED <<op, transfer, blockno, offset, port, stored, flight>>
  BY DEF Tftp!Accept, Tftp!client, Tftp!counters, first
<1>3. /\ sessions' \in Seq(Seq(Nat))
      /\ DOMAIN sessions \subseteq DOMAIN sessions'
      /\ \A p \in DOMAIN sessions' :
           \/ sessions'[p] = first
           \/ p \in DOMAIN sessions /\ sessions'[p] = sessions[p]
      /\ \A p \in DOMAIN sessions : sessions'[p] = sessions[p]
  <2>1. sessions \in Seq(Seq(Nat))
    BY DEF TftpInv, SessionsRunOn
  <2>2. QED
    BY <1>1, <1>2, <2>1
<1>4. SessionsRunOn'
  BY <1>1, <1>3 DEF TftpInv, SessionsRunOn
<1>5. /\ op' \in {"get", "put"}
      /\ op' = "get" => GetRunsOn'
      /\ op' = "put" => PutRunsOn'
  BY <1>2, <1>3, RunsRest DEF TftpInv
<1>6. QED
  BY <1>4, <1>5 DEF TftpInv

LEMMA SendNextRunsOn ==
  ASSUME TftpInv, Blocks \in Nat \ {0}, NEW p \in DOMAIN sessions, Tftp!SendNext(p)
  PROVE  TftpInv'
<1>1. /\ Len(sessions[p]) < Blocks
      /\ sessions' = [sessions EXCEPT ![p] = Append(@, Len(@) + 1)]
      /\ UNCHANGED <<op, transfer, blockno, offset, port, stored, flight>>
  BY DEF Tftp!SendNext, Tftp!client, Tftp!counters
<1>2. /\ SessionsRunOn'
      /\ DOMAIN sessions' = DOMAIN sessions
      /\ \A q \in DOMAIN sessions :
           Len(sessions[q]) = Blocks => Len(sessions'[q]) = Blocks
  BY <1>1, SessionGrows DEF TftpInv
<1>3. QED
  BY <1>1, <1>2, RunsRest DEF TftpInv

LEMMA StoreNextRunsOn ==
  ASSUME TftpInv, Blocks \in Nat \ {0}, NEW p \in DOMAIN sessions, Tftp!StoreNext(p)
  PROVE  TftpInv'
<1>1. PICK packet \in flight :
        /\ packet.no = Len(sessions[p]) + 1
        /\ sessions' = [sessions EXCEPT ![p] = Append(@, packet.data)]
  BY DEF Tftp!StoreNext
<1>2. /\ op = "put"
      /\ UNCHANGED <<op, transfer, blockno, offset, port, stored, flight>>
  BY DEF Tftp!StoreNext, Tftp!client, Tftp!counters
<1>3. packet.data = Len(sessions[p]) + 1 /\ packet.data \in 1 .. Blocks
  BY <1>1, <1>2 DEF TftpInv, PutRunsOn
<1>4. sessions' = [sessions EXCEPT ![p] = Append(@, Len(@) + 1)]
  BY <1>1, <1>3
<1>5. Len(sessions[p]) \in Nat
  BY DEF TftpInv, SessionsRunOn
<1>6. Len(sessions[p]) < Blocks
  BY <1>3, <1>5
<1>7. /\ SessionsRunOn'
      /\ DOMAIN sessions' = DOMAIN sessions
      /\ \A q \in DOMAIN sessions :
           Len(sessions[q]) = Blocks => Len(sessions'[q]) = Blocks
  BY <1>4, <1>6, SessionGrows DEF TftpInv
<1>8. QED
  BY <1>2, <1>7, RunsRest DEF TftpInv

LEMMA RequestRunsOn ==
  ASSUME TftpInv, Tftp!Request \/ Tftp!SendFails
  PROVE  TftpInv'
<1>1. /\ transfer' \in {"data", "request", "error"}
      /\ transfer # "ok"
      /\ op = "get" => transfer' # "request"
      /\ UNCHANGED <<op, blockno, offset, port, stored, sessions, flight>>
  BY DEF Tftp!Request, Tftp!SendFails, Tftp!counters
<1>2. SessionsRunOn'
  BY <1>1, SessionsRest DEF TftpInv
<1>3. op' = "get" => GetRunsOn'
  BY <1>1 DEF TftpInv, GetRunsOn
<1>4. op' = "put" => PutRunsOn'
  BY <1>1 DEF TftpInv, PutRunsOn
<1>5. QED
  BY <1>1, <1>2, <1>3, <1>4 DEF TftpInv

(* Whatever a retry does, it leaves the blocks written alone; the port is  *)
(* forgotten only while there are none.                                    *)
LEMMA GetAgainRunsOn ==
  ASSUME TftpInv, op = "get", transfer = "data", NEW count, Tftp!GetAgain(count)
  PROVE  TftpInv'
<1>1. /\ transfer' \in {"data", "error"}
      /\ port' = IF blockno = 1 THEN 0 ELSE port
      /\ UNCHANGED <<op, blockno, offset, stored, sessions, flight>>
  BY DEF Tftp!GetAgain
<1>2. SessionsRunOn'
  BY <1>1, SessionsRest DEF TftpInv
<1>3. /\ blockno \in 1 .. Blocks
      /\ stored = [n \in 1 .. blockno - 1 |-> <<port, n>>]
      /\ blockno > 1 => port \in DOMAIN sessions
  BY DEF TftpInv, GetRunsOn
<1>4. stored' = [n \in 1 .. blockno' - 1 |-> <<port', n>>]
  <2>1. CASE blockno = 1
    BY <1>1, <1>3, <2>1
  <2>2. CASE blockno # 1
    BY <1>1, <1>3, <2>2
  <2>3. QED
    BY <2>1, <2>2
<1>5. blockno' > 1 => port' \in DOMAIN sessions'
  BY <1>1, <1>3
<1>6. GetRunsOn'
  BY <1>1, <1>3, <1>4, <1>5 DEF GetRunsOn
<1>7. QED
  BY <1>1, <1>2, <1>6 DEF TftpInv

(* The block that is written is the next one, of the session all others    *)
(* came from.                                                              *)
LEMMA OneMoreStored ==
  ASSUME NEW p, NEW k \in Nat, NEW l, l = k + 1
  PROVE  Append([i \in 1 .. k |-> <<p, i>>], <<p, l>>) = [i \in 1 .. l |-> <<p, i>>]
OBVIOUS

LEMMA WrittenRunsOn ==
  ASSUME TftpInv, Blocks \in Nat \ {0},
         op = "get", transfer = "data", NEW p \in DOMAIN sessions,
         port \in {0, p}, NEW n \in DOMAIN sessions[p], n = blockno,
         Tftp!Written(p, n)
  PROVE  TftpInv'
<1>1. /\ stored' = Append(stored, <<p, n>>)
      /\ port' = p
      /\ IF n = Blocks THEN transfer' = "ok" /\ blockno' = blockno
                       ELSE transfer' = transfer /\ blockno' = blockno + 1
      /\ UNCHANGED <<op, sessions>>
  BY DEF Tftp!Written
<1>2. SessionsRunOn'
  BY <1>1, SessionsRest DEF TftpInv
<1>3. /\ blockno \in 1 .. Blocks
      /\ stored = [i \in 1 .. blockno - 1 |-> <<port, i>>]
      /\ blockno > 1 => port \in DOMAIN sessions
  BY DEF TftpInv, GetRunsOn
<1>4. blockno > 1 => port = p
  <2>1. DOMAIN sessions = 1 .. Len(sessions)
    BY DEF TftpInv, SessionsRunOn
  <2>2. QED
    BY <1>3, <2>1
<1>5. stored = [i \in 1 .. blockno - 1 |-> <<p, i>>]
  <2>1. blockno = 1 \/ blockno > 1
    BY <1>3
  <2>2. CASE blockno = 1
    BY <1>3, <2>2
  <2>3. CASE blockno > 1
    BY <1>3, <1>4, <2>3
  <2>4. QED
    BY <2>1, <2>2, <2>3
<1>6. stored' = [i \in 1 .. blockno |-> <<p, i>>]
  <2>1. blockno - 1 \in Nat /\ blockno = (blockno - 1) + 1
    BY <1>3
  <2>2. Append([i \in 1 .. blockno - 1 |-> <<p, i>>], <<p, blockno>>)
          = [i \in 1 .. blockno |-> <<p, i>>]
    BY <2>1, OneMoreStored
  <2>3. QED
    BY <1>1, <1>5, <2>2
<1>7. CASE n = Blocks
  BY <1>1, <1>2, <1>6, <1>7 DEF TftpInv, GetRunsOn
<1>8. CASE n # Blocks
  <2>1. Blocks \in Nat /\ blockno + 1 \in 1 .. Blocks
    BY <1>3, <1>8
  <2>2. stored' = [i \in 1 .. blockno' - 1 |-> <<port', i>>]
    <3>1. blockno' - 1 = blockno /\ port' = p
      BY <1>1, <1>3, <1>8
    <3>2. QED
      BY <1>6, <3>1, ZenonT(60)
  <2>3. transfer' = "data" /\ blockno' \in 1 .. Blocks /\ port' \in DOMAIN sessions'
    BY <1>1, <1>8, <2>1
  <2>4. GetRunsOn'
    BY <2>2, <2>3 DEF GetRunsOn
  <2>5. QED
    BY <1>1, <1>2, <2>4 DEF TftpInv
<1>9. QED
  BY <1>7, <1>8

LEMMA GetKeepsOn ==
  ASSUME TftpInv, Blocks \in Nat \ {0}, Tftp!Get
  PROVE  TftpInv'
<1>1. op = "get" /\ transfer = "data"
  BY DEF Tftp!Get
<1>2. CASE Tftp!GetNothing
  BY <1>1, <1>2, GetAgainRunsOn DEF Tftp!GetNothing
<1>3. ASSUME NEW p \in DOMAIN sessions, NEW n \in DOMAIN sessions[p],
             Tftp!GetData(p, n)
      PROVE  TftpInv'
  BY <1>1, <1>3, GetAgainRunsOn, WrittenRunsOn DEF Tftp!GetData
<1>4. QED
  BY <1>2, <1>3 DEF Tftp!Get, Tftp!Ports

(* The steps of put that send nothing new and end nothing well.            *)
LEMMA PutWaitsRunsOn ==
  ASSUME TftpInv, op = "put",
         \/ \E p \in {0} \cup DOMAIN sessions : Tftp!PutNothing(p)
         \/ Tftp!PutFromElsewhere
         \/ \E n \in Nat : Tftp!PutAcked(n) /\ n # blockno,
         transfer # "ok"
  PROVE  TftpInv'
<1>1. /\ transfer' # "ok"
      /\ UNCHANGED <<op, blockno, offset, stored, sessions, flight>>
  BY DEF Tftp!PutNothing, Tftp!PutFromElsewhere, Tftp!PutAcked, Tftp!Resend,
         Tftp!counters
<1>2. SessionsRunOn'
  BY <1>1, SessionsRest DEF TftpInv
<1>3. PutRunsOn'
  BY <1>1 DEF TftpInv, PutRunsOn
<1>4. QED
  BY <1>1, <1>2, <1>3 DEF TftpInv

LEMMA PutRequestedRunsOn ==
  ASSUME TftpInv, Blocks \in Nat \ {0}, op = "put", NEW p, Tftp!PutRequested(p)
  PROVE  TftpInv'
<1>1. /\ transfer' # "ok"
      /\ \/ flight' = flight \cup {[port |-> port', no |-> blockno, data |-> offset + 1]}
         \/ flight' = flight
      /\ UNCHANGED <<op, blockno, offset, stored, sessions>>
  BY DEF Tftp!PutRequested, Tftp!Send
<1>2. SessionsRunOn'
  BY <1>1, SessionsRest DEF TftpInv
<1>3. PutRunsOn'
  BY <1>1 DEF TftpInv, PutRunsOn
<1>4. QED
  BY <1>1, <1>2, <1>3 DEF TftpInv

LEMMA PutAckedRunsOn ==
  ASSUME TftpInv, Blocks \in Nat \ {0}, op = "put", NEW p \in DOMAIN sessions,
         NEW n \in 0 .. Len(sessions[p]), n = blockno, Tftp!PutAcked(n)
  PROVE  TftpInv'
<1>1. transfer = "data" /\ UNCHANGED <<op, port, stored, sessions>>
  BY DEF Tftp!PutAcked
<1>2. SessionsRunOn'
  BY <1>1, SessionsRest DEF TftpInv
<1>3. /\ offset \in Nat
      /\ offset < Blocks
      /\ blockno = offset + 1
      /\ \A packet \in flight :
           packet.no = packet.data /\ packet.data \in 1 .. Blocks
      /\ Len(sessions[p]) \in Nat
      /\ Len(sessions[p]) <= Blocks
  BY DEF TftpInv, SessionsRunOn, PutRunsOn
<1>4. CASE offset + 1 = Blocks
  <2>1. UNCHANGED <<blockno, offset, flight>>
    <3>1. ~(offset + 1 < Blocks) /\ n = blockno
      BY <1>3, <1>4
    <3>2. QED
      BY <3>1, <1>4 DEF Tftp!PutAcked, Tftp!counters, Tftp!Resend
  <2>2. Len(sessions[p]) = Blocks
    BY <1>3, <1>4
  <2>3. PutRunsOn'
    BY <1>1, <1>3, <2>1, <2>2 DEF PutRunsOn
  <2>4. QED
    BY <1>1, <1>2, <2>3 DEF TftpInv
<1>5. CASE offset + 1 < Blocks
  <2>1. /\ blockno' = blockno + 1
        /\ offset' = offset + 1
        /\ flight' = flight \cup
             {[port |-> port, no |-> blockno + 1, data |-> offset + 1 + 1]}
        /\ transfer' = transfer
    BY <1>5 DEF Tftp!PutAcked, Tftp!Send
  <2>2. PutRunsOn'
    BY <1>1, <1>3, <1>5, <2>1 DEF PutRunsOn
  <2>3. QED
    BY <1>1, <1>2, <2>2 DEF TftpInv
<1>6. QED
  BY <1>3, <1>4, <1>5

LEMMA PutKeepsOn ==
  ASSUME TftpInv, Blocks \in Nat \ {0}, Tftp!Put
  PROVE  TftpInv'
<1>1. op = "put" /\ transfer # "ok"
  BY DEF Tftp!Put
<1>2. \A p \in DOMAIN sessions : Len(sessions[p]) \in Nat
  BY DEF TftpInv, SessionsRunOn
<1>3. ASSUME NEW p \in DOMAIN sessions, NEW n \in 0 .. Len(sessions[p]),
             Tftp!PutAcked(n)
      PROVE  TftpInv'
  <2>1. n \in Nat
    BY <1>2
  <2>2. QED
    BY <1>1, <1>3, <2>1, PutWaitsRunsOn, PutAckedRunsOn
<1>4. QED
  BY <1>1, <1>3, PutWaitsRunsOn, PutRequestedRunsOn DEF Tftp!Put, Tftp!Ports

(* The sessions, what is on the wire and what has been written run on in   *)
(* the order of the file.                                                  *)
THEOREM TransferRunsOn ==
  ASSUME Blocks \in Nat \ {0}
  PROVE  TftpSpec => []TftpInv
<1>1. Tftp!TftpInit => TftpInv
  BY TftpStarts
<1>2. TftpInv /\ [Tftp!TftpNext]_(Tftp!tftpVars) => TftpInv'
  <2> SUFFICES ASSUME TftpInv, [Tftp!TftpNext]_(Tftp!tftpVars)
               PROVE  TftpInv'
    OBVIOUS
  <2>1. CASE Tftp!Accept
    BY <2>1, AcceptRunsOn
  <2>2. CASE \E p \in Tftp!Ports : Tftp!SendNext(p) \/ Tftp!StoreNext(p)
    BY <2>2, SendNextRunsOn, StoreNextRunsOn DEF Tftp!Ports
  <2>3. CASE Tftp!Request \/ Tftp!SendFails
    BY <2>3, RequestRunsOn
  <2>4. CASE Tftp!Get
    BY <2>4, GetKeepsOn
  <2>5. CASE Tftp!Put
    BY <2>5, PutKeepsOn
  <2>6. CASE UNCHANGED Tftp!tftpVars
    <3>1. UNCHANGED <<op, transfer, blockno, offset, port, stored, sessions, flight>>
      BY <2>6 DEF Tftp!tftpVars, Tftp!client, Tftp!counters
    <3>2. SessionsRunOn'
      BY <3>1, SessionsRest DEF TftpInv
    <3>3. QED
      BY <3>1, <3>2, RunsRest DEF TftpInv
  <2>7. QED
    BY <2>1, <2>2, <2>3, <2>4, <2>5, <2>6 DEF Tftp!TftpNext
<1>3. QED
  BY <1>1, <1>2, PTL DEF TftpSpec

(* A transfer that reports success is whole, for files of any length and   *)
(* however many sessions the server opens for repeated requests            *)
(* (src/netutils/tftpc).                                                   *)
THEOREM TransfersIntact ==
  ASSUME Blocks \in Nat \ {0}
  PROVE  TftpSpec => []TransferIntact
<1>1. TftpInv => Tftp!TransferIntact
  <2> SUFFICES ASSUME TftpInv, transfer = "ok"
               PROVE  Tftp!TransferIntact
    BY DEF Tftp!TransferIntact
  <2>1. CASE op = "get"
    BY <2>1 DEF TftpInv, GetRunsOn, Tftp!TransferIntact, Tftp!Ports
  <2>2. CASE op = "put"
    BY <2>2 DEF TftpInv, SessionsRunOn, PutRunsOn, FirstBlocks,
                Tftp!TransferIntact, Tftp!Ports
  <2>3. QED
    BY <2>1, <2>2 DEF TftpInv
<1>2. QED
  BY <1>1, TransferRunsOn, PTL DEF TransferIntact

----------------------------------------------------------------------------
(* Commands to the ESP8266 (EspCommands).                                  *)

CmdSpec == Commands!CmdInit /\ [][Commands!CmdNext]_(Commands!cmdVars)

Answers == {"OK", "ERROR", "SEND_OK", "SEND_FAIL"}

CmdTyped ==
  /\ pending \in Seq([no : Nat, data : BOOLEAN])
  /\ lines \in Seq(Answers \cup {"notice"})
  /\ asked \in Nat /\ sem \in Nat
  /\ asking \in {"AT", "command", "data"}
  /\ operation \in {"command", "send"}
  /\ at \in {"off", "flush", "answer", "sending"}
  /\ at = "answer" => asking \in {"AT", "command"}
  /\ ans \in {"NONE", "OK", "ERR"} /\ overdue \in BOOLEAN
  /\ workerAns \in {"NONE", "OK", "ERR"}
  /\ workerBuf \in {"EMPTY", "SEND_OK", "SEND_FAIL", "notice"}

(* An answer that suits the command asked last, and tells the truth of it. *)
Suits(text) ==
  /\ text \in IF asking = "data" THEN {"SEND_OK", "SEND_FAIL"} ELSE {"OK", "ERROR"}
  /\ text \in {"OK", "SEND_OK"} => asked \in carried

(* While a command is awaited whose operation began with a flush that was  *)
(* long enough, it or its answer is all that is under way but for notices, *)
(* and in one place only: with the module, on the line or with the worker. *)
NoneRead == workerAns = "NONE" /\ workerBuf \in {"EMPTY", "notice"}

LinesSuit ==
  \A i \in DOMAIN lines : lines[i] # "notice" =>
    /\ Suits(lines[i])
    /\ pending = <<>> /\ NoneRead
    /\ \A j \in DOMAIN lines : j # i => lines[j] = "notice"

ReadSuits ==
  ~NoneRead =>
    /\ pending = <<>>
    /\ workerAns # "NONE" => asking # "data"
    /\ workerAns = "OK" => asked \in carried
    /\ workerBuf \notin {"EMPTY", "notice"} => asking = "data"
    /\ workerBuf = "SEND_OK" => asked \in carried

OneUnderWay ==
  /\ ans = "NONE" /\ bufans # "SEND_OK"
  /\ at = "sending" <=> asking = "data"
  /\ pending \in {<<>>, <<[no |-> asked, data |-> asking = "data"]>>}
  /\ LinesSuit
  /\ ReadSuits

CmdInv ==
  /\ CmdTyped
  /\ sem = 0 => workerAns = "NONE" /\ workerBuf = "EMPTY"
  /\ at = "flush" => ans = "NONE" /\ bufans = "EMPTY" /\ told = 0
  /\ at \in {"answer", "sending"} /\ ~overdue => OneUnderWay
  /\ Commands!ReportedDone

LEMMA CommandsStart == Commands!CmdInit => CmdInv
<1> SUFFICES ASSUME Commands!CmdInit PROVE CmdInv
  OBVIOUS
<1>1. overdue \in BOOLEAN
  BY Zenon DEF Commands!CmdInit
<1>2. CmdTyped
  BY <1>1 DEF Commands!CmdInit, CmdTyped
<1>3. QED
  BY <1>2 DEF Commands!CmdInit, CmdInv, Commands!ReportedDone

(* The module answers what it was sent, at the end of the line.            *)
LEMMA ReplySuits ==
  ASSUME CmdInv, NEW text, Commands!Reply(text)
  PROVE  CmdInv'
<1>1. /\ pending # <<>>
      /\ text \in IF Head(pending).data THEN {"SEND_OK", "SEND_FAIL"} ELSE {"OK", "ERROR"}
      /\ lines' = Append(lines, text)
      /\ carried' = IF text \in {"OK", "SEND_OK"} THEN carried \cup {Head(pending).no}
                    ELSE carried
      /\ pending' = Tail(pending)
      /\ UNCHANGED <<at, operation, asking, asked, ans, bufans, told,
                     begun, overdue, workerAns, workerBuf, sem>>
  BY DEF Commands!Reply, Commands!task, Commands!worker
<1>2. CmdTyped /\ text \in Answers
  BY <1>1 DEF CmdInv, Answers
<1>3. CmdTyped'
  BY <1>1, <1>2 DEF CmdTyped
<1>4. ASSUME at \in {"answer", "sending"}, ~overdue PROVE OneUnderWay'
  <2>1. OneUnderWay
    BY <1>4 DEF CmdInv
  <2>2. pending = <<[no |-> asked, data |-> asking = "data"]>>
    BY <1>1, <2>1 DEF OneUnderWay
  <2>3. /\ pending' = <<>>
        /\ Head(pending).no = asked
        /\ Head(pending).data = (asking = "data")
    BY <1>1, <2>2
  <2>4. NoneRead /\ \A i \in DOMAIN lines : lines[i] = "notice"
    BY <1>1, <2>1 DEF OneUnderWay, LinesSuit, ReadSuits
  <2>5. Suits(text)'
    BY <1>1, <2>3 DEF Suits
  <2>6. \A i \in DOMAIN lines' :
          \/ i = Len(lines) + 1 /\ lines'[i] = text
          \/ i # Len(lines) + 1 /\ lines'[i] = "notice"
    BY <1>1, <1>2, <2>4 DEF CmdTyped
  <2>7. LinesSuit'
    BY <1>1, <2>3, <2>4, <2>5, <2>6 DEF LinesSuit, NoneRead, Suits
  <2>8. QED
    BY <1>1, <2>1, <2>3, <2>4, <2>7 DEF OneUnderWay, ReadSuits, NoneRead
<1>5. Commands!ReportedDone'
  BY <1>1 DEF CmdInv, Commands!ReportedDone
<1>6. QED
  BY <1>1, <1>3, <1>4, <1>5 DEF CmdInv

LEMMA IgnoreSuits ==
  ASSUME CmdInv, Commands!Ignore
  PROVE  CmdInv'
<1>1. /\ pending # <<>>
      /\ pending' = Tail(pending)
      /\ UNCHANGED <<at, operation, asking, asked, ans, bufans, told,
                     begun, overdue, workerAns, workerBuf, sem, lines, carried>>
  BY DEF Commands!Ignore, Commands!task, Commands!worker
<1>2. CmdTyped'
  BY <1>1 DEF CmdInv, CmdTyped
<1>3. ASSUME at \in {"answer", "sending"}, ~overdue PROVE OneUnderWay'
  <2>1. OneUnderWay
    BY <1>3 DEF CmdInv
  <2>2. pending' = <<>>
    <3>1. pending = <<[no |-> asked, data |-> asking = "data"]>>
      BY <1>1, <2>1 DEF OneUnderWay
    <3>2. QED
      BY <1>1, <3>1
  <2>3. QED
    BY <1>1, <2>1, <2>2 DEF OneUnderWay, LinesSuit, ReadSuits, NoneRead, Suits
<1>4. QED
  BY <1>1, <1>2, <1>3 DEF CmdInv, Commands!ReportedDone

LEMMA NoticeSuits ==
  ASSUME CmdInv, Commands!Notice
  PROVE  CmdInv'
<1>1. /\ lines' = Append(lines, "notice")
      /\ UNCHANGED <<at, operation, asking, asked, ans, bufans, told,
                     begun, overdue, workerAns, workerBuf, sem, pending, carried>>
  BY DEF Commands!Notice, Commands!task, Commands!worker
<1>2. CmdTyped
  BY DEF CmdInv
<1>3. CmdTyped'
  BY <1>1, <1>2 DEF CmdTyped
<1>4. \A i \in DOMAIN lines' :
        \/ lines'[i] = "notice"
        \/ i \in DOMAIN lines /\ lines'[i] = lines[i]
  BY <1>1, <1>2 DEF CmdTyped
<1>5. LinesSuit => LinesSuit'
  BY <1>1, <1>4 DEF LinesSuit, NoneRead, Suits
<1>6. QED
  BY <1>1, <1>3, <1>5 DEF CmdInv, OneUnderWay, ReadSuits, NoneRead, Commands!ReportedDone

(* The worker takes the first line over.                                   *)
LEMMA WorkerSuits ==
  ASSUME CmdInv, Commands!WorkerLine
  PROVE  CmdInv'
<1>1. /\ lines # <<>>
      /\ lines' = Tail(lines)
      /\ sem' = sem + 1
      /\ \/ Head(lines) = "OK" /\ workerAns' = "OK" /\ workerBuf' = workerBuf
         \/ Head(lines) = "ERROR" /\ workerAns' = "ERR" /\ workerBuf' = workerBuf
         \/ Head(lines) \notin {"OK", "ERROR"} /\ workerBuf' = Head(lines)
              /\ workerAns' = workerAns
      /\ UNCHANGED <<at, operation, asking, asked, ans, bufans, told,
                     begun, overdue, pending, carried>>
  BY DEF Commands!WorkerLine, Commands!task
<1>2. CmdTyped
  BY DEF CmdInv
<1>3. Head(lines) = lines[1] /\ 1 \in DOMAIN lines /\ lines[1] \in Answers \cup {"notice"}
  BY <1>1, <1>2 DEF CmdTyped
<1>4. CmdTyped'
  BY <1>1, <1>2, <1>3 DEF CmdTyped, Answers
<1>5. \A i \in DOMAIN lines' : i + 1 \in DOMAIN lines /\ i + 1 # 1 /\ lines'[i] = lines[i + 1]
  BY <1>1, <1>2 DEF CmdTyped
<1>6. sem' # 0
  BY <1>1, <1>2 DEF CmdTyped
<1>7. ASSUME at \in {"answer", "sending"}, ~overdue PROVE OneUnderWay'
  <2>1. OneUnderWay /\ LinesSuit /\ ReadSuits
    BY <1>7 DEF CmdInv, OneUnderWay
  <2>2. CASE lines[1] = "notice"
    <3>1. workerBuf' = "notice" /\ workerAns' = workerAns
      BY <1>1, <1>3, <2>2
    <3>2. NoneRead => NoneRead'
      BY <3>1 DEF NoneRead
    <3>3. LinesSuit'
      <4> SUFFICES ASSUME NEW i \in DOMAIN lines', lines'[i] # "notice"
                   PROVE  /\ Suits(lines[i])'
                          /\ pending' = <<>> /\ NoneRead'
                          /\ \A j \in DOMAIN lines' : j # i => lines'[j] = "notice"
        BY DEF LinesSuit
      <4>1. /\ Suits(lines[i + 1])
            /\ pending = <<>> /\ NoneRead
            /\ \A j \in DOMAIN lines : j # i + 1 => lines[j] = "notice"
        BY <1>5, <2>1 DEF LinesSuit
      <4>2. i \in Nat /\ \A j \in DOMAIN lines' : j \in Nat
        BY <1>4 DEF CmdTyped
      <4>3. \A j \in DOMAIN lines' : j # i => lines'[j] = "notice"
        BY <1>5, <4>1, <4>2
      <4>4. QED
        BY <1>1, <1>5, <3>2, <4>1, <4>3 DEF Suits
    <3>4. ReadSuits'
      BY <1>1, <2>1, <3>1 DEF ReadSuits, NoneRead
    <3>5. QED
      BY <1>1, <2>1, <3>3, <3>4 DEF OneUnderWay
  <2>3. CASE lines[1] # "notice"
    <3>1. /\ Suits(lines[1])
          /\ pending = <<>> /\ NoneRead
          /\ \A j \in DOMAIN lines : j # 1 => lines[j] = "notice"
      BY <1>3, <2>1, <2>3 DEF LinesSuit
    <3>2. LinesSuit'
      BY <1>5, <3>1 DEF LinesSuit
    <3>3. ReadSuits'
      BY <1>1, <1>3, <2>3, <3>1 DEF ReadSuits, NoneRead, Suits
    <3>4. QED
      BY <1>1, <2>1, <3>2, <3>3 DEF OneUnderWay
  <2>4. QED
    BY <2>2, <2>3
<1>8. QED
  BY <1>1, <1>4, <1>6, <1>7 DEF CmdInv, Commands!ReportedDone

(* Steps of the task that end an operation, or go on waiting, without a    *)
(* word of what was done.                                                  *)
LEMMA IdleSuits ==
  ASSUME CmdInv,
         \/ Commands!WaitOn
         \/ Commands!Flush
         \/ \E kind \in {"command", "send"} : Commands!Begin(kind)
         \/ Commands!Timeout
  PROVE  CmdInv'
<1>1. CASE Commands!WaitOn
  <2>1. /\ UNCHANGED <<at, operation, asking, asked, ans, bufans, told,
                       begun, overdue, pending, lines, carried>>
        /\ workerAns' = "NONE" /\ workerBuf' = "EMPTY" /\ sem' \in Nat
    BY <1>1 DEF CmdInv, CmdTyped, Commands!WaitOn, Commands!Read,
                Commands!task, Commands!module
  <2>2. OneUnderWay => OneUnderWay'
    BY <2>1 DEF OneUnderWay, LinesSuit, ReadSuits, NoneRead, Suits
  <2>3. QED
    BY <2>1, <2>2 DEF CmdInv, CmdTyped, Commands!ReportedDone
<1>2. CASE Commands!Flush
  <2>1. /\ UNCHANGED <<at, operation, asking, asked, told,
                       begun, overdue, pending, lines, carried>>
        /\ at = "flush" /\ ans' = "NONE" /\ bufans' = "EMPTY"
        /\ workerAns' = "NONE" /\ workerBuf' = "EMPTY" /\ sem' \in Nat
    BY <1>2 DEF CmdInv, CmdTyped, Commands!Flush, Commands!Read, Commands!module
  <2>2. QED
    BY <2>1 DEF CmdInv, CmdTyped, Commands!ReportedDone
<1>3. CASE \E kind \in {"command", "send"} : Commands!Begin(kind)
  <2>1. /\ UNCHANGED <<asking, asked, pending, lines, carried, overdue,
                       workerAns, workerBuf, sem>>
        /\ at' = "flush" /\ ans' = "NONE" /\ bufans' = "EMPTY" /\ told' = 0
        /\ operation' \in {"command", "send"}
    BY <1>3 DEF Commands!Begin, Commands!module, Commands!worker
  <2>2. QED
    BY <2>1 DEF CmdInv, CmdTyped, Commands!ReportedDone
<1>4. CASE Commands!Timeout
  <2>1. /\ UNCHANGED <<operation, asking, asked, pending, lines, carried,
                       workerAns, workerBuf, sem, overdue>>
        /\ at' = "off" /\ told' = 0 /\ ans' \in {"NONE", ans}
    BY <1>4 DEF Commands!Timeout, Commands!Ends, Commands!worker
  <2>2. QED
    BY <2>1 DEF CmdInv, CmdTyped, Commands!ReportedDone
<1>5. QED
  BY <1>1, <1>2, <1>3, <1>4

(* A command is only sent when nothing but notices is under way.           *)
LEMMA SentAlone ==
  ASSUME CmdInv, pending = <<>>, \A i \in DOMAIN lines : lines[i] = "notice",
         NEW what \in {"AT", "command", "data"}, Commands!Send(what),
         ans' = "NONE", bufans' = "EMPTY",
         at' \in {"answer", "sending"}, at' = "sending" <=> what = "data",
         workerAns' = "NONE", workerBuf' = "EMPTY", sem' \in Nat,
         told' = 0 \/ (told' = told /\ overdue' = overdue),
         overdue' \in BOOLEAN, operation' = operation, lines' = lines,
         carried' = carried
  PROVE  CmdInv'
<1>1. /\ asking' = what
      /\ asked' = asked + 1
      /\ pending' = Append(pending, [no |-> asked + 1, data |-> what = "data"])
  BY DEF Commands!Send
<1>2. pending' = <<[no |-> asked', data |-> asking' = "data"]>>
  BY <1>1
<1>3. CmdTyped'
  BY <1>1 DEF CmdInv, CmdTyped
<1>4. OneUnderWay'
  BY <1>1, <1>2 DEF OneUnderWay, LinesSuit, ReadSuits, NoneRead
<1>5. QED
  BY <1>3, <1>4 DEF CmdInv, Commands!ReportedDone

LEMMA FlushedSuits ==
  ASSUME CmdInv, Commands!Flushed
  PROVE  CmdInv'
<1>1. /\ at = "flush" /\ sem = 0 /\ at' = "answer" /\ Commands!Send("AT")
      /\ overdue' = (pending # <<>> \/ lines # <<>>)
      /\ UNCHANGED <<operation, ans, bufans, told, begun, workerAns, workerBuf,
                     sem, lines, carried>>
  BY DEF Commands!Flushed, Commands!worker
<1>2. /\ ans' = "NONE" /\ bufans' = "EMPTY" /\ told' = 0 /\ sem' \in Nat
      /\ workerAns' = "NONE" /\ workerBuf' = "EMPTY"
  BY <1>1 DEF CmdInv, CmdTyped
<1>3. CASE pending = <<>> /\ lines = <<>>
  <2>1. \A i \in DOMAIN lines : lines[i] = "notice"
    BY <1>3
  <2>2. overdue' \in BOOLEAN
    BY <1>1, <1>3, Zenon
  <2>3. QED
    BY <1>1, <1>2, <1>3, <2>1, <2>2, SentAlone
<1>4. CASE ~(pending = <<>> /\ lines = <<>>)
  <2>1. overdue' = TRUE
    BY <1>1, <1>4
  <2>2. CmdTyped'
    BY <1>1, <1>2, <2>1 DEF CmdInv, CmdTyped, Commands!Send
  <2>3. QED
    BY <1>1, <1>2, <2>1, <2>2 DEF CmdInv, Commands!ReportedDone
<1>5. QED
  BY <1>3, <1>4

(* Where a read finds an answer, nothing else is under way.                *)
LEMMA AnsweredAlone ==
  ASSUME CmdInv, at = "answer", workerAns # "NONE", ~overdue
  PROVE  /\ pending = <<>>
         /\ \A i \in DOMAIN lines : lines[i] = "notice"
         /\ workerAns = "OK" => asked \in carried
BY DEF CmdInv, OneUnderWay, LinesSuit, ReadSuits, NoneRead

(* After a flush that was too short the answers read may be to anything.   *)
LEMMA OverdueReads ==
  ASSUME CmdInv, overdue, Commands!ReadAnsOk \/ Commands!ReadSendOk
  PROVE  CmdInv'
<1>1. /\ CmdTyped
      /\ Commands!AnsRead \in {"NONE", "OK", "ERR"}
  BY DEF CmdInv, CmdTyped, Commands!AnsRead
<1>2. /\ workerAns' \in {"NONE", "OK", "ERR"}
      /\ workerBuf' \in {"EMPTY", "SEND_OK", "SEND_FAIL", "notice"}
      /\ sem' \in Nat
      /\ sem' = 0 => workerAns' = "NONE" /\ workerBuf' = "EMPTY"
  <2>1. Commands!Read \/ UNCHANGED <<workerAns, workerBuf, sem>>
    BY DEF Commands!ReadAnsOk, Commands!ReadSendOk, Commands!worker
  <2>2. CASE Commands!Read
    BY <1>1, <2>2 DEF CmdTyped, Commands!Read
  <2>3. CASE UNCHANGED <<workerAns, workerBuf, sem>>
    BY <1>1, <2>3 DEF CmdInv, CmdTyped
  <2>4. QED
    BY <2>1, <2>2, <2>3
<1>3. overdue' = overdue /\ CmdTyped' /\ at' # "flush"
  <2>1. CASE Commands!ReadAnsOk /\ Commands!Answered
    <3>1. ans' = "NONE" /\ asking \in {"AT", "command"} /\ at = "answer"
      BY <1>1, <2>1 DEF CmdTyped, Commands!ReadAnsOk, Commands!Answered
    <3>2. CASE asking = "AT"
      <4>1. /\ Commands!Send("command")
            /\ UNCHANGED <<at, operation, overdue, lines>>
        BY <2>1, <3>2 DEF Commands!Answered
      <4>2. QED
        BY <1>1, <1>2, <3>1, <4>1 DEF CmdTyped, Commands!Send
    <3>3. CASE asking = "command" /\ operation = "send"
      <4>1. /\ Commands!Send("data") /\ at' = "sending"
            /\ UNCHANGED <<operation, overdue, lines>>
        BY <2>1, <3>3 DEF Commands!Answered
      <4>2. QED
        BY <1>1, <1>2, <3>1, <4>1 DEF CmdTyped, Commands!Send
    <3>4. CASE asking = "command" /\ operation = "command"
      BY <1>1, <1>2, <2>1, <3>1, <3>4
         DEF CmdTyped, Commands!Answered, Commands!Ends
    <3>5. QED
      BY <1>1, <3>1, <3>2, <3>3, <3>4 DEF CmdTyped
  <2>2. CASE Commands!ReadAnsOk /\ ~Commands!Answered
    <3>1. \/ Commands!Ends(0) /\ ans' = "NONE"
          \/ UNCHANGED <<at, operation, asking, asked, ans, overdue,
                         pending, lines, carried>>
      BY <1>1, <2>2 DEF Commands!ReadAnsOk, Commands!module
    <3>2. at = "answer"
      BY <2>2 DEF Commands!ReadAnsOk
    <3>3. QED
      BY <1>1, <1>2, <3>1, <3>2 DEF CmdTyped, Commands!Ends
  <2>3. CASE Commands!ReadSendOk
    <3>1. /\ at = "sending" /\ ans' = Commands!AnsRead
          /\ \/ Commands!Ends(asked)
             \/ UNCHANGED <<at, operation, asking, asked, overdue,
                            pending, lines, carried>>
      BY <2>3 DEF Commands!ReadSendOk, Commands!module
    <3>2. QED
      BY <1>1, <1>2, <3>1 DEF CmdTyped, Commands!Ends
  <2>4. QED
    BY <2>1, <2>2, <2>3
<1>4. QED
  BY <1>2, <1>3 DEF CmdInv, Commands!ReportedDone

LEMMA ReadAnsOkSuits ==
  ASSUME CmdInv, ~overdue, Commands!ReadAnsOk
  PROVE  CmdInv'
<1>1. /\ at = "answer" /\ OneUnderWay /\ ans = "NONE"
      /\ Commands!Read /\ Commands!Returns
      /\ CmdTyped
  BY DEF CmdInv, OneUnderWay, Commands!ReadAnsOk
<1>2. /\ workerAns' = "NONE" /\ workerBuf' = "EMPTY" /\ sem' \in Nat
      /\ Commands!AnsRead = workerAns
  BY <1>1 DEF CmdTyped, Commands!Read, Commands!AnsRead
<1>3. CASE workerAns = "OK"
  <2>1. Commands!Answered
    BY <1>1, <1>2, <1>3 DEF Commands!ReadAnsOk
  <2>2. /\ pending = <<>> /\ asked \in carried
        /\ \A i \in DOMAIN lines : lines[i] = "notice"
    BY <1>1, <1>3, AnsweredAlone
  <2>3. ans' = "NONE" /\ bufans' = "EMPTY"
    BY <2>1 DEF Commands!Answered
  <2>4. asking \in {"AT", "command"}
    BY <1>1 DEF CmdTyped, OneUnderWay
  <2>5. CASE asking = "AT"
    <3>1. /\ Commands!Send("command")
          /\ UNCHANGED <<at, operation, told, begun, overdue, lines, carried>>
      BY <2>1, <2>5 DEF Commands!Answered
    <3>2. overdue' \in BOOLEAN
      BY <1>1, <3>1, Zenon DEF CmdTyped
    <3>3. QED
      BY <1>1, <1>2, <2>2, <2>3, <3>1, <3>2, SentAlone
  <2>6. CASE asking = "command" /\ operation = "send"
    <3>1. /\ Commands!Send("data") /\ at' = "sending"
          /\ UNCHANGED <<operation, told, begun, overdue, lines, carried>>
      BY <2>1, <2>6 DEF Commands!Answered
    <3>2. overdue' \in BOOLEAN
      BY <1>1, <3>1, Zenon DEF CmdTyped
    <3>3. QED
      BY <1>2, <2>2, <2>3, <3>1, <3>2, SentAlone
  <2>7. CASE asking = "command" /\ operation = "command"
    <3>1. /\ at' = "off" /\ told' = asked /\ ans' = "NONE"
          /\ UNCHANGED <<operation, asking, asked, pending, lines, carried, overdue>>
      BY <2>1, <2>7 DEF Commands!Answered, Commands!Ends
    <3>2. QED
      BY <1>1, <1>2, <2>2, <3>1 DEF CmdInv, CmdTyped, Commands!ReportedDone
  <2>8. QED
    BY <1>1, <2>4, <2>5, <2>6, <2>7 DEF CmdTyped
<1>4. CASE workerAns = "ERR"
  <2>1. /\ at' = "off" /\ told' = 0 /\ ans' = "NONE"
        /\ UNCHANGED <<operation, asking, asked, pending, lines, carried, overdue>>
    BY <1>1, <1>2, <1>4 DEF Commands!ReadAnsOk, Commands!Ends
  <2>2. QED
    BY <1>1, <1>2, <2>1 DEF CmdInv, CmdTyped, Commands!ReportedDone
<1>5. CASE workerAns = "NONE"
  <2>1. /\ \/ at' = "off" /\ told' = 0
           \/ /\ bufans' = Commands!BufRead
              /\ UNCHANGED <<at, ans, told>>
        /\ UNCHANGED <<operation, asking, asked, pending, lines, carried, overdue>>
        /\ ans' \in {"NONE", ans}
    BY <1>1, <1>2, <1>5 DEF Commands!ReadAnsOk, Commands!Ends, Commands!module
  <2>2. Commands!BufRead # "SEND_OK"
    BY <1>1, <1>5 DEF Commands!BufRead, OneUnderWay, ReadSuits, NoneRead
  <2>3. CASE at' = "off" /\ told' = 0
    BY <1>1, <1>2, <2>1, <2>3 DEF CmdInv, CmdTyped, Commands!ReportedDone
  <2>4. CASE bufans' = Commands!BufRead /\ UNCHANGED <<at, ans, told>>
    <3>1. OneUnderWay'
      BY <1>1, <1>2, <2>1, <2>2, <2>4
         DEF OneUnderWay, LinesSuit, ReadSuits, NoneRead, Suits
    <3>2. QED
      BY <1>1, <1>2, <2>1, <2>4, <3>1 DEF CmdInv, CmdTyped, Commands!ReportedDone
  <2>5. QED
    BY <2>1, <2>3, <2>4
<1>6. QED
  BY <1>1, <1>3, <1>4, <1>5 DEF CmdTyped

LEMMA ReadSendOkSuits ==
  ASSUME CmdInv, ~overdue, Commands!ReadSendOk
  PROVE  CmdInv'
<1>1. /\ at = "sending" /\ OneUnderWay /\ ans = "NONE" /\ bufans # "SEND_OK"
      /\ Commands!Read
      /\ ans' = Commands!AnsRead /\ bufans' = Commands!BufRead
      /\ CmdTyped
  BY DEF CmdInv, OneUnderWay, Commands!ReadSendOk
<1>2. /\ workerAns' = "NONE" /\ workerBuf' = "EMPTY" /\ sem' \in Nat
  BY <1>1 DEF CmdTyped, Commands!Read
<1>3. CASE Commands!BufRead = "SEND_OK"
  <2>1. workerBuf = "SEND_OK"
    BY <1>1, <1>3 DEF Commands!BufRead
  <2>2. asked \in carried
    BY <1>1, <2>1 DEF OneUnderWay, ReadSuits, NoneRead
  <2>3. /\ at' = "off" /\ told' = asked /\ ans' \in {"NONE", "OK", "ERR"}
        /\ UNCHANGED <<operation, asking, asked, pending, lines, carried, overdue>>
    BY <1>1, <1>3 DEF CmdTyped, Commands!ReadSendOk, Commands!Ends, Commands!AnsRead
  <2>4. QED
    BY <1>1, <1>2, <2>2, <2>3 DEF CmdInv, CmdTyped, Commands!ReportedDone
<1>4. CASE Commands!BufRead # "SEND_OK"
  <2>1. UNCHANGED <<at, operation, asking, asked, told, overdue, pending, lines,
                    carried>>
    BY <1>4 DEF Commands!ReadSendOk, Commands!module
  <2>2. ans' = "NONE"
    BY <1>1 DEF OneUnderWay, ReadSuits, NoneRead, Commands!AnsRead
  <2>3. OneUnderWay'
    BY <1>1, <1>2, <1>4, <2>1, <2>2
       DEF OneUnderWay, LinesSuit, ReadSuits, NoneRead, Suits
  <2>4. CmdTyped'
    BY <1>1, <1>2, <2>1, <2>2 DEF CmdTyped
  <2>5. QED
    BY <1>1, <1>2, <2>1, <2>3, <2>4 DEF CmdInv, Commands!ReportedDone
<1>5. QED
  BY <1>3, <1>4

(* What lesp_send and the commands report done, the module has carried     *)
(* out, however many operations and whatever notices come between, where   *)
(* the flush before the operation outlasted the answers owed to earlier    *)
(* ones (src/netutils/esp8266): such a flush lets a command start alone on *)
(* the line, whatever was mistaken before, and while it is awaited nothing *)
(* else joins it.                                                          *)
THEOREM CommandsDone == CmdSpec => []ReportedDone
<1>1. CmdInv /\ [Commands!CmdNext]_(Commands!cmdVars) => CmdInv'
  <2> SUFFICES ASSUME CmdInv, [Commands!CmdNext]_(Commands!cmdVars)
               PROVE  CmdInv'
    OBVIOUS
  <2>1. CASE \E text \in {"OK", "ERROR", "SEND_OK", "SEND_FAIL"} : Commands!Reply(text)
    BY <2>1, ReplySuits
  <2>2. CASE Commands!Ignore \/ Commands!Notice \/ Commands!WorkerLine
    BY <2>2, IgnoreSuits, NoticeSuits, WorkerSuits
  <2>3. CASE Commands!Task
    BY <2>3, IdleSuits, FlushedSuits, OverdueReads, ReadAnsOkSuits, ReadSendOkSuits
       DEF Commands!Task
  <2>4. CASE UNCHANGED Commands!cmdVars
    BY <2>4 DEF CmdInv, CmdTyped, OneUnderWay, LinesSuit, ReadSuits, NoneRead,
                Suits, Commands!ReportedDone, Commands!cmdVars, Commands!task,
                Commands!worker, Commands!module
  <2>5. QED
    BY <2>1, <2>2, <2>3, <2>4 DEF Commands!CmdNext
<1>2. CmdInv => ReportedDone
  BY DEF CmdInv, ReportedDone
<1>3. QED
  BY <1>1, <1>2, CommandsStart, PTL DEF CmdSpec

----------------------------------------------------------------------------
(* Telnet option negotiation (TelnetOptions).                              *)

OptionsSpec == Options!OptionsInit /\ [][Options!OptionsNext]_(Options!optionVars)

(* An end's dialogue about the other's side of the option: what it has     *)
(* said of it that is under way, and what the other end has.  There are    *)
(* never more than two commands of a kind, and never two alike.            *)
Kinds    == {"none", "on", "off", "on_off", "off_on"}
Front(a) == IF a \in {"on", "on_off"} THEN "on" ELSE "off"
Rest(a)  == CASE a = "on_off" -> "off" [] a = "off_on" -> "on" [] OTHER -> "none"
Then(a, x) ==
  CASE a = "none" -> x
    [] a = "on" /\ x = "off" -> "on_off"
    [] a = "off" /\ x = "on" -> "off_on"
    [] OTHER -> "more"

(* Of the commands yes and no a wire carries those of a kind.              *)
None(w, K) == \A k \in DOMAIN w : w[k] \notin K
One(w, K, c) ==
  \E i \in DOMAIN w : w[i] = c /\ \A k \in DOMAIN w : w[k] \in K => k = i
Two(w, K, c, d) ==
  \E i, j \in DOMAIN w :
    /\ i < j /\ w[i] = c /\ w[j] = d
    /\ \A k \in DOMAIN w : w[k] \in K => k \in {i, j}

Carries(w, yes, no, a) ==
  \/ a = "none"   /\ None(w, {yes, no})
  \/ a = "on"     /\ One(w, {yes, no}, yes)
  \/ a = "off"    /\ One(w, {yes, no}, no)
  \/ a = "on_off" /\ Two(w, {yes, no}, yes, no)
  \/ a = "off_on" /\ Two(w, {yes, no}, no, yes)

(* What an end wants when the answer has come; a queued opposite does not  *)
(* change what is under way.                                               *)
Want(q) == CASE q = "wantno_op" -> "wantno" [] q = "wantyes_op" -> "wantyes" [] OTHER -> q

(* For what the asking end has of the option, and the other one, all that  *)
(* their commands under way can be.                                        *)
InDialogue(h, u, a, b) ==
  \/ h = "no"      /\ u = "no"      /\ a = "none"   /\ b = "none"
  \/ h = "no"      /\ u = "wantno"  /\ a = "off"    /\ b = "none"
  \/ h = "no"      /\ u = "wantyes" /\ a = "none"   /\ b = "on"
  \/ h = "no"      /\ u = "wantyes" /\ a = "off"    /\ b = "none"
  \/ h = "wantno"  /\ u = "no"      /\ a = "none"   /\ b = "off"
  \/ h = "wantno"  /\ u = "wantno"  /\ a = "off"    /\ b = "off"
  \/ h = "wantno"  /\ u = "wantyes" /\ a = "none"   /\ b = "off_on"
  \/ h = "wantno"  /\ u = "wantyes" /\ a = "on_off" /\ b = "none"
  \/ h = "wantno"  /\ u = "yes"     /\ a = "off"    /\ b = "none"
  \/ h = "wantyes" /\ u = "no"      /\ a = "none"   /\ b = "off"
  \/ h = "wantyes" /\ u = "no"      /\ a = "on"     /\ b = "none"
  \/ h = "wantyes" /\ u = "wantno"  /\ a = "none"   /\ b = "on_off"
  \/ h = "wantyes" /\ u = "wantno"  /\ a = "off_on" /\ b = "none"
  \/ h = "wantyes" /\ u = "wantyes" /\ a = "none"   /\ b = "off_on"
  \/ h = "wantyes" /\ u = "wantyes" /\ a = "off_on" /\ b = "none"
  \/ h = "wantyes" /\ u = "wantyes" /\ a = "on"     /\ b = "on"
  \/ h = "wantyes" /\ u = "yes"     /\ a = "none"   /\ b = "on"
  \/ h = "yes"     /\ u = "wantno"  /\ a = "none"   /\ b = "off"
  \/ h = "yes"     /\ u = "wantyes" /\ a = "on"     /\ b = "none"
  \/ h = "yes"     /\ u = "yes"     /\ a = "none"   /\ b = "none"

Agreed(h, u, a, b) ==
  /\ h \in Options!QState \ {"wantno_op"}
  /\ u \in Options!QState
  /\ InDialogue(Want(h), Want(u), a, b)

Dialogue(e) ==
  \E a, b \in Kinds :
    /\ Carries(wire[e], "DO", "DONT", a)
    /\ Carries(wire[Options!Peer(e)], "WILL", "WONT", b)
    /\ Agreed(optState[e].him, optState[Options!Peer(e)].us, a, b)

(* What an end says adds to its commands under way.                        *)
Adds(a, say, yes, no, next) ==
  \/ say = <<>> /\ next = a
  \/ say = <<yes>> /\ next = Then(a, "on") /\ next # "more"
  \/ say = <<no>> /\ next = Then(a, "off") /\ next # "more"

OptionsTyped ==
  /\ offered \in [Options!End -> [Options!Side -> BOOLEAN]]
  /\ optState \in [Options!End -> [Options!Side -> Options!QState]]
  /\ wire \in [Options!End -> Seq(Options!Cmd)]
  /\ reversed \in BOOLEAN

OptionsInv ==
  /\ OptionsTyped
  /\ ~reversed => \A e \in Options!End : Dialogue(e)

(* Wires.                                                                  *)
LEMMA CarriesNothing ==
  ASSUME NEW yes, NEW no, NEW a \in Kinds, Carries(<<>>, yes, no, a)
  PROVE  a = "none"
BY DEF Carries, One, Two

LEMMA CarriesOther ==
  ASSUME NEW C, NEW w \in Seq(C), NEW yes, NEW no, NEW a, Carries(w, yes, no, a),
         NEW c \in C, c \notin {yes, no}
  PROVE  Carries(Append(w, c), yes, no, a)
<1> DEFINE v == Append(w, c)
<1>1. /\ \A k \in DOMAIN w : k \in DOMAIN v /\ v[k] = w[k]
      /\ \A k \in DOMAIN v : k \in DOMAIN w \/ v[k] = c
  OBVIOUS
<1> HIDE DEF v
<1>2. None(w, {yes, no}) => None(v, {yes, no})
  BY <1>1 DEF None
<1>3. \A x : One(w, {yes, no}, x) => One(v, {yes, no}, x)
  BY <1>1 DEF One
<1>4. \A x, y : Two(w, {yes, no}, x, y) => Two(v, {yes, no}, x, y)
  BY <1>1 DEF Two
<1>5. Carries(v, yes, no, a)
  BY <1>2, <1>3, <1>4 DEF Carries
<1>6. QED
  BY <1>5 DEF v

LEMMA CarriesMore ==
  ASSUME NEW C, NEW w \in Seq(C), NEW yes \in C, NEW no \in C, yes # no,
         NEW a \in Kinds, Carries(w, yes, no, a),
         NEW x \in {"on", "off"}, Then(a, x) # "more"
  PROVE  Carries(Append(w, IF x = "on" THEN yes ELSE no), yes, no, Then(a, x))
<1> DEFINE c == IF x = "on" THEN yes ELSE no
           v == Append(w, c)
           n == Len(w) + 1
<1>1. /\ \A k \in DOMAIN w : k \in DOMAIN v /\ v[k] = w[k] /\ k < n
      /\ n \in DOMAIN v /\ v[n] = c
      /\ \A k \in DOMAIN v : k \in DOMAIN w \/ k = n
  OBVIOUS
<1> HIDE DEF v, n
<1>2. None(w, {yes, no}) => One(v, {yes, no}, c)
  BY <1>1 DEF None, One
<1>3. \A y : One(w, {yes, no}, y) => Two(v, {yes, no}, y, c)
  <2> SUFFICES ASSUME NEW y, One(w, {yes, no}, y)
               PROVE  Two(v, {yes, no}, y, c)
    OBVIOUS
  <2>1. PICK i \in DOMAIN w :
          w[i] = y /\ \A k \in DOMAIN w : w[k] \in {yes, no} => k = i
    BY DEF One
  <2>2. \A k \in DOMAIN v : v[k] \in {yes, no} => k \in {i, n}
    BY <1>1, <2>1
  <2>3. i \in DOMAIN v /\ v[i] = y /\ i < n
    BY <1>1, <2>1
  <2>4. QED
    BY <1>1, <2>2, <2>3 DEF Two
<1>4. Carries(v, yes, no, Then(a, x))
  BY <1>2, <1>3 DEF Carries, Then, Kinds
<1>5. QED
  BY <1>4 DEF v

LEMMA TailShifts ==
  ASSUME NEW C, NEW w \in Seq(C), w # <<>>
  PROVE  /\ \A k \in DOMAIN Tail(w) : /\ k \in Nat /\ k + 1 \in DOMAIN w /\ k + 1 # 1
                                      /\ Tail(w)[k] = w[k + 1]
         /\ \A k \in DOMAIN w : k # 1 => /\ k \in Nat /\ k - 1 \in DOMAIN Tail(w)
                                         /\ Tail(w)[k - 1] = w[k]
         /\ 1 \in DOMAIN w /\ w[1] = Head(w) /\ Head(w) \in C
OBVIOUS

LEMMA CarriesRest ==
  ASSUME NEW C, NEW w \in Seq(C), w # <<>>, NEW yes, NEW no, yes # no,
         NEW a \in Kinds, Carries(w, yes, no, a)
  PROVE  /\ Head(w) \notin {yes, no} => Carries(Tail(w), yes, no, a)
         /\ Head(w) = yes =>
              Front(a) = "on" /\ a # "none" /\ Carries(Tail(w), yes, no, Rest(a))
         /\ Head(w) = no =>
              Front(a) = "off" /\ a # "none" /\ Carries(Tail(w), yes, no, Rest(a))
<1> DEFINE v == Tail(w)
           K == {yes, no}
<1>1. /\ \A k \in DOMAIN v : /\ k \in Nat /\ k + 1 \in DOMAIN w /\ k + 1 # 1
                             /\ v[k] = w[k + 1]
      /\ \A k \in DOMAIN w : k # 1 => /\ k \in Nat /\ k - 1 \in DOMAIN v
                                      /\ v[k - 1] = w[k]
      /\ 1 \in DOMAIN w /\ w[1] = Head(w)
  BY TailShifts
<1> HIDE DEF v
<1>2. \A x : None(w, K) => None(v, K) /\ Head(w) \notin K
  BY <1>1 DEF None
<1>3. ASSUME NEW x, One(w, K, x)
      PROVE  /\ Head(w) \in K => Head(w) = x /\ None(v, K)
             /\ Head(w) \notin K => One(v, K, x) \/ x \notin K
  <2>1. PICK i \in DOMAIN w : w[i] = x /\ \A k \in DOMAIN w : w[k] \in K => k = i
    BY <1>3 DEF One
  <2>2. CASE i = 1
    <3>1. w[1] = x
      BY <2>1, <2>2
    <3>2. \A k \in DOMAIN v : v[k] \notin K
      BY <1>1, <2>1, <2>2
    <3>3. QED
      BY <1>1, <3>1, <3>2 DEF None
  <2>3. CASE i # 1
    <3>1. i - 1 \in DOMAIN v /\ v[i - 1] = x
      BY <1>1, <2>1, <2>3
    <3>2. \A k \in DOMAIN v : v[k] \in K => k = i - 1
      BY SMTT(30), <1>1, <2>1
    <3>3. Head(w) \notin K
      BY <1>1, <2>1, <2>3
    <3>4. QED
      BY <3>1, <3>2, <3>3 DEF One
  <2>4. QED
    BY <2>2, <2>3
<1>4. ASSUME NEW x \in K, NEW y \in K, Two(w, K, x, y)
      PROVE  /\ Head(w) \in K => Head(w) = x /\ One(v, K, y)
             /\ Head(w) \notin K => Two(v, K, x, y)
  <2>1. PICK i \in DOMAIN w, j \in DOMAIN w :
          /\ i < j /\ w[i] = x /\ w[j] = y
          /\ \A k \in DOMAIN w : w[k] \in K => k \in {i, j}
    BY <1>4 DEF Two
  <2>2. i \in Nat /\ i >= 1 /\ j \in Nat /\ j # 1
    BY <2>1
  <2>3. j - 1 \in DOMAIN v /\ v[j - 1] = y
    BY <1>1, <2>1, <2>2
  <2> HIDE DEF K
  <2>7. \A k \in DOMAIN v : v[k] \in K => k + 1 = i \/ k + 1 = j
    <3> SUFFICES ASSUME NEW k \in DOMAIN v, v[k] \in K
                 PROVE  k + 1 = i \/ k + 1 = j
      OBVIOUS
    <3>1. k + 1 \in DOMAIN w /\ w[k + 1] \in K
      BY <1>1
    <3>2. QED
      BY <2>1, <3>1
  <2>4. CASE i = 1
    <3>1. w[1] = x
      BY <2>1, <2>4
    <3>2. \A k \in DOMAIN v : v[k] \in K => k = j - 1
      BY <1>1, <2>7, <2>2, <2>4
    <3>3. QED
      BY <1>1, <2>3, <3>1, <3>2 DEF One
  <2>5. CASE i # 1
    <3>1. i - 1 \in DOMAIN v /\ v[i - 1] = x /\ i - 1 < j - 1
      BY <1>1, <2>1, <2>2, <2>5
    <3>2. \A k \in DOMAIN v : v[k] \in K => k \in {i - 1, j - 1}
      <4> SUFFICES ASSUME NEW k \in DOMAIN v, v[k] \in K
                   PROVE  k = i - 1 \/ k = j - 1
        OBVIOUS
      <4>1. k \in Nat /\ (k + 1 = i \/ k + 1 = j)
        BY <1>1, <2>7
      <4>2. QED
        BY <2>2, <4>1
    <3>3. Head(w) \notin K
      BY <1>1, <2>1, <2>2, <2>5
    <3>4. QED
      BY <2>3, <3>1, <3>2, <3>3 DEF Two
  <2>6. QED
    BY <2>4, <2>5
<1>5. CASE a = "none"
  BY <1>2, <1>5 DEF Carries, v
<1>6. CASE a \in {"on", "off"}
  <2>1. CASE a = "on"
    <3>1. One(w, K, yes)
      BY <2>1 DEF Carries
    <3>2. QED
      BY <1>3, <2>1, <3>1 DEF Carries, Front, Rest, v
  <2>2. CASE a = "off"
    <3>1. One(w, K, no)
      BY <2>2 DEF Carries
    <3>2. QED
      BY <1>3, <2>2, <3>1 DEF Carries, Front, Rest, v
  <2>3. QED
    BY <1>6, <2>1, <2>2
<1>7. CASE a \in {"on_off", "off_on"}
  BY <1>4, <1>7 DEF Carries, Front, Rest, v
<1>8. QED
  BY <1>5, <1>6, <1>7 DEF Kinds

LEMMA WireGrows ==
  ASSUME NEW w \in Seq(Options!Cmd), NEW yes \in Options!Cmd, NEW no \in Options!Cmd,
         yes # no, NEW a \in Kinds, Carries(w, yes, no, a),
         NEW say, NEW next, Adds(a, say, yes, no, next)
  PROVE  next \in Kinds /\ Carries(w \o say, yes, no, next)
<1>1. CASE say = <<>> /\ next = a
  <2>1. w \o say = w
    BY <1>1
  <2>2. QED
    BY <1>1, <2>1
<1>2. CASE say = <<yes>> /\ next = Then(a, "on") /\ next # "more"
  <2>1. w \o say = Append(w, yes)
    BY <1>2
  <2>2. Carries(Append(w, IF "on" = "on" THEN yes ELSE no), yes, no, Then(a, "on"))
    BY <1>2, CarriesMore
  <2>3. QED
    BY <1>2, <2>1, <2>2 DEF Then, Kinds
<1>3. CASE say = <<no>> /\ next = Then(a, "off") /\ next # "more"
  <2>1. w \o say = Append(w, no)
    BY <1>3
  <2>2. Carries(Append(w, IF "off" = "on" THEN yes ELSE no), yes, no, Then(a, "off"))
    BY <1>3, CarriesMore
  <2>3. QED
    BY <1>3, <2>1, <2>2 DEF Then, Kinds
<1>4. QED
  BY <1>1, <1>2, <1>3 DEF Adds

LEMMA WireGrowsOther ==
  ASSUME NEW w \in Seq(Options!Cmd), NEW yes, NEW no, NEW a,
         Carries(w, yes, no, a), NEW say,
         say = <<>> \/ \E c \in Options!Cmd \ {yes, no} : say = <<c>>
  PROVE  Carries(w \o say, yes, no, a)
<1>1. CASE say = <<>>
  <2>1. w \o say = w
    BY <1>1
  <2>2. QED
    BY <2>1
<1>2. ASSUME NEW c \in Options!Cmd \ {yes, no}, say = <<c>>
      PROVE  Carries(w \o say, yes, no, a)
  <2>1. w \o say = Append(w, c)
    BY <1>2
  <2>2. c \in Options!Cmd /\ c \notin {yes, no}
    OBVIOUS
  <2>3. Carries(Append(w, c), yes, no, a)
    BY <2>2, CarriesOther
  <2>4. QED
    BY <1>2, <2>1, <2>3
<1>3. QED
  BY <1>1, <1>2

(* The two ends of a dialogue, at each of their steps.                     *)
LEMMA AskerAsks ==
  ASSUME NEW h, NEW u, NEW a \in Kinds, NEW b \in Kinds, Agreed(h, u, a, b),
         NEW step \in {Options!TurnOn(h, "him"), Options!TurnOff(h, "him")},
         step.to # "wantno_op"
  PROVE  \E next \in Kinds :
           /\ Adds(a, step.say, "DO", "DONT", next)
           /\ Agreed(step.to, u, next, b)
<1>1. \/ step.say = <<>> /\ step.to \in Options!QState /\ Want(step.to) = Want(h)
      \/ step.say = <<"DO">> /\ h = "no" /\ step.to = "wantyes"
      \/ step.say = <<"DONT">> /\ h = "yes" /\ step.to = "wantno"
  BY DEF Options!TurnOn, Options!TurnOff, Want, Options!Says, Options!Becomes,
         Options!On, Options!Off, Options!QState, Agreed
<1>2. \/ step.say = <<>> /\ Agreed(step.to, u, a, b)
      \/ /\ step.say = <<"DO">> /\ Then(a, "on") # "more"
         /\ Agreed(step.to, u, Then(a, "on"), b)
      \/ /\ step.say = <<"DONT">> /\ Then(a, "off") # "more"
         /\ Agreed(step.to, u, Then(a, "off"), b)
  BY <1>1 DEF Agreed, InDialogue, Want, Then, Kinds, Options!QState
<1>3. QED
  BY <1>2 DEF Adds, Then, Kinds

LEMMA TellerTells ==
  ASSUME NEW h, NEW u, NEW a \in Kinds, NEW b \in Kinds, Agreed(h, u, a, b),
         NEW step \in {Options!TurnOn(u, "us"), Options!TurnOff(u, "us")}
  PROVE  \E next \in Kinds :
           /\ Adds(b, step.say, "WILL", "WONT", next)
           /\ Agreed(h, step.to, a, next)
<1>1. \/ step.say = <<>> /\ step.to \in Options!QState /\ Want(step.to) = Want(u)
      \/ step.say = <<"WILL">> /\ u = "no" /\ step.to = "wantyes"
      \/ step.say = <<"WONT">> /\ u = "yes" /\ step.to = "wantno"
  BY DEF Options!TurnOn, Options!TurnOff, Want, Options!Says, Options!Becomes,
         Options!On, Options!Off, Options!QState, Agreed
<1>2. \/ step.say = <<>> /\ Agreed(h, step.to, a, b)
      \/ /\ step.say = <<"WILL">> /\ Then(b, "on") # "more"
         /\ Agreed(h, step.to, a, Then(b, "on"))
      \/ /\ step.say = <<"WONT">> /\ Then(b, "off") # "more"
         /\ Agreed(h, step.to, a, Then(b, "off"))
  BY <1>1 DEF Agreed, InDialogue, Want, Then, Kinds, Options!QState
<1>3. QED
  BY <1>2 DEF Adds, Then, Kinds

LEMMA AskerHears ==
  ASSUME NEW h, NEW u, NEW a \in Kinds, NEW b \in Kinds, Agreed(h, u, a, b),
         b # "none", NEW supported \in BOOLEAN, NEW step,
         step = IF Front(b) = "on" THEN Options!TurnedOn(h, "him", supported)
                                   ELSE Options!TurnedOff(h, "him")
  PROVE  \E next \in Kinds :
           /\ Adds(a, step.say, "DO", "DONT", next)
           /\ Agreed(step.to, u, next, Rest(b))
<1>1. CASE b \in {"on", "on_off"}
  <2>1. \/ supported /\ step = Options!TurnedOn(h, "him", TRUE)
        \/ ~supported /\ step = Options!TurnedOn(h, "him", FALSE)
    BY <1>1 DEF Front
  <2>2. \/ step.say = <<"DO">> /\ h = "no" /\ step.to = "yes"
        \/ step.say = <<"DONT">> /\ h = "no" /\ step.to = "no"
        \/ step.say = <<"DONT">> /\ h = "wantyes_op" /\ step.to = "wantno"
        \/ step.say = <<>> /\ h = "wantno" /\ step.to = "no"
        \/ step.say = <<>> /\ h \in {"yes", "wantyes", "wantno_op"} /\ step.to = "yes"
    BY <2>1 DEF Options!TurnedOn, Options!Says, Options!Becomes,
         Options!On, Options!Off, Options!QState, Agreed
  <2>3. \/ step.say = <<>> /\ Agreed(step.to, u, a, Rest(b))
        \/ /\ step.say = <<"DO">> /\ Then(a, "on") # "more"
           /\ Agreed(step.to, u, Then(a, "on"), Rest(b))
        \/ /\ step.say = <<"DONT">> /\ Then(a, "off") # "more"
           /\ Agreed(step.to, u, Then(a, "off"), Rest(b))
    BY <1>1, <2>2 DEF Agreed, InDialogue, Want, Then, Rest, Kinds, Options!QState
  <2>4. QED
    BY <2>3 DEF Adds, Then, Kinds
<1>2. CASE b \in {"off", "off_on"}
  <2>1. step = Options!TurnedOff(h, "him")
    BY <1>2 DEF Front
  <2>2. \/ step.say = <<"DONT">> /\ h = "yes" /\ step.to = "no"
        \/ step.say = <<>> /\ h \in {"no", "wantno", "wantyes", "wantyes_op"} /\ step.to = "no"
    BY <2>1 DEF Options!TurnedOff, Options!Says, Options!Becomes,
         Options!On, Options!Off, Options!QState, Agreed
  <2>3. \/ step.say = <<>> /\ Agreed(step.to, u, a, Rest(b))
        \/ /\ step.say = <<"DO">> /\ Then(a, "on") # "more"
           /\ Agreed(step.to, u, Then(a, "on"), Rest(b))
        \/ /\ step.say = <<"DONT">> /\ Then(a, "off") # "more"
           /\ Agreed(step.to, u, Then(a, "off"), Rest(b))
    BY <1>2, <2>2 DEF Agreed, InDialogue, Want, Then, Rest, Kinds, Options!QState
  <2>4. QED
    BY <2>3 DEF Adds, Then, Kinds
<1>3. QED
  BY <1>1, <1>2 DEF Kinds

LEMMA TellerHears ==
  ASSUME NEW h, NEW u, NEW a \in Kinds, NEW b \in Kinds, Agreed(h, u, a, b),
         a # "none", NEW supported \in BOOLEAN, NEW step,
         step = IF Front(a) = "on" THEN Options!TurnedOn(u, "us", supported)
                                   ELSE Options!TurnedOff(u, "us")
  PROVE  \E next \in Kinds :
           /\ Adds(b, step.say, "WILL", "WONT", next)
           /\ Agreed(h, step.to, Rest(a), next)
<1>1. CASE a \in {"on", "on_off"}
  <2>1. \/ supported /\ step = Options!TurnedOn(u, "us", TRUE)
        \/ ~supported /\ step = Options!TurnedOn(u, "us", FALSE)
    BY <1>1 DEF Front
  <2>2. \/ step.say = <<"WILL">> /\ u = "no" /\ step.to = "yes"
        \/ step.say = <<"WONT">> /\ u = "no" /\ step.to = "no"
        \/ step.say = <<"WONT">> /\ u = "wantyes_op" /\ step.to = "wantno"
        \/ step.say = <<>> /\ u = "wantno" /\ step.to = "no"
        \/ step.say = <<>> /\ u \in {"yes", "wantyes", "wantno_op"} /\ step.to = "yes"
    BY <2>1 DEF Options!TurnedOn, Options!Says, Options!Becomes,
         Options!On, Options!Off, Options!QState, Agreed
  <2>3. \/ step.say = <<>> /\ Agreed(h, step.to, Rest(a), b)
        \/ /\ step.say = <<"WILL">> /\ Then(b, "on") # "more"
           /\ Agreed(h, step.to, Rest(a), Then(b, "on"))
        \/ /\ step.say = <<"WONT">> /\ Then(b, "off") # "more"
           /\ Agreed(h, step.to, Rest(a), Then(b, "off"))
    BY <1>1, <2>2 DEF Agreed, InDialogue, Want, Then, Rest, Kinds, Options!QState
  <2>4. QED
    BY <2>3 DEF Adds, Then, Kinds
<1>2. CASE a \in {"off", "off_on"}
  <2>1. step = Options!TurnedOff(u, "us")
    BY <1>2 DEF Front
  <2>2. \/ step.say = <<"WONT">> /\ u = "yes" /\ step.to = "no"
        \/ step.say = <<>> /\ u \in {"no", "wantno", "wantyes", "wantyes_op"} /\ step.to = "no"
        \/ step.say = <<"WILL">> /\ u = "wantno_op" /\ step.to = "wantyes"
    BY <2>1 DEF Options!TurnedOff, Options!Says, Options!Becomes,
         Options!On, Options!Off, Options!QState, Agreed
  <2>3. \/ step.say = <<>> /\ Agreed(h, step.to, Rest(a), b)
        \/ /\ step.say = <<"WILL">> /\ Then(b, "on") # "more"
           /\ Agreed(h, step.to, Rest(a), Then(b, "on"))
        \/ /\ step.say = <<"WONT">> /\ Then(b, "off") # "more"
           /\ Agreed(h, step.to, Rest(a), Then(b, "off"))
    BY <1>2, <2>2 DEF Agreed, InDialogue, Want, Then, Rest, Kinds, Options!QState
  <2>4. QED
    BY <2>3 DEF Adds, Then, Kinds
<1>3. QED
  BY <1>1, <1>2 DEF Kinds

LEMMA Peers ==
  ASSUME NEW e \in Options!End
  PROVE  /\ Options!Peer(e) \in Options!End
         /\ Options!Peer(e) # e
         /\ Options!Peer(Options!Peer(e)) = e
         /\ \A d \in Options!End : d = e \/ d = Options!Peer(e)
BY DEF Options!End, Options!Peer

(* What one end says of one side leaves the commands of the other side     *)
(* alone.                                                                  *)
LEMMA SaysOther ==
  ASSUME NEW a \in Kinds, NEW next \in Kinds, NEW say
  PROVE  /\ Adds(a, say, "DO", "DONT", next) =>
              say = <<>> \/ \E c \in Options!Cmd \ {"WILL", "WONT"} : say = <<c>>
         /\ Adds(a, say, "WILL", "WONT", next) =>
              say = <<>> \/ \E c \in Options!Cmd \ {"DO", "DONT"} : say = <<c>>
BY DEF Adds, Options!Cmd

LEMMA RequestInDialogue ==
  ASSUME OptionsTyped, NEW e \in Options!End, NEW cmd \in Options!Cmd,
         Options!TelnetNegotiate(e, cmd),
         \A d \in Options!End : Dialogue(d), ~reversed'
  PROVE  \A d \in Options!End : Dialogue(d)'
<1> DEFINE p == Options!Peer(e)
           side == Options!Asks(cmd)
           step == IF cmd \in {"WILL", "DO"}
                     THEN Options!TurnOn(optState[e][side], side)
                     ELSE Options!TurnOff(optState[e][side], side)
<1>1. /\ p \in Options!End /\ p # e /\ Options!Peer(p) = e
      /\ \A d \in Options!End : d = e \/ d = p
  BY Peers
<1>2. /\ optState' = [optState EXCEPT ![e][side] = step.to]
      /\ wire' = [wire EXCEPT ![e] = @ \o step.say]
      /\ side = "him" => step.to # "wantno_op"
  BY DEF Options!TelnetNegotiate
<1>3. /\ wire'[e] = wire[e] \o step.say /\ wire'[p] = wire[p]
      /\ wire[e] \in Seq(Options!Cmd) /\ wire[p] \in Seq(Options!Cmd)
  BY <1>1, <1>2 DEF OptionsTyped
<1>4. /\ optState'[p] = optState[p]
      /\ side = "him" => optState'[e].him = step.to /\ optState'[e].us = optState[e].us
      /\ side = "us" => optState'[e].us = step.to /\ optState'[e].him = optState[e].him
  BY <1>1, <1>2 DEF OptionsTyped, Options!Side
<1>5. PICK a \in Kinds, b \in Kinds :
        /\ Carries(wire[e], "DO", "DONT", a)
        /\ Carries(wire[p], "WILL", "WONT", b)
        /\ Agreed(optState[e].him, optState[p].us, a, b)
  BY DEF Dialogue
<1>6. PICK c \in Kinds, d \in Kinds :
        /\ Carries(wire[p], "DO", "DONT", c)
        /\ Carries(wire[e], "WILL", "WONT", d)
        /\ Agreed(optState[p].him, optState[e].us, c, d)
  BY <1>1 DEF Dialogue
<1> HIDE DEF p, step
<1>7. CASE side = "him"
  <2>1. step \in {Options!TurnOn(optState[e].him, "him"),
                  Options!TurnOff(optState[e].him, "him")}
    BY <1>7 DEF step
  <2>2. PICK next \in Kinds :
          /\ Adds(a, step.say, "DO", "DONT", next)
          /\ Agreed(step.to, optState[p].us, next, b)
    BY <1>2, <1>5, <1>7, <2>1, AskerAsks
  <2>3. Carries(wire'[e], "DO", "DONT", next)
    BY <1>3, <1>5, <2>2, WireGrows DEF Options!Cmd
  <2>4. Carries(wire'[e], "WILL", "WONT", d)
    BY <1>3, <1>6, <2>2, SaysOther, WireGrowsOther
  <2>5. Dialogue(e)'
    BY <1>3, <1>4, <1>5, <1>7, <2>2, <2>3 DEF Dialogue, p
  <2>6. Dialogue(p)'
    <3>1. /\ Carries(wire'[p], "DO", "DONT", c)
          /\ Carries(wire'[e], "WILL", "WONT", d)
          /\ Agreed(optState'[p].him, optState'[e].us, c, d)
      BY <1>3, <1>4, <1>6, <1>7, <2>4
    <3>2. QED
      BY <1>1, <3>1 DEF Dialogue
  <2>7. QED
    BY <1>1, <2>5, <2>6
<1>8. CASE side = "us"
  <2>1. step \in {Options!TurnOn(optState[e].us, "us"),
                  Options!TurnOff(optState[e].us, "us")}
    BY <1>8 DEF step
  <2>2. PICK next \in Kinds :
          /\ Adds(d, step.say, "WILL", "WONT", next)
          /\ Agreed(optState[p].him, step.to, c, next)
    BY <1>6, <2>1, TellerTells
  <2>3. Carries(wire'[e], "WILL", "WONT", next)
    BY <1>3, <1>6, <2>2, WireGrows DEF Options!Cmd
  <2>4. Carries(wire'[e], "DO", "DONT", a)
    BY <1>3, <1>5, <2>2, SaysOther, WireGrowsOther
  <2>5. Dialogue(p)'
    <3>1. /\ Carries(wire'[p], "DO", "DONT", c)
          /\ Carries(wire'[e], "WILL", "WONT", next)
          /\ Agreed(optState'[p].him, optState'[e].us, c, next)
      BY <1>3, <1>4, <1>6, <1>8, <2>2, <2>3
    <3>2. QED
      BY <1>1, <3>1 DEF Dialogue
  <2>6. Dialogue(e)'
    <3>1. /\ Carries(wire'[p], "WILL", "WONT", b)
          /\ Agreed(optState'[e].him, optState'[p].us, a, b)
      BY <1>3, <1>4, <1>5, <1>8
    <3>2. QED
      BY <2>4, <3>1 DEF Dialogue, p
  <2>7. QED
    BY <1>1, <2>5, <2>6
<1>9. QED
  BY <1>7, <1>8 DEF Options!Asks

LEMMA AnswerInDialogue ==
  ASSUME OptionsTyped, NEW e \in Options!End, Options!Negotiate(e),
         \A d \in Options!End : Dialogue(d)
  PROVE  \A d \in Options!End : Dialogue(d)'
<1> DEFINE p == Options!Peer(e)
           cmd == Head(wire[p])
           side == Options!About(cmd)
           step == IF cmd \in {"WILL", "DO"}
                     THEN Options!TurnedOn(optState[e][side], side, offered[e][side])
                     ELSE Options!TurnedOff(optState[e][side], side)
<1>1. /\ p \in Options!End /\ p # e /\ Options!Peer(p) = e
      /\ \A d \in Options!End : d = e \/ d = p
  BY Peers
<1>2. /\ wire[p] # <<>>
      /\ optState' = [optState EXCEPT ![e][side] = step.to]
      /\ wire' = [wire EXCEPT ![e] = @ \o step.say, ![p] = Tail(@)]
  BY DEF Options!Negotiate
<1>3. /\ wire'[e] = wire[e] \o step.say /\ wire'[p] = Tail(wire[p])
      /\ wire[e] \in Seq(Options!Cmd) /\ wire[p] \in Seq(Options!Cmd)
  BY <1>1, <1>2, ZenonT(60) DEF OptionsTyped
<1>4. /\ optState'[p] = optState[p]
      /\ side = "him" => optState'[e].him = step.to /\ optState'[e].us = optState[e].us
      /\ side = "us" => optState'[e].us = step.to /\ optState'[e].him = optState[e].him
  BY <1>1, <1>2, ZenonT(60) DEF OptionsTyped, Options!Side
<1>5. PICK a \in Kinds, b \in Kinds :
        /\ Carries(wire[e], "DO", "DONT", a)
        /\ Carries(wire[p], "WILL", "WONT", b)
        /\ Agreed(optState[e].him, optState[p].us, a, b)
  BY DEF Dialogue
<1>6. PICK c \in Kinds, d \in Kinds :
        /\ Carries(wire[p], "DO", "DONT", c)
        /\ Carries(wire[e], "WILL", "WONT", d)
        /\ Agreed(optState[p].him, optState[e].us, c, d)
  BY <1>1 DEF Dialogue
<1>7. cmd \in Options!Cmd /\ offered[e].him \in BOOLEAN /\ offered[e].us \in BOOLEAN
  <2>1. cmd \in Options!Cmd
    BY <1>2, <1>3, TailShifts, ZenonT(60)
  <2>2. offered[e] \in [Options!Side -> BOOLEAN]
    BY DEF OptionsTyped
  <2>3. offered[e].him \in BOOLEAN /\ offered[e].us \in BOOLEAN
    BY <2>2 DEF Options!Side
  <2>4. QED
    BY <2>1, <2>3
<1> HIDE DEF p
<1>8. CASE cmd \in {"WILL", "WONT"}
  <2>1. side = "him" /\ cmd \notin {"DO", "DONT"}
    BY <1>8 DEF Options!About
  <2>2. /\ b # "none" /\ Carries(Tail(wire[p]), "WILL", "WONT", Rest(b))
        /\ Front(b) = "on" <=> cmd = "WILL"
    <3>1. /\ cmd = "WILL" => /\ Front(b) = "on" /\ b # "none"
                            /\ Carries(Tail(wire[p]), "WILL", "WONT", Rest(b))
          /\ cmd = "WONT" => /\ Front(b) = "off" /\ b # "none"
                            /\ Carries(Tail(wire[p]), "WILL", "WONT", Rest(b))
      BY <1>2, <1>3, <1>5, CarriesRest, ZenonT(60)
    <3>2. QED
      BY <1>8, <3>1
  <2>3. Carries(Tail(wire[p]), "DO", "DONT", c)
    BY <1>2, <1>3, <1>6, <2>1, CarriesRest, ZenonT(60)
  <2>4. step = IF Front(b) = "on"
                 THEN Options!TurnedOn(optState[e].him, "him", offered[e].him)
                 ELSE Options!TurnedOff(optState[e].him, "him")
    BY <1>8, <2>1, <2>2
  <2> HIDE DEF step, cmd
  <2>5. PICK next \in Kinds :
          /\ Adds(a, step.say, "DO", "DONT", next)
          /\ Agreed(step.to, optState[p].us, next, Rest(b))
    BY <1>5, <1>7, <2>2, <2>4, AskerHears
  <2>6. Carries(wire'[e], "DO", "DONT", next)
    BY <1>3, <1>5, <2>5, WireGrows DEF Options!Cmd
  <2>7. Carries(wire'[e], "WILL", "WONT", d)
    BY <1>3, <1>6, <2>5, SaysOther, WireGrowsOther
  <2>8. Rest(b) \in Kinds
    BY DEF Rest, Kinds
  <2>9. Dialogue(e)'
    BY <1>3, <1>4, <2>1, <2>2, <2>5, <2>6, <2>8 DEF Dialogue, p
  <2>10. Dialogue(p)'
    <3>1. /\ Carries(wire'[p], "DO", "DONT", c)
          /\ Agreed(optState'[p].him, optState'[e].us, c, d)
      BY <1>3, <1>4, <1>6, <2>1, <2>3
    <3>2. QED
      BY <1>1, <2>7, <3>1 DEF Dialogue
  <2>11. QED
    BY <1>1, <2>9, <2>10
<1>9. CASE cmd \in {"DO", "DONT"}
  <2>1. side = "us" /\ cmd \notin {"WILL", "WONT"}
    BY <1>9 DEF Options!About
  <2>2. /\ c # "none" /\ Carries(Tail(wire[p]), "DO", "DONT", Rest(c))
        /\ Front(c) = "on" <=> cmd = "DO"
    <3>1. /\ cmd = "DO" => /\ Front(c) = "on" /\ c # "none"
                            /\ Carries(Tail(wire[p]), "DO", "DONT", Rest(c))
          /\ cmd = "DONT" => /\ Front(c) = "off" /\ c # "none"
                            /\ Carries(Tail(wire[p]), "DO", "DONT", Rest(c))
      BY <1>2, <1>3, <1>6, CarriesRest, ZenonT(60)
    <3>2. QED
      BY <1>9, <3>1
  <2>3. Carries(Tail(wire[p]), "WILL", "WONT", b)
    BY <1>2, <1>3, <1>5, <2>1, CarriesRest, ZenonT(60)
  <2>4. step = IF Front(c) = "on"
                 THEN Options!TurnedOn(optState[e].us, "us", offered[e].us)
                 ELSE Options!TurnedOff(optState[e].us, "us")
    BY <1>9, <2>1, <2>2
  <2> HIDE DEF step, cmd
  <2>5. PICK next \in Kinds :
          /\ Adds(d, step.say, "WILL", "WONT", next)
          /\ Agreed(optState[p].him, step.to, Rest(c), next)
    BY <1>6, <1>7, <2>2, <2>4, TellerHears
  <2>6. Carries(wire'[e], "WILL", "WONT", next)
    BY <1>3, <1>6, <2>5, WireGrows DEF Options!Cmd
  <2>7. Carries(wire'[e], "DO", "DONT", a)
    BY <1>3, <1>5, <2>5, SaysOther, WireGrowsOther
  <2>8. Rest(c) \in Kinds
    BY DEF Rest, Kinds
  <2>9. Dialogue(p)'
    <3>1. /\ Carries(wire'[p], "DO", "DONT", Rest(c))
          /\ Agreed(optState'[p].him, optState'[e].us, Rest(c), next)
      BY <1>3, <1>4, <2>1, <2>2, <2>5
    <3>2. QED
      BY <1>1, <2>6, <2>8, <3>1 DEF Dialogue
  <2>10. Dialogue(e)'
    <3>1. /\ Carries(wire'[p], "WILL", "WONT", b)
          /\ Agreed(optState'[e].him, optState'[p].us, a, b)
      BY <1>3, <1>4, <1>5, <2>1, <2>3
    <3>2. QED
      BY <2>7, <3>1 DEF Dialogue, p
  <2>11. QED
    BY <1>1, <2>9, <2>10
<1>10. QED
  BY <1>7, <1>8, <1>9 DEF Options!Cmd

(* What the handlers make of a state is a state, and what they say a       *)
(* command.                                                                *)
WellFormed(step) == step.to \in Options!QState /\ step.say \in Seq(Options!Cmd)

LEMMA StepsWellFormed ==
  ASSUME NEW q \in Options!QState, NEW side \in Options!Side
  PROVE  /\ WellFormed(Options!TurnOn(q, side)) /\ WellFormed(Options!TurnOff(q, side))
         /\ \A ok \in BOOLEAN : WellFormed(Options!TurnedOn(q, side, ok))
         /\ WellFormed(Options!TurnedOff(q, side))
<1>1. \A r \in Options!QState : WellFormed(Options!Becomes(r))
  BY DEF WellFormed, Options!Becomes
<1>2. \A r \in Options!QState, c \in Options!Cmd : WellFormed(Options!Says(r, c))
  BY DEF WellFormed, Options!Says
<1>3. Options!On(side) \in Options!Cmd /\ Options!Off(side) \in Options!Cmd
  BY DEF Options!On, Options!Off, Options!Side, Options!Cmd
<1>4. {"no", "yes", "wantno", "wantyes", "wantno_op", "wantyes_op"} = Options!QState
  BY DEF Options!QState
<1>5. WellFormed(Options!TurnOn(q, side))
  BY <1>1, <1>2, <1>3, <1>4 DEF Options!TurnOn
<1>6. WellFormed(Options!TurnOff(q, side))
  BY <1>1, <1>2, <1>3, <1>4 DEF Options!TurnOff
<1>7. ASSUME NEW ok \in BOOLEAN PROVE WellFormed(Options!TurnedOn(q, side, ok))
  <2>1. CASE ok = TRUE
    BY <1>1, <1>2, <1>3, <1>4, <2>1 DEF Options!TurnedOn
  <2>2. CASE ok = FALSE
    BY <1>1, <1>2, <1>3, <1>4, <2>2 DEF Options!TurnedOn
  <2>3. QED
    BY <2>1, <2>2
<1>8. WellFormed(Options!TurnedOff(q, side))
  BY <1>1, <1>2, <1>3, <1>4 DEF Options!TurnedOff
<1>9. QED
  BY <1>5, <1>6, <1>7, <1>8

(* Types, kept by every step.                                              *)
LEMMA OptionsKeepTypes ==
  ASSUME OptionsTyped, [Options!OptionsNext]_(Options!optionVars)
  PROVE  OptionsTyped'
<1>1. ASSUME NEW e \in Options!End, NEW cmd \in Options!Cmd,
             Options!TelnetNegotiate(e, cmd)
      PROVE  OptionsTyped'
  <2> DEFINE side == Options!Asks(cmd)
             step == IF cmd \in {"WILL", "DO"}
                       THEN Options!TurnOn(optState[e][side], side)
                       ELSE Options!TurnOff(optState[e][side], side)
  <2>1. side \in Options!Side /\ optState[e][side] \in Options!QState
    BY DEF OptionsTyped, Options!Asks, Options!Side
  <2>2. step.to \in Options!QState /\ step.say \in Seq(Options!Cmd)
    BY <2>1, StepsWellFormed DEF WellFormed
  <2> HIDE DEF step, side
  <2>3. /\ optState' = [optState EXCEPT ![e][side] = step.to]
        /\ wire' = [wire EXCEPT ![e] = @ \o step.say]
        /\ reversed' = (reversed \/ (side = "him" /\ step.to = "wantno_op"))
        /\ offered' = offered
    BY <1>1 DEF Options!TelnetNegotiate, step, side
  <2>4. optState' \in [Options!End -> [Options!Side -> Options!QState]]
    BY <2>1, <2>2, <2>3 DEF OptionsTyped
  <2>5. wire[e] \o step.say \in Seq(Options!Cmd)
    BY <2>2 DEF OptionsTyped
  <2>6. wire' \in [Options!End -> Seq(Options!Cmd)]
    BY <2>3, <2>5 DEF OptionsTyped
  <2>7. QED
    BY <2>3, <2>4, <2>6 DEF OptionsTyped
<1>2. ASSUME NEW e \in Options!End, Options!Negotiate(e)
      PROVE  OptionsTyped'
  <2> DEFINE p == Options!Peer(e)
             cmd == Head(wire[p])
             side == Options!About(cmd)
             step == IF cmd \in {"WILL", "DO"}
                       THEN Options!TurnedOn(optState[e][side], side, offered[e][side])
                       ELSE Options!TurnedOff(optState[e][side], side)
  <2>1. side \in Options!Side /\ optState[e][side] \in Options!QState
    BY DEF OptionsTyped, Options!About, Options!Side
  <2>2. step.to \in Options!QState /\ step.say \in Seq(Options!Cmd)
    <3>1. offered[e][side] \in BOOLEAN
      BY <2>1 DEF OptionsTyped
    <3>2. QED
      BY <2>1, <3>1, StepsWellFormed DEF WellFormed
  <2> HIDE DEF step, side
  <2>3. /\ wire[p] # <<>>
        /\ optState' = [optState EXCEPT ![e][side] = step.to]
        /\ wire' = [wire EXCEPT ![e] = @ \o step.say, ![p] = Tail(@)]
        /\ UNCHANGED <<offered, reversed>>
    BY <1>2 DEF Options!Negotiate, step, side
  <2>4. optState' \in [Options!End -> [Options!Side -> Options!QState]]
    BY <2>1, <2>2, <2>3 DEF OptionsTyped
  <2>5. /\ p \in Options!End /\ p # e
        /\ wire[e] \in Seq(Options!Cmd) /\ wire[p] \in Seq(Options!Cmd)
    BY Peers DEF OptionsTyped
  <2> HIDE DEF p
  <2>6. wire[e] \o step.say \in Seq(Options!Cmd) /\ Tail(wire[p]) \in Seq(Options!Cmd)
    BY <2>2, <2>3, <2>5
  <2>7. wire' \in [Options!End -> Seq(Options!Cmd)]
    BY <2>3, <2>5, <2>6 DEF OptionsTyped
  <2>8. QED
    BY <2>3, <2>4, <2>7 DEF OptionsTyped
<1>3. CASE UNCHANGED Options!optionVars
  BY <1>3 DEF OptionsTyped, Options!optionVars
<1>4. QED
  BY <1>1, <1>2, <1>3 DEF Options!OptionsNext

(* Whenever nothing is under way the ends agree on each other's side of    *)
(* the option, however many requests they made and however those crossed,  *)
(* as long as no end asked for DO again before its DONT was answered       *)
(* (telnet_negotiate and _negotiate of src/netutils/telnetc).              *)
THEOREM EndsKeepAgreeing == OptionsSpec => []EndsAgree
<1>1. Options!OptionsInit => OptionsInv
  <2> SUFFICES ASSUME Options!OptionsInit PROVE OptionsInv
    OBVIOUS
  <2>1. OptionsTyped /\ ~reversed
    <3>1. optState \in [Options!End -> [Options!Side -> Options!QState]]
      BY DEF Options!OptionsInit, Options!QState
    <3>2. wire \in [Options!End -> Seq(Options!Cmd)]
      BY DEF Options!OptionsInit
    <3>3. QED
      BY <3>1, <3>2 DEF Options!OptionsInit, OptionsTyped
  <2>2. ASSUME NEW e \in Options!End PROVE Dialogue(e)
    <3>1. /\ wire[e] = <<>> /\ wire[Options!Peer(e)] = <<>>
          /\ optState[e].him = "no" /\ optState[Options!Peer(e)].us = "no"
      BY Peers DEF Options!OptionsInit, Options!Side
    <3>2. /\ Carries(<<>>, "DO", "DONT", "none")
          /\ Carries(<<>>, "WILL", "WONT", "none")
          /\ Agreed("no", "no", "none", "none")
      BY DEF Carries, None, Agreed, InDialogue, Want, Options!QState
    <3>3. QED
      BY <3>1, <3>2 DEF Dialogue, Kinds
  <2>3. QED
    BY <2>1, <2>2 DEF OptionsInv
<1>2. OptionsInv /\ [Options!OptionsNext]_(Options!optionVars) => OptionsInv'
  <2> SUFFICES ASSUME OptionsInv, [Options!OptionsNext]_(Options!optionVars)
               PROVE  OptionsInv'
    OBVIOUS
  <2>1. OptionsTyped /\ OptionsTyped'
    BY OptionsKeepTypes DEF OptionsInv
  <2>2. ASSUME ~reversed' PROVE \A d \in Options!End : Dialogue(d)'
    <3>1. ASSUME NEW e \in Options!End, NEW cmd \in Options!Cmd,
                 Options!TelnetNegotiate(e, cmd)
          PROVE  \A d \in Options!End : Dialogue(d)'
      <4>1. ~reversed
        BY <2>2, <3>1 DEF Options!TelnetNegotiate
      <4>2. QED
        BY <2>1, <2>2, <3>1, <4>1, RequestInDialogue DEF OptionsInv
    <3>2. ASSUME NEW e \in Options!End, Options!Negotiate(e)
          PROVE  \A d \in Options!End : Dialogue(d)'
      <4>1. ~reversed
        BY <2>2, <3>2 DEF Options!Negotiate
      <4>2. QED
        BY <2>1, <3>2, <4>1, AnswerInDialogue DEF OptionsInv
    <3>3. CASE UNCHANGED Options!optionVars
      <4>1. UNCHANGED <<optState, wire, reversed>>
        BY <3>3 DEF Options!optionVars
      <4>2. QED
        BY <2>2, <4>1 DEF OptionsInv, Dialogue
    <3>4. QED
      BY <3>1, <3>2, <3>3 DEF Options!OptionsNext
  <2>3. QED
    BY <2>1, <2>2 DEF OptionsInv
<1>3. OptionsInv => EndsAgree
  <2> SUFFICES ASSUME OptionsInv, Options!Quiet, ~reversed, NEW e \in Options!End
               PROVE  /\ optState[e].him \in {"no", "yes"}
                      /\ optState[e].him = optState[Options!Peer(e)].us
    BY DEF EndsAgree, Options!EndsAgree
  <2>1. PICK a \in Kinds, b \in Kinds :
          /\ Carries(wire[e], "DO", "DONT", a)
          /\ Carries(wire[Options!Peer(e)], "WILL", "WONT", b)
          /\ Agreed(optState[e].him, optState[Options!Peer(e)].us, a, b)
    BY DEF OptionsInv, Dialogue
  <2>2. wire[e] = <<>> /\ wire[Options!Peer(e)] = <<>>
    BY Peers DEF Options!Quiet
  <2>3. a = "none" /\ b = "none"
    BY <2>1, <2>2, CarriesNothing
  <2>4. QED
    BY <2>1, <2>3 DEF Agreed, InDialogue, Want, Options!QState
<1>4. QED
  BY <1>1, <1>2, <1>3, PTL DEF OptionsSpec

----------------------------------------------------------------------------
(* The web server's slots (Thttpd).                                        *)

ThttpdSpec == Thttpd!ThttpdInit /\ [][Thttpd!ThttpdMain]_(Thttpd!thttpdVars)

SlotParameters ==
  NumSlots \in Nat \ {0} /\ Linger \in Nat /\ IdlePeriod \in Nat /\ IdleLimit \in Nat

Conns ==
  [state : {"free", "reading", "sending", "lingering"}, age : Int, reads : Nat,
   lingers : BOOLEAN, timer : Nat \cup {-1}, pointer : BOOLEAN]

Entries == [fd : Thttpd!Slot \cup {0}, revents : {"none", "in", "err", "stale"}]

Servers ==
  [free : Seq(Thttpd!Slot), conns : [Thttpd!Slot -> Conns], watch : Seq(Entries)]

(* A list has each slot of a set once, and no other.                       *)
FreeAre(free, S) ==
  /\ \A i \in 1 .. Len(free) : free[i] \in S
  /\ \A i, j \in 1 .. Len(free) : free[i] = free[j] => i = j
  /\ \A c \in S : \E i \in 1 .. Len(free) : free[i] = c

(* Each descriptor of a set is watched once, and no other but the          *)
(* listener's.                                                             *)
WatchedAre(watch, S) ==
  /\ \A i \in 1 .. Len(watch) : watch[i].fd \in S \cup {0}
  /\ \A i, j \in 1 .. Len(watch) : watch[i].fd = watch[j].fd => i = j
  /\ \A c \in S : \E i \in 1 .. Len(watch) : watch[i].fd = c

FreeSlots(conns)    == {c \in Thttpd!Slot : conns[c].state = "free"}
WatchedSlots(conns) ==
  {c \in Thttpd!Slot : conns[c].state \in {"reading", "lingering"}}

TimerFits(its) ==
  /\ its.timer # -1 <=> its.state = "lingering"
  /\ its.pointer <=> its.state = "lingering"

Sound(s) ==
  /\ s \in Servers
  /\ FreeAre(s.free, FreeSlots(s.conns))
  /\ WatchedAre(s.watch, WatchedSlots(s.conns))
  /\ \A c \in Thttpd!Slot : TimerFits(s.conns[c])

(* The connection that is served is in the state its handler is for.       *)
ServedFits ==
  /\ scan \in Nat \ {0}
  /\ after \in {"poll", "next"}
  /\ current \in Thttpd!Slot
  /\ \/ stage \in {"poll", "accept", "next", "timers"} /\ current = 1
     \/ stage = "idle"
     \/ /\ stage \in {"reading", "sending", "lingering"}
        /\ server.conns[current].state = stage

SlotsInv == Sound(server) /\ ServedFits

LEMMA WatchLess ==
  ASSUME SlotParameters, NEW w \in Seq(Entries), NEW S, WatchedAre(w, S),
         NEW i \in 1 .. Len(w), w[i].fd # 0
  PROVE  /\ Thttpd!DelAt(w, i) \in Seq(Entries)
         /\ WatchedAre(Thttpd!DelAt(w, i), S \ {w[i].fd})
<1> DEFINE d == Thttpd!DelAt(w, i)
<1>1. Len(w) \in Nat /\ Len(w) >= 1 /\ \A j \in 1 .. Len(w) : w[j] \in Entries
  OBVIOUS
<1>2. d = [j \in 1 .. Len(w) - 1 |-> IF j = i THEN w[Len(w)] ELSE w[j]]
  BY DEF Thttpd!DelAt
<1>3. d \in Seq(Entries) /\ Len(d) = Len(w) - 1
  BY <1>1, <1>2
<1>4. \A j \in 1 .. Len(d) : d[j] = IF j = i THEN w[Len(w)] ELSE w[j]
  BY <1>1, <1>2, <1>3
<1> HIDE DEF d
<1>5. \A j \in 1 .. Len(d) : d[j].fd \in (S \ {w[i].fd}) \cup {0}
  BY SMTT(30), <1>1, <1>3, <1>4 DEF WatchedAre
<1>6. \A j, k \in 1 .. Len(d) : d[j].fd = d[k].fd => j = k
  BY SMTT(30), <1>1, <1>3, <1>4 DEF WatchedAre
<1>7. ASSUME NEW c \in S \ {w[i].fd} PROVE \E j \in 1 .. Len(d) : d[j].fd = c
  <2>1. PICK k \in 1 .. Len(w) : w[k].fd = c
    BY DEF WatchedAre
  <2>2. CASE k = Len(w)
    <3>1. i \in 1 .. Len(d) /\ d[i].fd = c
      BY <1>1, <1>3, <1>4, <2>1, <2>2
    <3>2. QED
      BY <3>1
  <2>3. CASE k # Len(w)
    <3>1. k \in 1 .. Len(d) /\ d[k].fd = c
      BY <1>1, <1>3, <1>4, <2>1, <2>3
    <3>2. QED
      BY <3>1
  <2>4. QED
    BY <2>2, <2>3
<1>8. QED
  BY <1>3, <1>5, <1>6, <1>7 DEF WatchedAre, d

LEMMA WatchMore ==
  ASSUME SlotParameters, NEW w \in Seq(Entries), NEW S, WatchedAre(w, S),
         NEW c \in Thttpd!Slot, c \notin S
  PROVE  /\ Append(w, [fd |-> c, revents |-> "stale"]) \in Seq(Entries)
         /\ WatchedAre(Append(w, [fd |-> c, revents |-> "stale"]), S \cup {c})
<1> DEFINE new == [fd |-> c, revents |-> "stale"]
           a == Append(w, new)
<1>1. new \in Entries /\ new.fd = c /\ c # 0
  BY DEF Entries, Thttpd!Slot, SlotParameters
<1> HIDE DEF new
<1>2. /\ a \in Seq(Entries) /\ Len(a) = Len(w) + 1 /\ Len(w) \in Nat
      /\ a[Len(w) + 1] = new
      /\ \A j \in 1 .. Len(w) : a[j] = w[j]
  BY <1>1
<1> HIDE DEF a
<1>3. \A j \in 1 .. Len(a) : j = Len(w) + 1 \/ j \in 1 .. Len(w)
  BY <1>2
<1>4. \A j \in 1 .. Len(w) : a[j].fd # c
  BY <1>1, <1>2 DEF WatchedAre
<1>5. \A j \in 1 .. Len(a) : a[j].fd \in S \cup {c} \cup {0}
  BY <1>1, <1>2, <1>3 DEF WatchedAre
<1>6. \A j, k \in 1 .. Len(a) : a[j].fd = a[k].fd => j = k
  BY <1>1, <1>2, <1>3, <1>4 DEF WatchedAre
<1>7. \A k \in S \cup {c} : \E j \in 1 .. Len(a) : a[j].fd = k
  <2> TAKE k \in S \cup {c}
  <2>1. CASE k = c
    BY <1>1, <1>2, <2>1
  <2>2. CASE k \in S
    BY <1>2, <2>2 DEF WatchedAre
  <2>3. QED
    BY <2>1, <2>2
<1>8. QED
  BY <1>2, <1>5, <1>6, <1>7 DEF WatchedAre, a, new

(* What fdwatch_del_fd leaves.                                             *)
LEMMA DelFdLess ==
  ASSUME SlotParameters, NEW s \in Servers, NEW S, WatchedAre(s.watch, S),
         NEW c \in Thttpd!Slot
  PROVE  /\ Thttpd!DelFd(s, c) \in Servers
         /\ Thttpd!DelFd(s, c).free = s.free
         /\ Thttpd!DelFd(s, c).conns = s.conns
         /\ WatchedAre(Thttpd!DelFd(s, c).watch, S \ {c})
<1>1. s.watch \in Seq(Entries) /\ DOMAIN s.watch = 1 .. Len(s.watch)
  BY DEF Servers
<1>2. CASE \E i \in DOMAIN s.watch : s.watch[i].fd = c
  <2> DEFINE i == CHOOSE i \in DOMAIN s.watch : s.watch[i].fd = c
  <2>1. i \in 1 .. Len(s.watch) /\ s.watch[i].fd = c
    BY <1>1, <1>2
  <2>2. Thttpd!DelFd(s, c) = [s EXCEPT !.watch = Thttpd!DelAt(s.watch, i)]
    BY <1>2 DEF Thttpd!DelFd
  <2> HIDE DEF i
  <2>3. c # 0
    BY DEF Thttpd!Slot, SlotParameters
  <2>4. /\ Thttpd!DelAt(s.watch, i) \in Seq(Entries)
        /\ WatchedAre(Thttpd!DelAt(s.watch, i), S \ {c})
    BY <1>1, <2>1, <2>3, WatchLess
  <2>5. QED
    BY <2>2, <2>4 DEF Servers
<1>3. CASE ~ \E i \in DOMAIN s.watch : s.watch[i].fd = c
  <2>1. Thttpd!DelFd(s, c) = s
    BY <1>3 DEF Thttpd!DelFd
  <2>2. c \notin S
    BY <1>1, <1>3 DEF WatchedAre
  <2>3. S \ {c} = S
    BY <2>2
  <2>4. QED
    BY <2>1, <2>3
<1>4. QED
  BY <1>2, <1>3

(* A slot that becomes free.                                               *)
LEMMA FreeMore ==
  ASSUME SlotParameters, NEW f \in Seq(Thttpd!Slot), NEW S, FreeAre(f, S),
         NEW c \in Thttpd!Slot, c \notin S
  PROVE  <<c>> \o f \in Seq(Thttpd!Slot) /\ FreeAre(<<c>> \o f, S \cup {c})
<1> DEFINE a == <<c>> \o f
<1>1. /\ a \in Seq(Thttpd!Slot) /\ Len(a) = Len(f) + 1 /\ Len(f) \in Nat
      /\ a[1] = c
      /\ \A j \in 2 .. Len(f) + 1 : a[j] = f[j - 1]
  OBVIOUS
<1> HIDE DEF a
<1>2. \A j \in 1 .. Len(a) :
        \/ j = 1 /\ a[j] = c
        \/ j # 1 /\ j - 1 \in 1 .. Len(f) /\ a[j] = f[j - 1]
  BY <1>1
<1>3. \A j \in 1 .. Len(a) : a[j] \in S \cup {c}
  BY <1>2 DEF FreeAre
<1>4. \A j, k \in 1 .. Len(a) : a[j] = a[k] => j = k
  <2> TAKE j, k \in 1 .. Len(a)
  <2>1. CASE j = 1 \/ k = 1
    BY <1>2, <2>1 DEF FreeAre
  <2>2. CASE j # 1 /\ k # 1
    <3>1. j - 1 \in 1 .. Len(f) /\ a[j] = f[j - 1] /\ k - 1 \in 1 .. Len(f) /\ a[k] = f[k - 1]
      BY <1>2, <2>2
    <3>2. a[j] = a[k] => j - 1 = k - 1
      BY <3>1 DEF FreeAre
    <3>3. QED
      BY <3>2
  <2>3. QED
    BY <2>1, <2>2
<1>5. \A k \in S \cup {c} : \E j \in 1 .. Len(a) : a[j] = k
  <2> TAKE k \in S \cup {c}
  <2>1. CASE k = c
    BY <1>1, <2>1
  <2>2. CASE k \in S
    <3>1. PICK j \in 1 .. Len(f) : f[j] = k
      BY <2>2 DEF FreeAre
    <3>2. j + 1 \in 1 .. Len(a) /\ a[j + 1] = k
      BY <1>1, <3>1
    <3>3. QED
      BY <3>2
  <2>3. QED
    BY <2>1, <2>2
<1>6. QED
  BY <1>1, <1>3, <1>4, <1>5 DEF FreeAre, a

(* really_clear_connection, of a connection whose timer is pointed to or   *)
(* not there.                                                              *)
LEMMA ReallyClearSound ==
  ASSUME SlotParameters, NEW s \in Servers, NEW c \in Thttpd!Slot,
         s.conns[c].state # "free",
         s.conns[c].pointer \/ s.conns[c].timer = -1,
         FreeAre(s.free, FreeSlots(s.conns)),
         WatchedAre(s.watch, WatchedSlots(s.conns)),
         \A d \in Thttpd!Slot \ {c} : TimerFits(s.conns[d])
  PROVE  Sound(Thttpd!ReallyClear(s, c))
<1> DEFINE t == Thttpd!DelFd(s, c)
           r == Thttpd!ReallyClear(s, c)
           its == Thttpd!Freed(s.conns[c])
<1>1. /\ t \in Servers /\ t.free = s.free /\ t.conns = s.conns
      /\ WatchedAre(t.watch, WatchedSlots(s.conns) \ {c})
  BY DelFdLess
<1>2. r = [t EXCEPT !.conns[c] = Thttpd!Freed(@), !.free = <<c>> \o @]
  BY DEF Thttpd!ReallyClear
<1>3. s.conns \in [Thttpd!Slot -> Conns] /\ s.conns[c] \in Conns /\ s.free \in Seq(Thttpd!Slot)
  BY DEF Servers
<1>4. its \in Conns /\ its.state = "free" /\ TimerFits(its)
  <2>1. /\ its.state = "free" /\ its.age = 0 /\ its.reads = 0
        /\ its.lingers = FALSE /\ its.pointer = FALSE /\ its.timer = -1
    BY <1>3 DEF Thttpd!Freed, Thttpd!Fresh, Thttpd!NoTimer, Conns
  <2>2. its = [state |-> "free", age |-> 0, reads |-> 0, lingers |-> FALSE,
                timer |-> -1, pointer |-> FALSE]
    BY <1>3 DEF Thttpd!Freed, Thttpd!Fresh, Thttpd!NoTimer, Conns
  <2>3. its \in Conns
    BY <2>2 DEF Conns
  <2>4. QED
    BY <2>1, <2>3 DEF TimerFits
<1>5. /\ <<c>> \o s.free \in Seq(Thttpd!Slot)
      /\ FreeAre(<<c>> \o s.free, FreeSlots(s.conns) \cup {c})
  BY <1>3, FreeMore DEF FreeSlots
<1> HIDE DEF t, r, its
<1>6. /\ r \in Servers /\ r.free = <<c>> \o s.free /\ r.watch = t.watch
      /\ r.conns = [s.conns EXCEPT ![c] = its]
  BY <1>1, <1>2, <1>3, <1>4, <1>5 DEF Servers, its
<1>7. FreeSlots(r.conns) = FreeSlots(s.conns) \cup {c}
  BY <1>3, <1>4, <1>6 DEF FreeSlots
<1>8. WatchedSlots(r.conns) = WatchedSlots(s.conns) \ {c}
  BY <1>3, <1>4, <1>6 DEF WatchedSlots
<1>9. \A d \in Thttpd!Slot : TimerFits(r.conns[d])
  BY <1>3, <1>4, <1>6
<1>10. QED
  BY <1>1, <1>5, <1>6, <1>7, <1>8, <1>9 DEF Sound, r

LEMMA LingersOn ==
  ASSUME SlotParameters, NEW x \in Conns
  PROVE  /\ Thttpd!Lingering(x) \in Conns
         /\ Thttpd!Lingering(x).state = "lingering"
         /\ TimerFits(Thttpd!Lingering(x))
<1>1. Linger \in Nat /\ Linger # -1
  BY DEF SlotParameters
<1>2. Thttpd!Lingering(x) = [x EXCEPT !.state = "lingering", !.timer = Linger, !.pointer = TRUE]
  BY DEF Thttpd!Lingering
<1>3. Thttpd!Lingering(x) = [state |-> "lingering", age |-> x.age, reads |-> x.reads,
         lingers |-> x.lingers, timer |-> Linger, pointer |-> TRUE]
  BY <1>2 DEF Conns
<1>4. Thttpd!Lingering(x) \in Conns
  BY <1>1, <1>3 DEF Conns
<1>5. QED
  BY <1>1, <1>3, <1>4 DEF TimerFits

LEMMA ClearSound ==
  ASSUME SlotParameters, NEW s, Sound(s), NEW c \in Thttpd!Slot,
         s.conns[c].state # "free"
  PROVE  Sound(Thttpd!ClearConnection(s, c))
<1>1. /\ s \in Servers /\ s.conns \in [Thttpd!Slot -> Conns] /\ s.conns[c] \in Conns
      /\ TimerFits(s.conns[c])
  BY DEF Sound, Servers
<1>2. CASE s.conns[c].lingers /\ s.conns[c].state # "lingering"
  <2> DEFINE t == Thttpd!DelFd(s, c)
             w == Append(t.watch, [fd |-> c, revents |-> "stale"])
             r == Thttpd!ClearConnection(s, c)
             its == Thttpd!Lingering(s.conns[c])
  <2>1. /\ t \in Servers /\ t.free = s.free /\ t.conns = s.conns
        /\ WatchedAre(t.watch, WatchedSlots(s.conns) \ {c})
    BY <1>1, DelFdLess DEF Sound
  <2>2. t.watch \in Seq(Entries)
    BY <2>1 DEF Servers
  <2>3. /\ w \in Seq(Entries)
        /\ WatchedAre(w, (WatchedSlots(s.conns) \ {c}) \cup {c})
    BY <2>1, <2>2, WatchMore
  <2>4. r = [[t EXCEPT !.watch = w] EXCEPT !.conns[c] = Thttpd!Lingering(@)]
    BY <1>2, <2>1 DEF Thttpd!ClearConnection, Thttpd!AddFd
  <2>5. its \in Conns /\ its.state = "lingering" /\ TimerFits(its)
    BY <1>1, LingersOn
  <2> HIDE DEF t, w, r, its
  <2>6. /\ r \in Servers /\ r.free = s.free /\ r.watch = w
        /\ r.conns = [s.conns EXCEPT ![c] = its]
    BY <1>1, <2>1, <2>3, <2>4, <2>5 DEF Servers, its
  <2>7. FreeSlots(r.conns) = FreeSlots(s.conns)
    BY <1>1, <2>5, <2>6 DEF FreeSlots
  <2>8. WatchedSlots(r.conns) = (WatchedSlots(s.conns) \ {c}) \cup {c}
    BY <1>1, <2>5, <2>6 DEF WatchedSlots
  <2>9. \A d \in Thttpd!Slot : TimerFits(r.conns[d])
    BY <1>1, <2>5, <2>6 DEF Sound
  <2>10. QED
    BY <2>3, <2>6, <2>7, <2>8, <2>9 DEF Sound, r
<1>3. CASE ~ (s.conns[c].lingers /\ s.conns[c].state # "lingering")
  <2>1. Thttpd!ClearConnection(s, c) = Thttpd!ReallyClear(s, c)
    BY <1>3 DEF Thttpd!ClearConnection
  <2>2. s.conns[c].pointer \/ s.conns[c].timer = -1
    BY <1>1 DEF TimerFits
  <2>3. QED
    BY <1>1, <2>1, <2>2, ReallyClearSound DEF Sound
<1>4. QED
  BY <1>2, <1>3

(* What poll reports and what data does to a connection moves nothing.     *)
LEMMA SameLists ==
  ASSUME SlotParameters, NEW s, Sound(s), NEW r \in Servers, r.free = s.free,
         \A c \in Thttpd!Slot :
           /\ r.conns[c].state = s.conns[c].state
           /\ r.conns[c].pointer = s.conns[c].pointer
           /\ r.conns[c].timer # -1 <=> s.conns[c].timer # -1,
         Len(r.watch) = Len(s.watch),
         \A i \in 1 .. Len(s.watch) : r.watch[i].fd = s.watch[i].fd
  PROVE  Sound(r)
<1>1. FreeSlots(r.conns) = FreeSlots(s.conns)
  BY DEF FreeSlots
<1>2. WatchedSlots(r.conns) = WatchedSlots(s.conns)
  BY DEF WatchedSlots
<1>3. WatchedAre(r.watch, WatchedSlots(s.conns))
  BY DEF Sound, WatchedAre
<1>4. \A c \in Thttpd!Slot : TimerFits(r.conns[c])
  BY DEF Sound, TimerFits
<1>5. QED
  BY <1>1, <1>2, <1>3, <1>4 DEF Sound

LEMMA TickedFits ==
  ASSUME SlotParameters, NEW x \in Conns, NEW d \in Nat
  PROVE  /\ Thttpd!Ticked(x, d) \in Conns
         /\ Thttpd!Ticked(x, d).state = x.state
         /\ Thttpd!Ticked(x, d).pointer = x.pointer
         /\ Thttpd!Ticked(x, d).timer # -1 <=> x.timer # -1
<1> DEFINE age   == IF x.state = "reading" THEN Thttpd!Lesser(x.age + d, IdleLimit) ELSE 0
           timer == IF x.timer = -1 THEN x.timer ELSE Thttpd!Greater(x.timer - d, 0)
<1>1. age \in Int /\ timer \in Nat \cup {-1} /\ (timer # -1 <=> x.timer # -1)
  BY DEF SlotParameters, Conns, Thttpd!Lesser, Thttpd!Greater
<1>2. Thttpd!Ticked(x, d) = [x EXCEPT !.age = age, !.timer = timer]
  BY DEF Thttpd!Ticked, Thttpd!NoTimer, Conns
<1> HIDE DEF age, timer
<1>3. Thttpd!Ticked(x, d) = [state |-> x.state, age |-> age, reads |-> x.reads,
        lingers |-> x.lingers, timer |-> timer, pointer |-> x.pointer]
  BY <1>2 DEF Conns
<1>4. Thttpd!Ticked(x, d) \in Conns
  BY <1>1, <1>3 DEF Conns
<1>5. QED
  BY <1>1, <1>3, <1>4

LEMMA PollFits ==
  ASSUME SlotParameters, SlotsInv, NEW d \in 0 .. IdlePeriod, Thttpd!Poll(d)
  PROVE  SlotsInv'
<1>1. d \in Nat
  BY DEF SlotParameters
<1>2. /\ server \in Servers /\ server.conns \in [Thttpd!Slot -> Conns]
      /\ server.watch \in Seq(Entries) /\ DOMAIN server.watch = 1 .. Len(server.watch)
      /\ server.free \in Seq(Thttpd!Slot)
      /\ Len(server.watch) \in Nat
  BY DEF SlotsInv, Sound, Servers
<1> DEFINE cs == [c \in Thttpd!Slot |-> Thttpd!Ticked(server.conns[c], d)]
<1>3. PICK revents \in [DOMAIN server.watch -> {"none", "in", "err"}] :
        server' = [server EXCEPT !.conns = cs,
           !.watch = [i \in DOMAIN server.watch |->
                        [fd |-> server.watch[i].fd, revents |-> revents[i]]]]
  BY <1>2, ZenonT(60) DEF Thttpd!Poll
<1> DEFINE w == [i \in 1 .. Len(server.watch) |->
                   [fd |-> server.watch[i].fd, revents |-> revents[i]]]
<1>4. ASSUME NEW i \in 1 .. Len(server.watch)
      PROVE  [fd |-> server.watch[i].fd, revents |-> revents[i]] \in Entries
  <2>1. server.watch[i] \in Entries /\ revents[i] \in {"none", "in", "err"}
    BY <1>2
  <2>2. QED
    BY <2>1 DEF Entries
<1>5. w \in Seq(Entries) /\ Len(w) = Len(server.watch)
      /\ \A i \in 1 .. Len(server.watch) : w[i].fd = server.watch[i].fd
  BY <1>2, <1>4
<1>6. \A c \in Thttpd!Slot :
        /\ cs[c] \in Conns
        /\ cs[c].state = server.conns[c].state
        /\ cs[c].pointer = server.conns[c].pointer
        /\ cs[c].timer # -1 <=> server.conns[c].timer # -1
  <2> SUFFICES ASSUME NEW c \in Thttpd!Slot
        PROVE /\ cs[c] \in Conns
              /\ cs[c].state = server.conns[c].state
              /\ cs[c].pointer = server.conns[c].pointer
              /\ cs[c].timer # -1 <=> server.conns[c].timer # -1
    OBVIOUS
  <2>1. server.conns[c] \in Conns
    BY <1>2
  <2>2. QED
    BY <1>1, <2>1, TickedFits
<1>7. cs \in [Thttpd!Slot -> Conns]
  BY <1>6
<1>8. server' = [server EXCEPT !.conns = cs, !.watch = w]
  BY <1>2, <1>3
<1> HIDE DEF cs, w
<1>9. server' \in Servers /\ server'.free = server.free /\ server'.conns = cs /\ server'.watch = w
  BY <1>2, <1>5, <1>7, <1>8 DEF Servers
<1>10. Sound(server')
  BY <1>5, <1>6, <1>9, SameLists DEF SlotsInv
<1>11. UNCHANGED <<scan, current, after>> /\ stage = "poll" /\ stage' \in {"timers", "accept", "next"}
  BY DEF Thttpd!Poll
<1>12. QED
  BY <1>10, <1>11 DEF SlotsInv, ServedFits

LEMMA ChangeConn ==
  ASSUME SlotParameters, NEW s, Sound(s), NEW c \in Thttpd!Slot, NEW x \in Conns,
         x.state = s.conns[c].state, x.pointer = s.conns[c].pointer,
         x.timer = s.conns[c].timer
  PROVE  /\ Sound([s EXCEPT !.conns[c] = x])
         /\ [s EXCEPT !.conns[c] = x].conns = [s.conns EXCEPT ![c] = x]
<1> DEFINE r == [s EXCEPT !.conns[c] = x]
<1>1. s \in Servers /\ s.conns \in [Thttpd!Slot -> Conns]
  BY DEF Sound, Servers
<1>2. /\ r \in Servers /\ r.free = s.free /\ r.watch = s.watch
      /\ r.conns = [s.conns EXCEPT ![c] = x]
  BY <1>1 DEF Servers
<1> HIDE DEF r
<1>3. \A d \in Thttpd!Slot :
        /\ r.conns[d].state = s.conns[d].state
        /\ r.conns[d].pointer = s.conns[d].pointer
        /\ r.conns[d].timer # -1 <=> s.conns[d].timer # -1
  BY <1>1, <1>2
<1>4. Sound(r)
  BY <1>2, <1>3, SameLists
<1>5. QED
  BY <1>2, <1>4 DEF r

LEMMA UnpolledSound ==
  ASSUME SlotParameters, Sound(server)
  PROVE  Sound(Thttpd!Unpolled) /\ Thttpd!Unpolled.conns = server.conns
<1> DEFINE w == [i \in 1 .. Len(server.watch) |->
                   [fd |-> server.watch[i].fd, revents |-> "none"]]
           r == Thttpd!Unpolled
<1>1. /\ server \in Servers /\ server.watch \in Seq(Entries)
      /\ DOMAIN server.watch = 1 .. Len(server.watch) /\ Len(server.watch) \in Nat
  BY DEF Sound, Servers
<1>2. ASSUME NEW i \in 1 .. Len(server.watch)
      PROVE  [fd |-> server.watch[i].fd, revents |-> "none"] \in Entries
  <2>1. server.watch[i] \in Entries
    BY <1>1
  <2>2. QED
    BY <2>1 DEF Entries
<1>3. w \in Seq(Entries) /\ Len(w) = Len(server.watch)
      /\ \A i \in 1 .. Len(server.watch) : w[i].fd = server.watch[i].fd
  BY <1>1, <1>2
<1>4. r = [server EXCEPT !.watch = w]
  BY <1>1 DEF Thttpd!Unpolled
<1> HIDE DEF w, r
<1>5. r \in Servers /\ r.free = server.free /\ r.conns = server.conns /\ r.watch = w
  BY <1>1, <1>3, <1>4 DEF Servers
<1>6. Sound(r)
  BY <1>3, <1>5, SameLists
<1>7. QED
  BY <1>5, <1>6 DEF r

(* A slot that is taken from the free list.                                *)
LEMMA FreeLess ==
  ASSUME SlotParameters, NEW f \in Seq(Thttpd!Slot), NEW S, FreeAre(f, S), f # <<>>
  PROVE  /\ Tail(f) \in Seq(Thttpd!Slot) /\ Head(f) \in S
         /\ FreeAre(Tail(f), S \ {Head(f)})
<1> DEFINE t == Tail(f)
<1>1. /\ t \in Seq(Thttpd!Slot) /\ Len(f) \in Nat \ {0} /\ Len(t) = Len(f) - 1
      /\ Head(f) = f[1]
      /\ \A j \in 1 .. Len(f) - 1 : t[j] = f[j + 1]
  OBVIOUS
<1> HIDE DEF t
<1>2. \A j \in 1 .. Len(t) : j + 1 \in 1 .. Len(f) /\ t[j] = f[j + 1] /\ j + 1 # 1
  BY <1>1
<1>3. 1 \in 1 .. Len(f)
  BY <1>1
<1>4. \A j \in 1 .. Len(t) : t[j] \in S \ {f[1]}
  BY <1>2, <1>3 DEF FreeAre
<1>5. \A j, k \in 1 .. Len(t) : t[j] = t[k] => j = k
  <2> TAKE j, k \in 1 .. Len(t)
  <2>1. /\ j + 1 \in 1 .. Len(f) /\ t[j] = f[j + 1]
        /\ k + 1 \in 1 .. Len(f) /\ t[k] = f[k + 1]
    BY <1>2
  <2>2. t[j] = t[k] => j + 1 = k + 1
    BY <2>1 DEF FreeAre
  <2>3. QED
    BY <2>2
<1>6. ASSUME NEW c \in S \ {f[1]} PROVE \E j \in 1 .. Len(t) : t[j] = c
  <2>1. PICK k \in 1 .. Len(f) : f[k] = c
    BY DEF FreeAre
  <2>2. k - 1 \in 1 .. Len(t) /\ t[k - 1] = c
    BY <1>1, <2>1
  <2>3. QED
    BY <2>2
<1>7. QED
  BY <1>1, <1>3, <1>4, <1>5, <1>6 DEF FreeAre, t

LEMMA AcceptedFits ==
  ASSUME SlotParameters, SlotsInv, Thttpd!Accepted
  PROVE  SlotsInv'
<1> DEFINE c == Head(server.free)
           x == Thttpd!Begun(server.conns[c].timer)
           w == Append(server.watch, [fd |-> c, revents |-> "stale"])
<1>1. /\ server \in Servers /\ server.conns \in [Thttpd!Slot -> Conns]
      /\ server.watch \in Seq(Entries) /\ server.free \in Seq(Thttpd!Slot)
  BY DEF SlotsInv, Sound, Servers
<1>2. /\ Tail(server.free) \in Seq(Thttpd!Slot)
      /\ c \in FreeSlots(server.conns)
      /\ FreeAre(Tail(server.free), FreeSlots(server.conns) \ {c})
  BY <1>1, FreeLess DEF SlotsInv, Sound, Thttpd!Accepted
<1>3. c \in Thttpd!Slot /\ server.conns[c].state = "free" /\ c \notin WatchedSlots(server.conns)
  BY <1>2 DEF FreeSlots, WatchedSlots
<1>4. w \in Seq(Entries) /\ WatchedAre(w, WatchedSlots(server.conns) \cup {c})
  BY <1>1, <1>3, WatchMore DEF SlotsInv, Sound
<1>5. server' = [[server EXCEPT !.free = Tail(server.free), !.conns[c] = x]
                   EXCEPT !.watch = w]
  BY <1>1, <1>3 DEF Thttpd!Accepted, Thttpd!AddFd, Servers
<1>6. x \in Conns /\ x.state = "reading" /\ TimerFits(x)
  <2>1. server.conns[c].timer = -1
    BY <1>3 DEF SlotsInv, Sound, TimerFits
  <2>2. ASSUME NEW t, NEW y, y = Thttpd!Begun(t)
        PROVE  y = [state |-> "reading", age |-> 0, reads |-> 0, lingers |-> FALSE,
                    timer |-> t, pointer |-> FALSE]
    BY <2>2 DEF Thttpd!Begun, Thttpd!Fresh, Thttpd!NoTimer
  <2>3. x = [state |-> "reading", age |-> 0, reads |-> 0, lingers |-> FALSE,
             timer |-> -1, pointer |-> FALSE]
    BY <2>1, <2>2
  <2> HIDE DEF x
  <2>4. x \in Conns
    BY <2>3 DEF Conns
  <2>5. QED
    BY <2>3, <2>4 DEF TimerFits
<1> HIDE DEF c, x, w
<1>7. /\ server' \in Servers /\ server'.free = Tail(server.free) /\ server'.watch = w
      /\ server'.conns = [server.conns EXCEPT ![c] = x]
  BY <1>1, <1>2, <1>3, <1>4, <1>5, <1>6 DEF Servers
<1>8. FreeSlots(server'.conns) = FreeSlots(server.conns) \ {c}
  BY <1>1, <1>3, <1>6, <1>7 DEF FreeSlots
<1>9. WatchedSlots(server'.conns) = WatchedSlots(server.conns) \cup {c}
  BY <1>1, <1>3, <1>6, <1>7 DEF WatchedSlots
<1>10. \A d \in Thttpd!Slot : TimerFits(server'.conns[d])
  BY <1>1, <1>6, <1>7 DEF SlotsInv, Sound
<1>11. Sound(server')
  BY <1>2, <1>4, <1>7, <1>8, <1>9, <1>10 DEF Sound
<1>12. UNCHANGED <<stage, scan, current, after>> /\ stage = "accept"
  BY DEF Thttpd!Accepted
<1>13. QED
  BY <1>11, <1>12 DEF SlotsInv, ServedFits

LEMMA ServeNextFits ==
  ASSUME SlotParameters, SlotsInv, Thttpd!ServeNext
  PROVE  SlotsInv'
<1>1. /\ stage = "next" /\ scan \in 1 .. Len(server.watch) /\ scan' = scan + 1
      /\ UNCHANGED <<after, server>>
  BY DEF Thttpd!ServeNext, SlotsInv, ServedFits, Sound, Servers
<1> DEFINE fd == server.watch[scan].fd
<1>2. CASE fd # 0 /\ current' = fd /\ stage' = server.conns[fd].state
  <2>1. fd \in WatchedSlots(server.conns)
    BY <1>1, <1>2 DEF SlotsInv, Sound, WatchedAre
  <2>2. fd \in Thttpd!Slot /\ stage' \in {"reading", "lingering"}
    BY <1>2, <2>1 DEF WatchedSlots
  <2>3. QED
    BY <1>1, <1>2, <2>2 DEF SlotsInv, ServedFits
<1>3. CASE UNCHANGED <<stage, current>>
  BY <1>1, <1>3 DEF SlotsInv, ServedFits
<1>4. QED
  BY <1>2, <1>3 DEF Thttpd!ServeNext, Thttpd!Listener

(* A handler that leaves the server's lists in order.                      *)
LEMMA DoneFits ==
  ASSUME ServedFits, NEW s, Sound(s), Thttpd!Done(s), 1 \in Thttpd!Slot
  PROVE  SlotsInv'
BY DEF SlotsInv, ServedFits, Thttpd!Done

LEMMA FirstSlot == ASSUME SlotParameters PROVE 1 \in Thttpd!Slot
BY DEF SlotParameters, Thttpd!Slot

LEMMA ReadsConn ==
  ASSUME NEW k \in Conns, NEW n \in Nat, NEW y, y = [k EXCEPT !.age = 0, !.reads = n]
  PROVE  /\ y \in Conns
         /\ y.state = k.state /\ y.pointer = k.pointer /\ y.timer = k.timer
<1>1. y = [state |-> k.state, age |-> 0, reads |-> n, lingers |-> k.lingers,
           timer |-> k.timer, pointer |-> k.pointer]
  BY DEF Conns
<1>2. /\ k.state \in {"free", "reading", "sending", "lingering"} /\ k.lingers \in BOOLEAN
      /\ k.timer \in Nat \cup {-1} /\ k.pointer \in BOOLEAN /\ 0 \in Int /\ n \in Nat
  BY DEF Conns
<1>3. QED
  BY <1>1, <1>2 DEF Conns

(* What a read leaves: a connection that has its data, and may linger.     *)
LEMMA WithDataSound ==
  ASSUME SlotParameters, SlotsInv, NEW lingers \in BOOLEAN
  PROVE  /\ Sound(Thttpd!WithData)
         /\ Thttpd!WithData.conns[current].state = server.conns[current].state
         /\ Sound(Thttpd!WithRequest(lingers))
         /\ Thttpd!WithRequest(lingers).conns[current].state = server.conns[current].state
<1> DEFINE old == server.conns[current]
           x == [old EXCEPT !.age = 0, !.reads = @ + 1]
           y == [x EXCEPT !.lingers = lingers]
           s == Thttpd!WithData
           r == Thttpd!WithRequest(lingers)
<1>1. /\ current \in Thttpd!Slot /\ Sound(server)
      /\ server \in Servers /\ server.conns \in [Thttpd!Slot -> Conns] /\ old \in Conns
  BY DEF SlotsInv, ServedFits, Sound, Servers
<1>2. s = [server EXCEPT !.conns[current] = x]
  BY <1>1 DEF Thttpd!WithData, Servers
<1> HIDE DEF old
<1>4. /\ x \in Conns /\ x.state = old.state /\ x.pointer = old.pointer
      /\ x.timer = old.timer
  <2>1. old.reads + 1 \in Nat
    BY <1>1 DEF Conns
  <2>2. QED
    BY ZenonT(60), <1>1, <2>1, ReadsConn
<1> HIDE DEF x
<1>5. ASSUME NEW k \in Conns
      PROVE  /\ [k EXCEPT !.lingers = lingers] \in Conns
             /\ [k EXCEPT !.lingers = lingers].state = k.state
             /\ [k EXCEPT !.lingers = lingers].pointer = k.pointer
             /\ [k EXCEPT !.lingers = lingers].timer = k.timer
  BY DEF Conns
<1>6. /\ y \in Conns /\ y.state = old.state /\ y.pointer = old.pointer
      /\ y.timer = old.timer
  BY <1>4, <1>5
<1> HIDE DEF y, s, r
<1>7. Sound(s) /\ s.conns = [server.conns EXCEPT ![current] = x]
  BY <1>1, <1>2, <1>4, ChangeConn DEF old
<1>8. s \in Servers /\ s.conns \in [Thttpd!Slot -> Conns] /\ s.conns[current] = x
  BY <1>1, <1>4, <1>7 DEF Sound
<1>9. r = [s EXCEPT !.conns[current] = y]
  <2>1. r = [s EXCEPT !.conns[current].lingers = lingers]
    BY DEF Thttpd!WithRequest, r, s
  <2>2. QED
    BY <1>1, <1>8, <2>1 DEF Servers, y
<1>10. Sound(r) /\ r.conns = [s.conns EXCEPT ![current] = y]
  BY <1>1, <1>4, <1>6, <1>7, <1>8, <1>9, ChangeConn
<1>11. r.conns[current] = y
  BY <1>1, <1>8, <1>10
<1>12. QED
  BY <1>4, <1>6, <1>7, <1>8, <1>10, <1>11 DEF old, r, s

LEMMA ReadFits ==
  ASSUME SlotParameters, SlotsInv,
         \/ Thttpd!ReadNothing \/ Thttpd!ReadMore \/ Thttpd!ReadFails
         \/ Thttpd!RequestAnswered
  PROVE  SlotsInv'
<1>1. /\ stage = "reading" /\ server.conns[current].state = "reading"
      /\ current \in Thttpd!Slot /\ Sound(server) /\ ServedFits /\ 1 \in Thttpd!Slot
  BY FirstSlot DEF SlotsInv, ServedFits, Thttpd!ReadNothing, Thttpd!ReadMore,
        Thttpd!ReadFails, Thttpd!RequestAnswered
<1>2. PICK s : Thttpd!Done(s) /\ Sound(s)
  <2>1. CASE Thttpd!ReadNothing
    BY <1>1, <2>1 DEF Thttpd!ReadNothing
  <2>2. CASE Thttpd!ReadMore
    BY <2>2, WithDataSound DEF Thttpd!ReadMore
  <2>3. CASE Thttpd!ReadFails
    BY <1>1, <2>3, ClearSound DEF Thttpd!ReadFails
  <2>4. CASE Thttpd!RequestAnswered
    <3>1. PICK lingers \in BOOLEAN :
            Thttpd!Done(Thttpd!ClearConnection(Thttpd!WithRequest(lingers), current))
      BY <2>4 DEF Thttpd!RequestAnswered
    <3>2. /\ Sound(Thttpd!WithRequest(lingers))
          /\ Thttpd!WithRequest(lingers).conns[current].state = "reading"
      BY <1>1, WithDataSound
    <3>3. Sound(Thttpd!ClearConnection(Thttpd!WithRequest(lingers), current))
      BY <1>1, <3>2, ClearSound
    <3>4. QED
      BY <3>1, <3>3
  <2>5. QED
    BY <2>1, <2>2, <2>3, <2>4
<1>3. QED
  BY <1>1, <1>2, DoneFits

(* A connection that is answered with a file is not watched meanwhile.     *)
LEMMA RequestFileFits ==
  ASSUME SlotParameters, SlotsInv, Thttpd!RequestFile
  PROVE  SlotsInv'
<1>1. PICK lingers \in BOOLEAN :
        server' = [Thttpd!DelFd(Thttpd!WithRequest(lingers), current) EXCEPT
                     !.conns[current].state = "sending"]
  BY DEF Thttpd!RequestFile
<1>2. /\ stage = "reading" /\ stage' = "sending" /\ UNCHANGED <<after, scan, current>>
  BY DEF Thttpd!RequestFile
<1>3. /\ server.conns[current].state = "reading" /\ current \in Thttpd!Slot
  BY <1>2 DEF SlotsInv, ServedFits
<1> DEFINE s == Thttpd!WithRequest(lingers)
           t == Thttpd!DelFd(s, current)
           old == s.conns[current]
           x == [old EXCEPT !.state = "sending"]
<1>4. Sound(s) /\ old.state = "reading"
  BY <1>3, WithDataSound
<1> HIDE DEF s
<1>5. /\ s \in Servers /\ s.conns \in [Thttpd!Slot -> Conns] /\ old \in Conns
      /\ TimerFits(old)
  BY <1>3, <1>4 DEF Sound, Servers
<1>6. /\ t \in Servers /\ t.free = s.free /\ t.conns = s.conns
      /\ WatchedAre(t.watch, WatchedSlots(s.conns) \ {current})
  BY <1>3, <1>4, <1>5, DelFdLess DEF Sound
<1> HIDE DEF t
<1>7. x = [state |-> "sending", age |-> old.age, reads |-> old.reads,
           lingers |-> old.lingers, timer |-> old.timer, pointer |-> old.pointer]
  BY <1>5 DEF Conns
<1>8. x \in Conns /\ x.state = "sending" /\ TimerFits(x)
  BY <1>4, <1>5, <1>7 DEF Conns, TimerFits
<1>9. server' = [t EXCEPT !.conns[current] = x]
  BY <1>1, <1>3, <1>5, <1>6 DEF Servers, s, t
<1> HIDE DEF old, x
<1>10. /\ server' \in Servers /\ server'.free = s.free /\ server'.watch = t.watch
       /\ server'.conns = [s.conns EXCEPT ![current] = x]
  BY <1>3, <1>5, <1>6, <1>8, <1>9 DEF Servers
<1>11. FreeSlots(server'.conns) = FreeSlots(s.conns)
  BY <1>3, <1>4, <1>5, <1>8, <1>10 DEF FreeSlots, old
<1>12. WatchedSlots(server'.conns) = WatchedSlots(s.conns) \ {current}
  BY <1>3, <1>4, <1>5, <1>8, <1>10 DEF WatchedSlots, old
<1>13. \A d \in Thttpd!Slot : TimerFits(server'.conns[d])
  BY <1>3, <1>4, <1>5, <1>8, <1>10 DEF Sound
<1>14. Sound(server')
  BY <1>4, <1>6, <1>10, <1>11, <1>12, <1>13 DEF Sound
<1>15. server'.conns[current].state = "sending"
  BY <1>3, <1>5, <1>8, <1>10
<1>16. QED
  BY <1>2, <1>3, <1>14, <1>15 DEF SlotsInv, ServedFits

LEMMA SendFits ==
  ASSUME SlotParameters, SlotsInv,
         Thttpd!SendBuffer \/ Thttpd!SendFails \/ Thttpd!SendComplete
  PROVE  SlotsInv'
<1>1. /\ stage = "sending" /\ server.conns[current].state = "sending"
      /\ current \in Thttpd!Slot /\ Sound(server) /\ ServedFits /\ 1 \in Thttpd!Slot
  BY FirstSlot DEF SlotsInv, ServedFits, Thttpd!SendBuffer, Thttpd!SendFails,
        Thttpd!SendComplete
<1>2. CASE Thttpd!SendFails \/ Thttpd!SendComplete
  <2>1. /\ Thttpd!Done(Thttpd!ClearConnection(server, current))
        /\ Sound(Thttpd!ClearConnection(server, current))
    BY <1>1, <1>2, ClearSound DEF Thttpd!SendFails, Thttpd!SendComplete
  <2>2. QED
    BY <1>1, <2>1, DoneFits
<1>3. CASE Thttpd!SendBuffer
  <2> DEFINE old == server.conns[current]
             x == [old EXCEPT !.age = 0]
  <2>1. /\ server \in Servers /\ server.conns \in [Thttpd!Slot -> Conns] /\ old \in Conns
    BY <1>1 DEF Sound, Servers
  <2>2. server' = [server EXCEPT !.conns[current] = x]
    BY <1>1, <1>3, <2>1 DEF Thttpd!SendBuffer, Servers
  <2>3. x = [state |-> old.state, age |-> 0, reads |-> old.reads,
             lingers |-> old.lingers, timer |-> old.timer, pointer |-> old.pointer]
    BY <2>1 DEF Conns
  <2> HIDE DEF old, x
  <2>4. /\ x \in Conns /\ x.state = old.state /\ x.pointer = old.pointer
        /\ x.timer = old.timer
    BY <2>1, <2>3 DEF Conns
  <2>5. Sound(server') /\ server'.conns = [server.conns EXCEPT ![current] = x]
    BY <1>1, <2>2, <2>4, ChangeConn DEF old
  <2>6. server'.conns[current].state = "sending"
    BY <1>1, <2>1, <2>4, <2>5 DEF old
  <2>7. UNCHANGED <<stage, after, scan, current>>
    BY <1>3 DEF Thttpd!SendBuffer
  <2>8. QED
    BY <1>1, <2>5, <2>6, <2>7 DEF SlotsInv, ServedFits
<1>4. QED
  BY <1>2, <1>3

LEMMA LingerFits ==
  ASSUME SlotParameters, SlotsInv, Thttpd!LingerEnds \/ Thttpd!LingerOn
  PROVE  SlotsInv'
<1>1. /\ stage = "lingering" /\ server.conns[current].state = "lingering"
      /\ current \in Thttpd!Slot /\ Sound(server) /\ ServedFits /\ 1 \in Thttpd!Slot
  BY FirstSlot DEF SlotsInv, ServedFits, Thttpd!LingerEnds, Thttpd!LingerOn
<1>2. server.conns[current].pointer
  BY <1>1 DEF Sound, TimerFits
<1>3. Sound(Thttpd!ReallyClear(server, current))
  BY <1>1, <1>2, ReallyClearSound DEF Sound
<1>4. QED
  BY <1>1, <1>3, DoneFits DEF Thttpd!LingerEnds, Thttpd!LingerOn

(* The timer of a connection that lingers is forgotten before the          *)
(* connection is cleared.                                                  *)
LEMMA LingerExpiresFits ==
  ASSUME SlotParameters, SlotsInv, NEW c \in Thttpd!Slot, Thttpd!LingerExpires(c)
  PROVE  SlotsInv'
<1> DEFINE old == server.conns[c]
           x == [old EXCEPT !.timer = -1, !.pointer = FALSE]
           s == [server EXCEPT !.conns[c] = x]
<1>1. /\ server \in Servers /\ server.conns \in [Thttpd!Slot -> Conns] /\ old \in Conns
      /\ Sound(server)
  BY DEF SlotsInv, Sound, Servers
<1>2. old.state = "lingering"
  <2>1. old.timer = 0
    BY DEF Thttpd!LingerExpires
  <2>2. QED
    BY <1>1, <2>1 DEF Sound, TimerFits
<1>3. server' = Thttpd!ReallyClear(s, c)
  <2>1. s = [server EXCEPT !.conns[c].timer = Thttpd!NoTimer, !.conns[c].pointer = FALSE]
    BY <1>1 DEF Thttpd!NoTimer, Servers, Conns
  <2>2. QED
    BY <2>1 DEF Thttpd!LingerExpires
<1>4. ASSUME NEW k \in Conns
      PROVE  /\ [k EXCEPT !.timer = -1, !.pointer = FALSE] \in Conns
             /\ [k EXCEPT !.timer = -1, !.pointer = FALSE].state = k.state
             /\ [k EXCEPT !.timer = -1, !.pointer = FALSE].timer = -1
  BY DEF Conns
<1>5. x \in Conns /\ x.state = old.state /\ x.timer = -1
  BY <1>1, <1>4, ZenonT(60)
<1> HIDE DEF old, x
<1>6. /\ s \in Servers /\ s.free = server.free /\ s.watch = server.watch
      /\ s.conns = [server.conns EXCEPT ![c] = x]
  BY <1>1, <1>5 DEF Servers
<1> HIDE DEF s
<1>7. /\ s.conns[c] = x /\ \A d \in Thttpd!Slot \ {c} : s.conns[d] = server.conns[d]
  BY <1>1, <1>6
<1>8. FreeSlots(s.conns) = FreeSlots(server.conns)
  BY <1>5, <1>7 DEF FreeSlots, old
<1>9. WatchedSlots(s.conns) = WatchedSlots(server.conns)
  BY <1>5, <1>7 DEF WatchedSlots, old
<1>10. \A d \in Thttpd!Slot \ {c} : TimerFits(s.conns[d])
  BY <1>1, <1>7 DEF Sound
<1>11. Sound(Thttpd!ReallyClear(s, c))
  <2>1. s.conns[c].state # "free" /\ s.conns[c].timer = -1
    BY <1>2, <1>5, <1>7
  <2>2. /\ FreeAre(s.free, FreeSlots(s.conns))
        /\ WatchedAre(s.watch, WatchedSlots(s.conns))
    BY <1>1, <1>6, <1>8, <1>9 DEF Sound
  <2>3. QED
    BY <1>6, <1>10, <2>1, <2>2, ReallyClearSound
<1>12. stage = "timers" /\ UNCHANGED <<stage, scan, current, after>>
  BY DEF Thttpd!LingerExpires
<1>13. QED
  BY <1>3, <1>11, <1>12 DEF SlotsInv, ServedFits

LEMMA IdleFits ==
  ASSUME SlotParameters, SlotsInv, Thttpd!IdleBegins \/ Thttpd!Idle
  PROVE  SlotsInv'
<1>1. CASE Thttpd!IdleBegins
  BY <1>1 DEF Thttpd!IdleBegins, SlotsInv, ServedFits
<1>2. CASE Thttpd!Idle
  <2>1. current \in Thttpd!Slot /\ Sound(server)
    BY DEF SlotsInv, ServedFits
  <2>2. Sound(Thttpd!ClearIdle(server, current))
    BY <2>1, ClearSound DEF Thttpd!ClearIdle, Thttpd!Expired
  <2>3. Sound(server') /\ UNCHANGED <<after, scan>> /\ stage = "idle"
    BY <1>2, <2>2 DEF Thttpd!Idle
  <2>4. CASE current < NumSlots
    <3>1. current + 1 \in Thttpd!Slot
      BY <2>1, <2>4 DEF SlotParameters, Thttpd!Slot
    <3>2. QED
      BY <1>2, <2>3, <2>4, <3>1 DEF Thttpd!Idle, SlotsInv, ServedFits
  <2>5. CASE ~ (current < NumSlots)
    BY <1>2, <2>3, <2>5, FirstSlot DEF Thttpd!Idle, SlotsInv, ServedFits
  <2>6. QED
    BY <2>4, <2>5
<1>3. QED
  BY <1>1, <1>2

LEMMA RoundFits ==
  ASSUME SlotParameters, SlotsInv,
         \/ Thttpd!NoMoreConnections \/ Thttpd!NotAccepted
         \/ Thttpd!EndOfRound \/ Thttpd!TimersDone
  PROVE  SlotsInv'
<1>1. Sound(server) /\ Sound(Thttpd!Unpolled)
  BY UnpolledSound DEF SlotsInv
<1>2. CASE Thttpd!NoMoreConnections
  BY <1>1, <1>2 DEF Thttpd!NoMoreConnections, SlotsInv, ServedFits
<1>3. CASE Thttpd!NotAccepted
  BY <1>1, <1>3 DEF Thttpd!NotAccepted, SlotsInv, ServedFits
<1>4. CASE Thttpd!EndOfRound
  BY <1>1, <1>4 DEF Thttpd!EndOfRound, SlotsInv, ServedFits
<1>5. CASE Thttpd!TimersDone
  BY <1>1, <1>5 DEF Thttpd!TimersDone, SlotsInv, ServedFits
<1>6. QED
  BY <1>2, <1>3, <1>4, <1>5

LEMMA SlotsStart == ASSUME SlotParameters, Thttpd!ThttpdInit PROVE SlotsInv
<1>1. Thttpd!Fresh \in Conns /\ Thttpd!Fresh.state = "free" /\ TimerFits(Thttpd!Fresh)
  BY DEF Thttpd!Fresh, Thttpd!NoTimer, Conns, TimerFits
<1>2. /\ server.free = [i \in 1 .. NumSlots |-> i]
      /\ server.conns = [c \in Thttpd!Slot |-> Thttpd!Fresh]
      /\ server.watch = << [fd |-> 0, revents |-> "none"] >>
  BY DEF Thttpd!ThttpdInit, Thttpd!Slot, Thttpd!Listener
<1>3. /\ server.free \in Seq(Thttpd!Slot) /\ Len(server.free) = NumSlots
  BY <1>2 DEF SlotParameters, Thttpd!Slot
<1>4. server \in Servers
  <2>1. [fd |-> 0, revents |-> "none"] \in Entries
    BY DEF Entries
  <2>2. server.watch \in Seq(Entries)
    BY <1>2, <2>1
  <2>3. server.conns \in [Thttpd!Slot -> Conns]
    BY <1>1, <1>2
  <2>4. server = [free |-> server.free, conns |-> server.conns, watch |-> server.watch]
    BY DEF Thttpd!ThttpdInit
  <2>5. QED
    BY <1>3, <2>2, <2>3, <2>4 DEF Servers
<1>5. FreeSlots(server.conns) = Thttpd!Slot /\ WatchedSlots(server.conns) = {}
  BY <1>1, <1>2 DEF FreeSlots, WatchedSlots
<1>6. FreeAre(server.free, Thttpd!Slot)
  BY <1>2, <1>3 DEF FreeAre, Thttpd!Slot, SlotParameters
<1>7. WatchedAre(server.watch, {})
  BY <1>2 DEF WatchedAre
<1>8. Sound(server)
  BY <1>1, <1>2, <1>4, <1>5, <1>6, <1>7 DEF Sound
<1>9. QED
  BY <1>8, FirstSlot DEF SlotsInv, ServedFits, Thttpd!ThttpdInit

LEMMA SameCardinality == \A S : Thttpd!Cardinality(S) = Cardinality(S)
BY Zenon DEF Thttpd!Cardinality, Cardinality

LEMMA SlotsCount ==
  ASSUME SlotParameters, SlotsInv
  PROVE  SlotsAccounted
<1> SUFFICES ASSUME NEW c \in Thttpd!Slot
    PROVE  LET its == server.conns[c] IN
      /\ Thttpd!Times(c, server.free) = (IF its.state = "free" THEN 1 ELSE 0)
      /\ Thttpd!Cardinality({i \in DOMAIN server.watch : server.watch[i].fd = c})
           = (IF its.state \in {"reading", "lingering"} THEN 1 ELSE 0)
      /\ (its.timer # Thttpd!NoTimer) = (its.state = "lingering")
      /\ its.pointer = (its.state = "lingering")
  BY DEF SlotsAccounted, Thttpd!SlotsAccounted
<1> DEFINE its == server.conns[c]
           F == {i \in DOMAIN server.free : server.free[i] = c}
           W == {i \in DOMAIN server.watch : server.watch[i].fd = c}
<1>1. /\ Sound(server) /\ its \in Conns
      /\ DOMAIN server.free = 1 .. Len(server.free)
      /\ DOMAIN server.watch = 1 .. Len(server.watch)
  BY DEF SlotsInv, Sound, Servers
<1>2. Cardinality({}) = 0 /\ \A x : Cardinality({x}) = 1
  BY FS_EmptySet, FS_Singleton
<1>3. /\ Thttpd!Times(c, server.free) = Cardinality(F)
      /\ Thttpd!Cardinality(W) = Cardinality(W)
  BY SameCardinality DEF Thttpd!Times
<1>4. Cardinality(F) = (IF its.state = "free" THEN 1 ELSE 0)
  <2>1. CASE its.state = "free"
    <3>1. PICK i \in 1 .. Len(server.free) : server.free[i] = c
      BY <1>1, <2>1 DEF Sound, FreeAre, FreeSlots
    <3>2. F = {i}
      BY <1>1, <3>1 DEF Sound, FreeAre
    <3>3. QED
      BY <1>2, <2>1, <3>2
  <2>2. CASE its.state # "free"
    <3>1. F = {}
      BY <1>1, <2>2 DEF Sound, FreeAre, FreeSlots
    <3>2. QED
      BY <1>2, <2>2, <3>1
  <2>3. QED
    BY <2>1, <2>2
<1>5. Cardinality(W) = (IF its.state \in {"reading", "lingering"} THEN 1 ELSE 0)
  <2>0. c # 0
    BY DEF Thttpd!Slot, SlotParameters
  <2>1. CASE its.state \in {"reading", "lingering"}
    <3>1. PICK i \in 1 .. Len(server.watch) : server.watch[i].fd = c
      BY <1>1, <2>1 DEF Sound, WatchedAre, WatchedSlots
    <3>2. W = {i}
      BY <1>1, <3>1 DEF Sound, WatchedAre
    <3>3. QED
      BY <1>2, <2>1, <3>2
  <2>2. CASE its.state \notin {"reading", "lingering"}
    <3>1. W = {}
      BY <1>1, <2>0, <2>2 DEF Sound, WatchedAre, WatchedSlots
    <3>2. QED
      BY <1>2, <2>2, <3>1
  <2>3. QED
    BY <2>1, <2>2
<1>6. /\ (its.timer # Thttpd!NoTimer) = (its.state = "lingering")
      /\ its.pointer = (its.state = "lingering")
  <2>1. TimerFits(its) /\ its.pointer \in BOOLEAN
    BY <1>1 DEF Sound, Conns
  <2>2. QED
    BY <2>1 DEF TimerFits, Thttpd!NoTimer
<1>7. QED
  BY <1>3, <1>4, <1>5, <1>6

THEOREM SlotsStayAccounted ==
  ASSUME SlotParameters
  PROVE  ThttpdSpec => []SlotsAccounted
<1>1. SlotsInv /\ [Thttpd!ThttpdMain]_(Thttpd!thttpdVars) => SlotsInv'
  <2> SUFFICES ASSUME SlotsInv, [Thttpd!ThttpdMain]_(Thttpd!thttpdVars)
               PROVE  SlotsInv'
    OBVIOUS
  <2>1. CASE \E d \in 0 .. IdlePeriod : Thttpd!Poll(d)
    BY <2>1, PollFits
  <2>2. CASE \/ Thttpd!NoMoreConnections \/ Thttpd!NotAccepted
             \/ Thttpd!EndOfRound \/ Thttpd!TimersDone
    BY <2>2, RoundFits
  <2>3. CASE Thttpd!Accepted
    BY <2>3, AcceptedFits
  <2>4. CASE Thttpd!ServeNext
    BY <2>4, ServeNextFits
  <2>5. CASE \/ Thttpd!ReadNothing \/ Thttpd!ReadMore \/ Thttpd!ReadFails
             \/ Thttpd!RequestAnswered
    BY <2>5, ReadFits
  <2>6. CASE Thttpd!RequestFile
    BY <2>6, RequestFileFits
  <2>7. CASE Thttpd!SendBuffer \/ Thttpd!SendFails \/ Thttpd!SendComplete
    BY <2>7, SendFits
  <2>8. CASE Thttpd!LingerEnds \/ Thttpd!LingerOn
    BY <2>8, LingerFits
  <2>9. CASE \E c \in Thttpd!Slot : Thttpd!LingerExpires(c)
    BY <2>9, LingerExpiresFits
  <2>10. CASE Thttpd!IdleBegins \/ Thttpd!Idle
    BY <2>10, IdleFits
  <2>11. CASE UNCHANGED Thttpd!thttpdVars
    BY <2>11 DEF Thttpd!thttpdVars, SlotsInv, ServedFits
  <2>12. QED
    BY <2>1, <2>2, <2>3, <2>4, <2>5, <2>6, <2>7, <2>8, <2>9, <2>10, <2>11
       DEF Thttpd!ThttpdMain
<1>2. QED
  BY <1>1, SlotsStart, SlotsCount, PTL DEF ThttpdSpec

----------------------------------------------------------------------------
(* A socket of the ESP8266 driver.  What was handed over and what is in    *)
(* the FIFO behind it are the bytes of this connection, but for the lost   *)
(* ones, up to the one that the worker is at; the line goes on with the    *)
(* next; and a reader that sleeps has a post to come, or room for all that *)
(* is read before it.                                                      *)
SocketsSpec == Sockets!EspInit /\ [][Sockets!EspNext]_(Sockets!espVars)

(* The worker reads fewer bytes at once than the FIFO has room for, as by  *)
(* default, with 256 and 2048.                                             *)
SocketParameters ==
  /\ FifoSize \in Nat /\ WorkerBuf \in Nat /\ WorkerBuf < FifoSize
  /\ RecvMax \in Nat /\ MaxConns \in Nat /\ MaxBytes \in Nat

(* The indices of the FIFO.                                                *)
Spot == 0 .. FifoSize - 1

Gap(i, o) == LET n == i - o IN IF n < 0 THEN n + FifoSize ELSE n

LEMMA GapMore ==
  ASSUME SocketParameters, NEW i \in Spot, NEW o \in Spot
  PROVE  /\ Gap(i, o) \in 0 .. FifoSize - 1 /\ Sockets!Cell(i + 1) \in Spot
         /\ Sockets!Cell(i + 1) # o => Gap(Sockets!Cell(i + 1), o) = Gap(i, o) + 1
         /\ Sockets!Cell(i + 1) = o => Gap(i, o) = FifoSize - 1
         /\ Sockets!Cell(o + Gap(i, o)) = i
         /\ Gap(i, o) = 0 <=> i = o
         /\ \A j \in 0 .. Gap(i, o) - 1 : Sockets!Cell(o + j) \in Spot \ {i}
BY DEF SocketParameters, Spot, Gap, Sockets!Cell

LEMMA GapLess ==
  ASSUME SocketParameters, NEW i \in Spot, NEW o \in Spot, NEW n \in 0 .. Gap(i, o)
  PROVE  /\ Sockets!Cell(o + n) \in Spot
         /\ Gap(i, Sockets!Cell(o + n)) = Gap(i, o) - n
         /\ \A j \in 0 .. Gap(i, o) - n - 1 : Sockets!Cell(Sockets!Cell(o + n) + j) = Sockets!Cell(o + n + j)
BY DEF SocketParameters, Spot, Gap, Sockets!Cell

(* q holds, in its first n entries, the bytes of c up to done but for gone. *)
KeptOf(q, n, done, c, gone) ==
  /\ gone \subseteq 1 .. done
  /\ \A i \in 1 .. n : q[i][1] = c /\ q[i][2] \in (1 .. done) \ gone
  /\ \A i, j \in 1 .. n : i < j => q[i][2] < q[j][2]
  /\ \A k \in 1 .. done : k \in gone \/ \E i \in 1 .. n : q[i] = <<c, k>>

LEMMA KeptSame ==
  ASSUME NEW n \in Nat, NEW done \in Nat, NEW c, NEW gone, NEW q, NEW r,
         KeptOf(q, n, done, c, gone), \A i \in 1 .. n : r[i] = q[i]
  PROVE  KeptOf(r, n, done, c, gone)
BY DEF KeptOf

LEMMA KeptMore ==
  ASSUME NEW n \in Nat, NEW done \in Nat, NEW c, NEW gone, NEW q, NEW r,
         KeptOf(q, n, done, c, gone), \A i \in 1 .. n : r[i] = q[i],
         r[n + 1] = <<c, done + 1>>
  PROVE  KeptOf(r, n + 1, done + 1, c, gone)
<1>1. gone \subseteq 1 .. done + 1 /\ done + 1 \notin gone
  BY DEF KeptOf
<1>2. ASSUME NEW i \in 1 .. n + 1
      PROVE  r[i][1] = c /\ r[i][2] \in (1 .. done + 1) \ gone
  <2>1. CASE i = n + 1
    BY <1>1, <2>1
  <2>2. CASE i # n + 1
    <3>1. i \in 1 .. n
      BY <2>2
    <3>2. QED
      BY <3>1 DEF KeptOf
  <2>3. QED
    BY <2>1, <2>2
<1>3. ASSUME NEW i \in 1 .. n + 1, NEW j \in 1 .. n + 1, i < j
      PROVE  r[i][2] < r[j][2]
  <2>1. i \in 1 .. n
    BY <1>3
  <2>2. CASE j = n + 1
    BY <2>1, <2>2 DEF KeptOf
  <2>3. CASE j # n + 1
    <3>1. j \in 1 .. n
      BY <2>3
    <3>2. QED
      BY <1>3, <2>1, <3>1 DEF KeptOf
  <2>4. QED
    BY <2>2, <2>3
<1>4. ASSUME NEW k \in 1 .. done + 1
      PROVE  k \in gone \/ \E i \in 1 .. n + 1 : r[i] = <<c, k>>
  <2>1. CASE k = done + 1
    BY <2>1
  <2>2. CASE k # done + 1
    <3>1. k \in 1 .. done
      BY <2>2
    <3>2. CASE k \notin gone
      <4>1. PICK i \in 1 .. n : q[i] = <<c, k>>
        BY <3>1, <3>2 DEF KeptOf
      <4>2. i \in 1 .. n + 1 /\ r[i] = <<c, k>>
        BY <4>1
      <4>3. QED
        BY <4>2
    <3>3. QED
      BY <3>2
  <2>3. QED
    BY <2>1, <2>2
<1>5. QED
  BY <1>1, <1>2, <1>3, <1>4 DEF KeptOf

(* What comes behind may be lost, a byte or the rest of a packet.          *)
LEMMA KeptCut ==
  ASSUME NEW n \in Nat, NEW done \in Nat, NEW m \in Nat, NEW c, NEW gone, NEW q,
         KeptOf(q, n, done, c, gone)
  PROVE  KeptOf(q, n, done + m, c, gone \cup (done + 1 .. done + m))
<1>1. \A i \in 1 .. n : q[i][2] \in (1 .. done) \ gone
  BY DEF KeptOf
<1>2. \A i \in 1 .. n : q[i][1] = c /\ q[i][2] \in (1 .. done + m) \ (gone \cup (done + 1 .. done + m))
  BY <1>1 DEF KeptOf
<1>3. gone \cup (done + 1 .. done + m) \subseteq 1 .. done + m
  <2>1. gone \subseteq 1 .. done
    BY DEF KeptOf
  <2>2. 1 .. done \subseteq 1 .. done + m /\ done + 1 .. done + m \subseteq 1 .. done + m
    OBVIOUS
  <2>3. QED
    BY <2>1, <2>2
<1>4. ASSUME NEW k \in 1 .. done + m
      PROVE  k \in gone \cup (done + 1 .. done + m) \/ \E i \in 1 .. n : q[i] = <<c, k>>
  <2>1. k \in done + 1 .. done + m \/ k \in 1 .. done
    OBVIOUS
  <2>2. QED
    BY <2>1 DEF KeptOf
<1>5. QED
  BY <1>2, <1>3, <1>4 DEF KeptOf

(* What is known of the line and of the worker.                            *)
Sock == [fifo  : [Spot -> Nat \X Nat],
         flags : [used : BOOLEAN, inndx : Spot, outndx : Spot, sem : BOOLEAN]]

Packet == [conn : Nat, byte : Nat, len : Nat]

Worker == [at : {"idle", "packet", "full"}, conn : Nat, byte : Nat,
           left : Nat, size : Nat, open : BOOLEAN, next : Nat, stray : BOOLEAN]

SocketsTyped ==
  /\ link \in Nat /\ arrived \in Nat /\ conn \in Nat /\ posts \in Nat
  /\ uart \in Seq(Packet)
  /\ worker \in Worker
  /\ sock \in Sock
  /\ got \in Seq(Nat \X Nat)

Starts(i) ==
  IF i <= Len(uart) /\ uart[i] # Sockets!CloseLine THEN uart[i].byte ELSE arrived + 1

Done == IF worker.at = "idle" THEN Starts(1) - 1 ELSE worker.byte - 1

Line ==
  /\ conn # 0 /\ link \in {0, conn}
  /\ \A i \in 1 .. Len(uart) :
       \/ uart[i] = Sockets!CloseLine /\ i = Len(uart) /\ link = 0
       \/ /\ uart[i] # Sockets!CloseLine
          /\ uart[i].conn = conn /\ uart[i].byte >= 1 /\ uart[i].len >= 1
          /\ uart[i].byte + uart[i].len = Starts(i + 1)
          /\ uart[i].byte + uart[i].len <= arrived + 1

Hold ==
  worker.at # "idle" =>
    /\ worker.open /\ worker.conn = conn /\ worker.byte >= 1
    /\ worker.size <= WorkerBuf /\ worker.size + worker.left >= 1
    /\ worker.byte + worker.size + worker.left = Starts(1)
    /\ worker.at = "full" => worker.size >= 1 /\ worker.next = Sockets!NextIn

(* What was read on this connection, and behind it what the FIFO holds.    *)
Total == Len(got) + Sockets!Available

Held ==
  [i \in 1 .. Total |->
    IF i <= Len(got) THEN got[i] ELSE sock.fifo[Sockets!Cell(sock.flags.outndx + (i - Len(got) - 1))]]

Kept == KeptOf(Held, Total, Done, conn, lost)

Awake ==
  task = "waiting" =>
    /\ sock.flags.sem
    /\ posts > 0 \/ IF worker.at = "packet" /\ worker.size > 0
                       THEN Sockets!Available + worker.size <= WorkerBuf
                       ELSE Sockets!Available = 0

AtRest == uart = <<>> /\ worker.at = "idle" /\ link = 0 /\ Sockets!Available = 0

Live == sock.flags.used /\ task # "created"

Good ==
  /\ SocketsTyped
  /\ task = "created" => sock.flags.used /\ got = <<>> /\ lost = {} /\ conn # 0
  /\ task = "out" => ~sock.flags.used
  /\ task = "closing" => link = 0
  /\ ~Live => AtRest
  /\ Live => Line /\ Hold /\ Kept /\ Awake
  /\ Sockets!ReceivedAsSent

LEMMA AvailableGap ==
  ASSUME SocketParameters, SocketsTyped
  PROVE  /\ Sockets!Available = Gap(sock.flags.inndx, sock.flags.outndx)
         /\ Sockets!Available \in 0 .. FifoSize - 1 /\ Sockets!Available \in Nat
         /\ sock.flags.inndx \in Spot /\ sock.flags.outndx \in Spot
         /\ sock.flags.inndx \in Nat /\ sock.flags.outndx \in Nat
<1>1. Sockets!Available = Gap(sock.flags.inndx, sock.flags.outndx)
  BY DEF Sockets!Available, Gap
<1>2. sock.flags.inndx \in Spot /\ sock.flags.outndx \in Spot
  BY DEF SocketsTyped, Sock
<1>3. FifoSize \in Nat
  BY DEF SocketParameters
<1>4. sock.flags.inndx \in Nat /\ sock.flags.outndx \in Nat
  BY <1>2, <1>3 DEF Spot
<1>5. Sockets!Available \in 0 .. FifoSize - 1
  BY <1>1, <1>2, GapMore
<1>6. QED
  BY <1>1, <1>2, <1>3, <1>4, <1>5

LEMMA StartsWithin ==
  ASSUME SocketsTyped, Line, NEW i \in Nat \ {0}
  PROVE  Starts(i) \in Nat /\ Starts(i) >= 1 /\ Starts(i) <= arrived + 1
<1>1. CASE i <= Len(uart) /\ uart[i] # Sockets!CloseLine
  <2>1. i \in 1 .. Len(uart) /\ Starts(i) = uart[i].byte
    BY <1>1 DEF Starts, SocketsTyped
  <2>2. uart[i].byte \in Nat /\ uart[i].len \in Nat /\ arrived \in Nat
    <3>1. uart \in Seq(Packet)
      BY DEF SocketsTyped
    <3>2. uart[i] \in Packet
      BY <2>1, <3>1
    <3>3. QED
      BY <3>2 DEF Packet, SocketsTyped
  <2>3. /\ uart[i].byte >= 1 /\ uart[i].len >= 1
        /\ uart[i].byte + uart[i].len <= arrived + 1
    BY <1>1, <2>1 DEF Line
  <2>4. QED
    BY <2>1, <2>2, <2>3
<1>2. CASE ~(i <= Len(uart) /\ uart[i] # Sockets!CloseLine)
  BY <1>2 DEF Starts, SocketsTyped
<1>3. QED
  BY <1>1, <1>2

LEMMA DoneWithin ==
  ASSUME SocketsTyped, Line, Hold
  PROVE  Done \in Nat /\ Done <= arrived
<1>1. Starts(1) \in Nat /\ Starts(1) >= 1 /\ Starts(1) <= arrived + 1
  BY StartsWithin
<1>2. worker.byte \in Nat /\ worker.size \in Nat /\ worker.left \in Nat /\ arrived \in Nat
  BY DEF SocketsTyped, Worker
<1>3. QED
  BY <1>1, <1>2 DEF Done, Hold

(* What the user has read is what was sent.                                *)
LEMMA KeptReads ==
  ASSUME SocketParameters, SocketsTyped, Line, Hold, Kept
  PROVE  Sockets!ReceivedAsSent
<1>1. Done \in Nat /\ Done <= arrived /\ arrived \in Nat
  BY DoneWithin DEF SocketsTyped
<1>2. Len(got) \in Nat /\ Sockets!Available \in Nat
  BY AvailableGap DEF SocketsTyped, SocketParameters
<1>3. DOMAIN got = 1 .. Len(got)
  BY DEF SocketsTyped
<1>4. \A i \in 1 .. Len(got) : i \in 1 .. Total /\ Held[i] = got[i]
  BY <1>2 DEF Total, Held
<1>5. ASSUME NEW i \in DOMAIN got
      PROVE  got[i][1] = conn /\ got[i][2] \in (1 .. Done) \ lost
  BY <1>3, <1>4 DEF Kept, KeptOf
<1>6. ASSUME NEW i \in DOMAIN got, NEW j \in DOMAIN got, i < j
      PROVE  got[i][2] < got[j][2]
  BY <1>3, <1>4, <1>6 DEF Kept, KeptOf
<1>7. ASSUME NEW i \in DOMAIN got, NEW k \in 1 .. got[i][2]
      PROVE  ~Sockets!Missing(k)
  <2>1. k \in 1 .. Done
    BY <1>1, <1>5
  <2>2. CASE k \notin lost
    <3>1. PICK j \in 1 .. Total : Held[j] = <<conn, k>>
      BY <2>1, <2>2 DEF Kept, KeptOf
    <3>2. j <= Len(got)
      <4>1. CASE j > Len(got)
        <5>1. i \in 1 .. Total /\ i < j /\ Held[i] = got[i]
          BY <1>2, <1>3, <1>4, <4>1 DEF Total
        <5>2. got[i][2] < Held[j][2]
          BY <5>1 DEF Kept, KeptOf
        <5>3. Held[j][2] = k
          BY <3>1
        <5>4. QED
          BY <1>1, <1>5, <5>2, <5>3
      <4>2. QED
        BY <1>2, <4>1 DEF Total
    <3>3. j \in DOMAIN got /\ got[j] = <<conn, k>>
      BY <1>2, <1>3, <1>4, <3>1, <3>2 DEF Total
    <3>4. QED
      BY <3>3 DEF Sockets!Missing
  <2>3. QED
    BY <2>2 DEF Sockets!Missing
<1>8. ASSUME Sockets!Quiet, Sockets!Available = 0, NEW k \in 1 .. arrived
      PROVE  ~Sockets!Missing(k)
  <2>1. Done = arrived
    BY <1>1, <1>8 DEF Sockets!Quiet, Done, Starts
  <2>2. CASE k \notin lost
    <3>1. PICK j \in 1 .. Total : Held[j] = <<conn, k>>
      BY <2>1, <2>2 DEF Kept, KeptOf
    <3>2. j \in DOMAIN got /\ got[j] = <<conn, k>>
      BY <1>2, <1>3, <1>4, <1>8, <3>1 DEF Total
    <3>3. QED
      BY <3>2 DEF Sockets!Missing
  <2>3. QED
    BY <2>2 DEF Sockets!Missing
<1>9. \A i \in DOMAIN got : got[i][1] = conn /\ got[i][2] \in (1 .. arrived) \ lost
  <2>1. 1 .. Done \subseteq 1 .. arrived
    BY <1>1
  <2>2. QED
    BY <1>5, <2>1
<1>10. QED
  BY <1>6, <1>7, <1>8, <1>9 DEF Sockets!ReceivedAsSent

(* The FIFO as nobody changes it.                                          *)
LEMMA KeptStays ==
  ASSUME Kept, got' = got, conn' = conn, lost' = lost, Done' = Done,
         sock'.fifo = sock.fifo, sock'.flags.inndx = sock.flags.inndx,
         sock'.flags.outndx = sock.flags.outndx
  PROVE  Kept' /\ Sockets!Available' = Sockets!Available
<1>1. Sockets!Available' = Sockets!Available
  BY DEF Sockets!Available
<1>2. Total' = Total
  BY <1>1 DEF Total
<1>3. Held' = Held
  BY <1>2 DEF Held
<1>4. QED
  BY <1>1, <1>2, <1>3 DEF Kept

(* What is read goes over from the FIFO to the user.                       *)
LEMMA TakenKeeps ==
  ASSUME SocketParameters, SocketsTyped, Kept, NEW len \in 1 .. RecvMax, Sockets!Taken(len),
         conn' = conn, lost' = lost, Done' = Done, Done \in Nat
  PROVE  /\ Kept' /\ got' \in Seq(Nat \X Nat) /\ sock' \in Sock
         /\ sock'.flags.used = sock.flags.used
         /\ sock'.flags.inndx = sock.flags.inndx
<1> DEFINE n == Sockets!Min(len, Sockets!Available)
           tail == sock.flags.outndx
           part == [i \in 1 .. n |-> sock.fifo[Sockets!Cell(tail + i - 1)]]
<1>1. /\ Sockets!Available = Gap(sock.flags.inndx, tail) /\ Sockets!Available \in 0 .. FifoSize - 1
      /\ Sockets!Available \in Nat /\ tail \in Nat
      /\ sock.flags.inndx \in Spot /\ tail \in Spot
      /\ sock.fifo \in [Spot -> Nat \X Nat]
  BY AvailableGap DEF SocketsTyped, Sock
<1>2. n \in 0 .. Sockets!Available /\ n \in Nat
  BY <1>1 DEF Sockets!Min, SocketParameters
<1>3. /\ Sockets!Cell(tail + n) \in Spot
      /\ Gap(sock.flags.inndx, Sockets!Cell(tail + n)) = Gap(sock.flags.inndx, tail) - n
      /\ \A j \in 0 .. Gap(sock.flags.inndx, tail) - n - 1 :
           Sockets!Cell(Sockets!Cell(tail + n) + j) = Sockets!Cell(tail + n + j)
  BY <1>1, <1>2, GapLess
<1>4. /\ got' = got \o part
      /\ sock'.fifo = sock.fifo /\ sock'.flags.outndx = Sockets!Cell(tail + n)
      /\ sock'.flags.inndx = sock.flags.inndx /\ sock'.flags.used = sock.flags.used
      /\ sock' \in Sock
  <2>1. /\ got' = got \o part
        /\ sock' = [sock EXCEPT !.flags.outndx = Sockets!Cell(tail + n), !.flags.sem = FALSE]
    BY DEF Sockets!Taken
  <2>2. sock \in Sock
    BY DEF SocketsTyped
  <2>3. QED
    BY <1>3, <2>1, <2>2 DEF Sock
<1>5. \A j \in 0 .. Sockets!Available - 1 : sock.fifo[Sockets!Cell(tail + j)] \in Nat \X Nat
  <2>1. \A j \in 0 .. Sockets!Available - 1 : Sockets!Cell(tail + j) \in Spot
    BY <1>1, GapMore
  <2>2. QED
    BY <1>1, <2>1
<1>6. /\ part \in Seq(Nat \X Nat) /\ Len(part) = n
      /\ \A i \in 1 .. n : part[i] = sock.fifo[Sockets!Cell(tail + (i - 1))]
  <2>1. ASSUME NEW i \in 1 .. n PROVE sock.fifo[Sockets!Cell(tail + i - 1)] \in Nat \X Nat
    <3>1. i - 1 \in 0 .. Sockets!Available - 1 /\ tail + i - 1 = tail + (i - 1)
      BY <1>1, <1>2 DEF Spot
    <3>2. QED
      BY <1>5, <3>1
  <2>2. part \in Seq(Nat \X Nat) /\ Len(part) = n
    BY <1>2, <2>1
  <2>3. \A i \in 1 .. n : tail + i - 1 = tail + (i - 1)
    BY <1>1, <1>2 DEF Spot
  <2>4. QED
    BY <2>2, <2>3
<1>7. /\ got' \in Seq(Nat \X Nat) /\ Len(got') = Len(got) + n /\ Len(got) \in Nat
      /\ \A i \in 1 .. Len(got) : got'[i] = got[i]
      /\ \A i \in 1 .. n : got'[Len(got) + i] = part[i]
  <2>1. got \in Seq(Nat \X Nat) /\ got' = got \o part
    BY <1>4 DEF SocketsTyped
  <2>2. part \in Seq(Nat \X Nat) /\ Len(part) = n /\ n \in Nat
    BY <1>2, <1>6
  <2> HIDE DEF part, n
  <2>3. Len(got) \in Nat /\ Len(got') = Len(got) + n
    <3>1. Len(got) \in Nat
      BY <2>1
    <3>2. Len(got \o part) = Len(got) + Len(part)
      BY <2>1, <2>2
    <3>3. QED
      BY <2>1, <2>2, <3>1, <3>2
  <2>4. got' \in Seq(Nat \X Nat)
    BY <2>1, <2>2
  <2>5. \A i \in 1 .. Len(got) : got'[i] = got[i]
    BY <2>1, <2>2, <2>3
  <2>6. ASSUME NEW i \in 1 .. n PROVE got'[Len(got) + i] = part[i]
    <3>1. Len(got) + i \in 1 .. Len(got) + Len(part) /\ ~(Len(got) + i <= Len(got))
          /\ (Len(got) + i) - Len(got) = i
      BY <2>2, <2>3
    <3>2. (got \o part)[Len(got) + i] = part[(Len(got) + i) - Len(got)]
      BY <2>1, <2>2, <3>1
    <3>3. QED
      BY <2>1, <3>1, <3>2
  <2>7. QED
    BY <2>3, <2>4, <2>5, <2>6
<1>8. Sockets!Available' = Sockets!Available - n
  <2>1. Sockets!Available' = Gap(sock'.flags.inndx, sock'.flags.outndx)
    BY DEF Sockets!Available, Gap
  <2>2. QED
    BY <1>1, <1>3, <1>4, <2>1
<1>9. /\ Total' = Total /\ Total \in Nat /\ Total = Len(got) + Sockets!Available
      /\ Len(got') \in Nat /\ Sockets!Available = Gap(sock.flags.inndx, tail)
  <2>1. Sockets!Available \in Nat /\ Total = Len(got) + Sockets!Available
    BY <1>1 DEF Total
  <2>2. Total' = Len(got') + Sockets!Available'
    BY DEF Total
  <2>3. n \in Nat /\ Len(got) \in Nat /\ Len(got') = Len(got) + n /\ Sockets!Available' = Sockets!Available - n
    BY <1>2, <1>7, <1>8
  <2>4. Sockets!Available = Gap(sock.flags.inndx, tail)
    BY <1>1
  <2> HIDE DEF n
  <2>5. QED
    BY <2>1, <2>2, <2>3, <2>4
<1>10. ASSUME NEW i \in 1 .. Total PROVE Held'[i] = Held[i]
  <2>1. Held'[i] = IF i <= Len(got') THEN got'[i]
                   ELSE sock.fifo[Sockets!Cell(Sockets!Cell(tail + n) + (i - Len(got') - 1))]
    BY <1>4, <1>9 DEF Held
  <2>2. Held[i] = IF i <= Len(got) THEN got[i]
                  ELSE sock.fifo[Sockets!Cell(tail + (i - Len(got) - 1))]
    BY DEF Held
  <2>3. CASE i <= Len(got)
    BY <1>2, <1>7, <2>1, <2>2, <2>3
  <2>4. CASE i > Len(got) /\ i <= Len(got) + n
    <3>1. i - Len(got) \in 1 .. n /\ i = Len(got) + (i - Len(got))
      BY <1>2, <1>7, <1>9, <2>4
    <3>2. got'[i] = sock.fifo[Sockets!Cell(tail + ((i - Len(got)) - 1))]
      BY <1>6, <1>7, <3>1
    <3>3. i <= Len(got') /\ ~(i <= Len(got))
      BY <1>2, <1>7, <1>9, <2>4
    <3>4. QED
      BY <2>1, <2>2, <3>2, <3>3
  <2>5. CASE i > Len(got) + n
    <3>1. ~(i <= Len(got)) /\ ~(i <= Len(got'))
      BY <1>2, <1>7, <1>9, <2>5
    <3>2. i - Len(got') - 1 \in 0 .. Gap(sock.flags.inndx, tail) - n - 1
      <4>1. i \in Nat /\ i <= Total
        BY <1>9
      <4> HIDE DEF n
      <4>2. QED
        BY SMTT(30), <1>1, <1>2, <1>7, <1>9, <2>5, <4>1
    <3>3. Sockets!Cell(Sockets!Cell(tail + n) + (i - Len(got') - 1)) = Sockets!Cell(tail + n + (i - Len(got') - 1))
      BY <1>3, <3>2
    <3>4. tail + n + (i - Len(got') - 1) = tail + (i - Len(got) - 1)
      <4>1. i \in Nat /\ tail \in Nat
        BY <1>1, <1>9
      <4> HIDE DEF n, tail
      <4>2. QED
        BY <1>2, <1>7, <4>1
    <3>5. QED
      BY <2>1, <2>2, <3>1, <3>3, <3>4
  <2>6. QED
    BY <1>2, <1>7, <1>9, <2>3, <2>4, <2>5
<1>11. KeptOf(Held', Total, Done, conn, lost)
  BY <1>9, <1>10, KeptSame DEF Kept
<1>12. Kept'
  BY <1>9, <1>11 DEF Kept
<1>13. QED
  BY <1>4, <1>7, <1>12

(* A byte that is stored is behind all others.                             *)
LEMMA PutKeeps ==
  ASSUME SocketParameters, SocketsTyped, Kept, Sockets!Put(Sockets!NextIn), Sockets!NextIn # sock.flags.outndx,
         worker.conn = conn, Done \in Nat, Done' = Done + 1, worker.byte = Done + 1,
         got' = got, conn' = conn
  PROVE  /\ Kept' /\ Sockets!Available' = Sockets!Available + 1 /\ sock' \in Sock
         /\ sock'.flags.used = sock.flags.used /\ sock'.flags.sem = sock.flags.sem
         /\ sock'.flags.outndx = sock.flags.outndx
<1> DEFINE in == sock.flags.inndx
           tail == sock.flags.outndx
<1>1. /\ Sockets!Available = Gap(in, tail) /\ Sockets!Available \in 0 .. FifoSize - 1
      /\ Sockets!Available \in Nat /\ tail \in Nat
      /\ in \in Spot /\ tail \in Spot /\ sock.fifo \in [Spot -> Nat \X Nat]
  BY AvailableGap DEF SocketsTyped, Sock
<1>2. /\ Sockets!NextIn \in Spot /\ Gap(Sockets!NextIn, tail) = Gap(in, tail) + 1
      /\ Sockets!Cell(tail + Gap(in, tail)) = in
      /\ \A j \in 0 .. Gap(in, tail) - 1 : Sockets!Cell(tail + j) \in Spot \ {in}
  BY <1>1, GapMore DEF Sockets!NextIn
<1>3. <<worker.conn, worker.byte>> \in Nat \X Nat
  BY DEF SocketsTyped, Worker
<1>4. /\ sock'.fifo = [sock.fifo EXCEPT ![in] = <<worker.conn, worker.byte>>]
      /\ sock'.flags.inndx = Sockets!NextIn /\ sock'.flags.outndx = tail
      /\ sock'.flags.used = sock.flags.used /\ sock'.flags.sem = sock.flags.sem
      /\ sock' \in Sock
  <2>1. sock' = [sock EXCEPT !.fifo[in] = <<worker.conn, worker.byte>>,
                             !.flags.inndx = Sockets!NextIn]
    BY DEF Sockets!Put
  <2>2. sock \in Sock
    BY DEF SocketsTyped
  <2>3. QED
    BY <1>2, <1>3, <2>1, <2>2 DEF Sock
<1>5. lost' = lost
  BY DEF Sockets!Put
<1>6. Sockets!Available' = Sockets!Available + 1
  <2>1. Sockets!Available' = Gap(sock'.flags.inndx, sock'.flags.outndx)
    BY DEF Sockets!Available, Gap
  <2>2. QED
    BY <1>1, <1>2, <1>4, <2>1
<1>7. /\ Len(got) \in Nat /\ Total' = Total + 1 /\ Total \in Nat
      /\ Total = Len(got) + Sockets!Available
  <2>1. Len(got) \in Nat
    BY DEF SocketsTyped
  <2>2. Sockets!Available \in Nat /\ Total = Len(got) + Sockets!Available
    BY <1>1 DEF Total
  <2>3. Total' = Len(got) + Sockets!Available'
    BY DEF Total
  <2>4. QED
    BY <1>6, <2>1, <2>2, <2>3
<1>8. ASSUME NEW i \in 1 .. Total PROVE Held'[i] = Held[i]
  <2>1. i \in 1 .. Total'
    BY <1>7
  <2>2. Held'[i] = IF i <= Len(got) THEN got[i]
                   ELSE sock'.fifo[Sockets!Cell(tail + (i - Len(got) - 1))]
    BY <1>4, <2>1 DEF Held
  <2>3. Held[i] = IF i <= Len(got) THEN got[i]
                  ELSE sock.fifo[Sockets!Cell(tail + (i - Len(got) - 1))]
    BY DEF Held
  <2>4. CASE i > Len(got)
    <3>1. i - Len(got) - 1 \in 0 .. Gap(in, tail) - 1
      <4>1. /\ i \in Nat /\ i <= Total /\ Total = Len(got) + Sockets!Available
            /\ Sockets!Available = Gap(in, tail)
        BY <1>1, <1>7
      <4>2. Sockets!Available \in Nat /\ Len(got) \in Nat
        BY <1>1, <1>7
      <4> HIDE DEF in, tail
      <4>3. QED
        BY <2>4, <4>1, <4>2
    <3>2. Sockets!Cell(tail + (i - Len(got) - 1)) \in Spot \ {in}
      BY <1>2, <3>1
    <3>3. QED
      BY <1>1, <1>4, <2>2, <2>3, <3>2
  <2>5. QED
    BY <1>7, <2>2, <2>3, <2>4
<1>9. Held'[Total + 1] = <<conn, Done + 1>>
  <2>1. Total + 1 \in 1 .. Total' /\ ~(Total + 1 <= Len(got))
        /\ (Total + 1) - Len(got) - 1 = Gap(in, tail)
    <3>1. Sockets!Available = Gap(in, tail) /\ Sockets!Available \in Nat
      BY <1>1
    <3>2. QED
      BY <1>7, <3>1
  <2>2. Held'[Total + 1] = sock'.fifo[Sockets!Cell(tail + Gap(in, tail))]
    BY <1>4, <2>1 DEF Held
  <2>3. QED
    BY <1>1, <1>2, <1>4, <2>2
<1>10. KeptOf(Held', Total + 1, Done + 1, conn, lost)
  BY <1>7, <1>8, <1>9, KeptMore DEF Kept
<1>11. Kept'
  BY <1>5, <1>7, <1>10 DEF Kept
<1>12. QED
  BY <1>4, <1>6, <1>11

(* What is dropped is among the bytes lost.                                *)
LEMMA CutKeeps ==
  ASSUME SocketParameters, SocketsTyped, Kept, Done \in Nat, NEW m \in Nat, Done' = Done + m,
         lost' = lost \cup (Done + 1 .. Done + m), got' = got, conn' = conn, sock' = sock
  PROVE  Kept' /\ Sockets!Available' = Sockets!Available
<1>1. Sockets!Available' = Sockets!Available
  BY DEF Sockets!Available
<1>2. Total' = Total /\ Total \in Nat
  BY <1>1, AvailableGap DEF Total, SocketsTyped, SocketParameters
<1>3. Held' = Held
  BY <1>2 DEF Held
<1>4. KeptOf(Held, Total, Done + m, conn, lost \cup (Done + 1 .. Done + m))
  BY <1>2, KeptCut DEF Kept
<1>5. QED
  BY <1>1, <1>2, <1>3, <1>4 DEF Kept

LEMMA DropKeeps ==
  ASSUME SocketParameters, SocketsTyped, Kept, Done \in Nat, Done' = Done + 1,
         lost' = lost \cup {Done + 1}, got' = got, conn' = conn, sock' = sock
  PROVE  Kept'
<1>1. Done + 1 .. Done + 1 = {Done + 1} /\ 1 \in Nat
  OBVIOUS
<1>2. QED
  BY <1>1, CutKeeps

(* What was read stays right when none of it changes.                      *)
LEMMA DeliveredSame ==
  ASSUME Sockets!ReceivedAsSent, got' = got, conn' = conn, arrived' = arrived, lost' = lost,
         ~(task' = "open" /\ sock'.flags.used)
  PROVE  Sockets!ReceivedAsSent'
BY DEF Sockets!ReceivedAsSent, Sockets!Missing

LEMMA GoodLive ==
  ASSUME SocketParameters, SocketsTyped', Live', Line', Hold', Kept', Awake',
         task' # "out", task' = "closing" => link' = 0
  PROVE  Good'
<1>1. Sockets!ReceivedAsSent'
  BY KeptReads, PTL
<1>2. sock'.flags.used /\ task' # "created"
  BY DEF Live
<1>3. QED
  BY <1>1, <1>2 DEF Good

(* What is put on the line comes behind what is there.                     *)
LEMMA StartsAppend ==
  ASSUME SocketsTyped, Line, link # 0, NEW p \in Packet, uart' = Append(uart, p),
         IF p = Sockets!CloseLine THEN arrived' = arrived ELSE p.byte = arrived + 1
  PROVE  /\ Len(uart') = Len(uart) + 1 /\ Len(uart) \in Nat
         /\ \A i \in 1 .. Len(uart) : uart'[i] = uart[i] /\ uart[i] # Sockets!CloseLine
         /\ uart'[Len(uart) + 1] = p
         /\ \A j \in 1 .. Len(uart) + 1 : Starts(j)' = Starts(j)
<1>1. uart \in Seq(Packet) /\ Len(uart) \in Nat
  BY DEF SocketsTyped
<1>2. /\ Len(uart') = Len(uart) + 1
      /\ \A i \in 1 .. Len(uart) : uart'[i] = uart[i]
      /\ uart'[Len(uart) + 1] = p
  BY <1>1
<1>3. \A i \in 1 .. Len(uart) : uart[i] # Sockets!CloseLine
  BY DEF Line
<1>4. ASSUME NEW j \in 1 .. Len(uart) + 1 PROVE Starts(j)' = Starts(j)
  <2>1. CASE j = Len(uart) + 1
    <3>1. Starts(j) = arrived + 1
      BY <1>1, <2>1 DEF Starts
    <3>2. Starts(j)' = arrived + 1
      <4>1. j <= Len(uart')
        BY <1>1, <1>2
      <4>2. QED
        BY <1>2, <2>1, <4>1 DEF Starts, Sockets!CloseLine
    <3>3. QED
      BY <3>1, <3>2
  <2>2. CASE j # Len(uart) + 1
    <3>1. j \in 1 .. Len(uart) /\ j <= Len(uart')
      BY <1>1, <1>2, <2>2
    <3>2. QED
      BY <1>1, <1>2, <1>3, <3>1 DEF Starts, Sockets!CloseLine
  <2>3. QED
    BY <2>1, <2>2
<1>5. QED
  BY <1>1, <1>2, <1>3, <1>4

LEMMA EndOfPacket ==
  ASSUME NEW a \in Nat, NEW n \in Nat
  PROVE  a + 1 >= 1 /\ (a + 1) + n = (a + n) + 1 /\ (a + 1) + n <= (a + n) + 1
OBVIOUS

LEMMA LineAppend ==
  ASSUME SocketsTyped, Line, link # 0, NEW p \in Packet, uart' = Append(uart, p),
         conn' = conn,
         IF p = Sockets!CloseLine THEN arrived' = arrived /\ link' = 0
         ELSE /\ p.conn = conn /\ p.byte = arrived + 1 /\ p.len >= 1
              /\ arrived' = arrived + p.len /\ link' = link
  PROVE  Line' /\ Starts(1)' = Starts(1) /\ uart' \in Seq(Packet)
<1>1. /\ Len(uart') = Len(uart) + 1 /\ Len(uart) \in Nat
      /\ \A i \in 1 .. Len(uart) : uart'[i] = uart[i] /\ uart[i] # Sockets!CloseLine
      /\ uart'[Len(uart) + 1] = p
      /\ \A j \in 1 .. Len(uart) + 1 : Starts(j)' = Starts(j)
  BY StartsAppend
<1>2. /\ arrived \in Nat /\ arrived' \in Nat /\ arrived' >= arrived
      /\ p.byte \in Nat /\ p.len \in Nat
  BY DEF SocketsTyped, Packet
<1>3. conn' # 0 /\ link' \in {0, conn'}
  BY DEF Line
<1>4. ASSUME NEW i \in 1 .. Len(uart')
      PROVE  \/ uart'[i] = Sockets!CloseLine /\ i = Len(uart') /\ link' = 0
             \/ /\ uart'[i] # Sockets!CloseLine
                /\ uart'[i].conn = conn' /\ uart'[i].byte >= 1 /\ uart'[i].len >= 1
                /\ uart'[i].byte + uart'[i].len = Starts(i + 1)'
                /\ uart'[i].byte + uart'[i].len <= arrived' + 1
  <2>1. CASE i = Len(uart) + 1
    <3>1. uart'[i] = p /\ i = Len(uart')
      BY <1>1, <2>1
    <3>2. CASE p = Sockets!CloseLine
      BY <3>1, <3>2
    <3>3. CASE p # Sockets!CloseLine
      <4>1. Starts(i + 1)' = arrived' + 1
        BY <1>1, <2>1 DEF Starts
      <4>2. /\ p.conn = conn /\ p.byte = arrived + 1 /\ p.len >= 1
            /\ arrived' = arrived + p.len
        BY <3>3
      <4>3. /\ p.byte >= 1 /\ p.byte + p.len = arrived' + 1
            /\ p.byte + p.len <= arrived' + 1
        <5>1. arrived \in Nat /\ p.len \in Nat
          BY <1>2
        <5>2. p.byte + p.len = (arrived + 1) + p.len
          BY <4>2
        <5>3. p.byte >= 1
          BY <4>2, <5>1
        <5>4. (arrived + 1) + p.len = arrived' + 1
          BY SMTT(30), <4>2, <5>1
        <5>5. p.byte + p.len \in Nat
          BY <1>2
        <5>6. QED
          BY <5>2, <5>3, <5>4, <5>5
      <4>4. QED
        BY <3>1, <3>3, <4>1, <4>2, <4>3
    <3>4. QED
      BY <3>2, <3>3
  <2>2. CASE i # Len(uart) + 1
    <3>1. i \in 1 .. Len(uart) /\ i + 1 \in 1 .. Len(uart) + 1
      BY <1>1, <2>2
    <3>2. uart'[i] = uart[i] /\ uart[i] # Sockets!CloseLine /\ Starts(i + 1)' = Starts(i + 1)
      BY <1>1, <3>1
    <3>3. /\ uart[i].conn = conn /\ uart[i].byte >= 1 /\ uart[i].len >= 1
          /\ uart[i].byte + uart[i].len = Starts(i + 1)
          /\ uart[i].byte + uart[i].len <= arrived + 1
      BY <3>1, <3>2 DEF Line
    <3>4. uart[i].byte \in Nat /\ uart[i].len \in Nat
      <4>1. uart[i] \in Packet
        BY <3>1 DEF SocketsTyped
      <4>2. QED
        BY <4>1 DEF Packet
    <3>5. QED
      BY SMTT(30), <1>2, <3>2, <3>3, <3>4
  <2>3. QED
    BY <2>1, <2>2
<1>5. Line'
  BY <1>3, <1>4 DEF Line, Sockets!CloseLine
<1>6. uart' \in Seq(Packet)
  BY DEF SocketsTyped
<1>7. QED
  BY <1>1, <1>5, <1>6

(* What is taken from the line was its first packet.                       *)
LEMMA LineTail ==
  ASSUME SocketsTyped, Line, uart # <<>>, Head(uart) # Sockets!CloseLine, uart' = Tail(uart),
         conn' = conn, arrived' = arrived, link' = link
  PROVE  /\ Line' /\ uart' \in Seq(Packet) /\ Head(uart) \in Packet
         /\ Head(uart).conn = conn /\ Head(uart).byte >= 1 /\ Head(uart).len >= 1
         /\ Starts(1) = Head(uart).byte
         /\ Starts(1)' = Head(uart).byte + Head(uart).len
<1>1. /\ uart \in Seq(Packet) /\ Len(uart) \in Nat /\ Len(uart) >= 1
      /\ Head(uart) = uart[1]
  BY DEF SocketsTyped
<1>2. /\ uart' \in Seq(Packet) /\ Len(uart') = Len(uart) - 1
      /\ \A i \in 1 .. Len(uart) - 1 : uart'[i] = uart[i + 1]
  BY <1>1
<1>3. ASSUME NEW j \in Nat \ {0} PROVE Starts(j)' = Starts(j + 1)
  <2>1. CASE j <= Len(uart')
    <3>1. j \in 1 .. Len(uart) - 1 /\ j + 1 <= Len(uart)
      BY <1>1, <1>2, <2>1
    <3>2. QED
      BY <1>2, <2>1, <3>1 DEF Starts, Sockets!CloseLine
  <2>2. CASE ~(j <= Len(uart'))
    <3>1. ~(j + 1 <= Len(uart))
      BY <1>1, <1>2, <2>2
    <3>2. QED
      BY <2>2, <3>1 DEF Starts
  <2>3. QED
    BY <2>1, <2>2
<1>4. ASSUME NEW i \in 1 .. Len(uart')
      PROVE  \/ uart'[i] = Sockets!CloseLine /\ i = Len(uart') /\ link' = 0
             \/ /\ uart'[i] # Sockets!CloseLine
                /\ uart'[i].conn = conn' /\ uart'[i].byte >= 1 /\ uart'[i].len >= 1
                /\ uart'[i].byte + uart'[i].len = Starts(i + 1)'
                /\ uart'[i].byte + uart'[i].len <= arrived' + 1
  <2>1. i + 1 \in 1 .. Len(uart) /\ i \in 1 .. Len(uart) - 1 /\ i + 1 \in Nat \ {0}
    BY <1>1, <1>2
  <2>2. uart'[i] = uart[i + 1] /\ Starts(i + 1)' = Starts((i + 1) + 1)
    BY <1>2, <1>3, <2>1
  <2>3. \/ uart[i + 1] = Sockets!CloseLine /\ i + 1 = Len(uart) /\ link = 0
        \/ /\ uart[i + 1] # Sockets!CloseLine
           /\ uart[i + 1].conn = conn /\ uart[i + 1].byte >= 1 /\ uart[i + 1].len >= 1
           /\ uart[i + 1].byte + uart[i + 1].len = Starts((i + 1) + 1)
           /\ uart[i + 1].byte + uart[i + 1].len <= arrived + 1
    BY <2>1 DEF Line
  <2>4. QED
    BY <1>1, <1>2, <2>1, <2>2, <2>3
<1>5. Line'
  <2>1. conn' # 0 /\ link' \in {0, conn'}
    BY DEF Line
  <2>2. QED
    BY <1>4, <2>1 DEF Line, Sockets!CloseLine
<1>6. 1 \in 1 .. Len(uart) /\ Head(uart) = uart[1] /\ uart[1] # Sockets!CloseLine
  BY <1>1
<1>7. Head(uart) \in Packet
  BY <1>1, <1>6
<1>8. /\ Head(uart).conn = conn /\ Head(uart).byte >= 1 /\ Head(uart).len >= 1
      /\ Head(uart).byte + Head(uart).len = Starts(1 + 1)
  BY <1>6 DEF Line
<1>9. Starts(1) = Head(uart).byte
  BY <1>1, <1>6 DEF Starts
<1>10. Starts(1)' = Starts(1 + 1)
  BY <1>3
<1>11. QED
  BY <1>2, <1>5, <1>7, <1>8, <1>9, <1>10

(* The worker goes on with the next byte.                                  *)
LEMMA OnwardHolds ==
  ASSUME SocketParameters, SocketsTyped, Line, Hold, worker.at # "idle",
         worker.size >= 1, Sockets!Onward,
         uart' = uart, arrived' = arrived, conn' = conn
  PROVE  /\ worker' \in Worker /\ Hold'
         /\ Done \in Nat /\ worker.byte = Done + 1 /\ Done' = Done + 1
         /\ worker.conn = conn /\ worker.open
         /\ worker.size = 1 => worker'.at = "idle" \/ worker'.size = 0
         /\ worker.size # 1 => worker'.at = "packet" /\ worker'.size = worker.size - 1
<1>1. /\ worker \in Worker /\ worker.byte \in Nat /\ worker.size \in Nat
      /\ worker.left \in Nat
  BY DEF SocketsTyped, Worker
<1>2. /\ worker.open /\ worker.conn = conn /\ worker.byte >= 1
      /\ worker.size <= WorkerBuf /\ worker.size + worker.left >= 1
      /\ worker.byte + worker.size + worker.left = Starts(1)
  BY DEF Hold
<1>3. Starts(1)' = Starts(1)
  BY DEF Starts, Sockets!CloseLine
<1>4. Done \in Nat /\ worker.byte = Done + 1
  BY <1>1, <1>2 DEF Done
<1>5. CASE worker.size = 1 /\ worker.left = 0
  <2>1. worker' = Sockets!Idle
    BY <1>5 DEF Sockets!Onward
  <2>2. worker' \in Worker /\ worker'.at = "idle"
    BY <2>1 DEF Sockets!Idle, Worker
  <2>3. Done' = Starts(1) - 1
    BY <1>3, <2>2 DEF Done
  <2>4. Starts(1) = worker.byte + 1
    BY <1>1, <1>2, <1>5
  <2>5. Hold'
    BY <2>2 DEF Hold
  <2>6. QED
    BY <1>1, <1>2, <1>4, <1>5, <2>2, <2>3, <2>4, <2>5
<1>6. CASE ~(worker.size = 1 /\ worker.left = 0)
  <2>1. worker' = [worker EXCEPT !.at = "packet", !.byte = @ + 1, !.size = @ - 1]
    BY <1>6 DEF Sockets!Onward
  <2>2. /\ worker' \in Worker /\ worker'.at = "packet" /\ worker'.byte = worker.byte + 1
        /\ worker'.size = worker.size - 1 /\ worker'.left = worker.left
        /\ worker'.open = worker.open /\ worker'.conn = worker.conn
    <3>1. worker.byte + 1 \in Nat /\ worker.size - 1 \in Nat
      BY <1>1
    <3>2. /\ worker'.at = "packet" /\ worker'.byte = worker.byte + 1
          /\ worker'.size = worker.size - 1 /\ worker'.left = worker.left
          /\ worker'.open = worker.open /\ worker'.conn = worker.conn
      BY <1>1, <2>1 DEF Worker
    <3>3. worker' \in Worker
      BY <1>1, <2>1, <3>1 DEF Worker
    <3>4. QED
      BY <3>2, <3>3
  <2>3. Done' = Done + 1
    BY <1>1, <1>4, <2>2 DEF Done
  <2>4. /\ worker'.open /\ worker'.conn = conn' /\ worker'.byte >= 1
    BY <1>1, <1>2, <2>2
  <2>5. worker'.size + worker'.left >= 1
    BY <1>1, <1>6, <2>2
  <2>6. worker'.byte + worker'.size + worker'.left = Starts(1)'
    BY <1>1, <1>2, <1>3, <2>2
  <2>7. worker'.size <= WorkerBuf
    BY <1>1, <1>2, <2>2 DEF SocketParameters
  <2>8. Hold'
    BY <2>2, <2>4, <2>5, <2>6, <2>7 DEF Hold
  <2>9. QED
    BY <1>2, <1>4, <2>2, <2>3, <2>8
<1>7. QED
  BY <1>5, <1>6

(* Nobody else reads or writes while the worker does.                      *)
LEMMA ReceivesGood ==
  ASSUME SocketParameters, Good, NEW n \in 1 .. MaxBytes, Sockets!Receives(n)
  PROVE  Good'
<1>1. /\ link # 0 /\ arrived' = arrived + n
      /\ uart' = Append(uart, [conn |-> link, byte |-> arrived + 1, len |-> n])
      /\ UNCHANGED <<link, worker, sock, task, posts, conn, got, lost>>
  BY DEF Sockets!Receives, Sockets!user
<1>2. SocketsTyped /\ Live /\ Line /\ Hold /\ Kept /\ Awake
  BY <1>1 DEF Good, AtRest
<1>3. n \in Nat /\ n >= 1 /\ link \in Nat /\ arrived \in Nat /\ link = conn
  BY <1>1, <1>2 DEF SocketsTyped, Line
<1> DEFINE p == [conn |-> link, byte |-> arrived + 1, len |-> n]
<1>4. /\ p \in Packet /\ p # Sockets!CloseLine /\ p.conn = conn /\ p.byte = arrived + 1
      /\ p.len = n
  BY <1>1, <1>3 DEF Packet, Sockets!CloseLine
<1>5. Line' /\ Starts(1)' = Starts(1) /\ uart' \in Seq(Packet)
  <2>1. uart' = Append(uart, p)
    BY <1>1
  <2> HIDE DEF p
  <2>2. QED
    BY <1>1, <1>2, <1>3, <1>4, <2>1, LineAppend
<1>6. SocketsTyped' /\ Live'
  BY <1>1, <1>2, <1>3, <1>5 DEF SocketsTyped, Live
<1>7. Done' = Done
  BY <1>1, <1>5 DEF Done
<1>8. Kept' /\ Sockets!Available' = Sockets!Available
  BY <1>1, <1>2, <1>7, KeptStays
<1>9. Hold'
  BY <1>1, <1>2, <1>5 DEF Hold, Sockets!NextIn
<1>10. Awake'
  BY <1>1, <1>2, <1>8 DEF Awake
<1>11. task' # "out" /\ (task' = "closing" => link' = 0)
  BY <1>1, <1>2 DEF Good, Live
<1>12. QED
  BY <1>5, <1>6, <1>8, <1>9, <1>10, <1>11, GoodLive

(* The line is told that the connection is closed.                         *)
LEMMA LineCloses ==
  ASSUME SocketParameters, Good, link # 0, uart' = Append(uart, Sockets!CloseLine), link' = 0,
         UNCHANGED <<arrived, worker, sock, posts, conn, got, lost>>,
         task' \in {task, "closing"}, task' = "waiting" => task = "waiting"
  PROVE  Good'
<1>2. SocketsTyped /\ Live /\ Line /\ Hold /\ Kept /\ Awake
  BY DEF Good, AtRest
<1>3. Sockets!CloseLine \in Packet
  BY DEF Packet, Sockets!CloseLine
<1>5. Line' /\ Starts(1)' = Starts(1) /\ uart' \in Seq(Packet)
  BY <1>2, <1>3, LineAppend
<1>6. SocketsTyped' /\ Live'
  BY <1>2, <1>5 DEF SocketsTyped, Live
<1>7. Done' = Done
  BY <1>5 DEF Done
<1>8. Kept' /\ Sockets!Available' = Sockets!Available
  BY <1>2, <1>7, KeptStays
<1>9. Hold'
  BY <1>2, <1>5 DEF Hold, Sockets!NextIn
<1>10. Awake'
  BY <1>2, <1>8 DEF Awake
<1>11. task' # "out"
  BY <1>2 DEF Good, Live
<1>12. QED
  BY <1>5, <1>6, <1>8, <1>9, <1>10, <1>11, GoodLive

LEMMA PeerClosesGood ==
  ASSUME SocketParameters, Good, Sockets!PeerCloses
  PROVE  Good'
<1>1. /\ link # 0 /\ uart' = Append(uart, Sockets!CloseLine) /\ link' = 0
      /\ UNCHANGED <<arrived, worker, sock, posts, conn, got, lost>> /\ task' = task
  BY DEF Sockets!PeerCloses, Sockets!user
<1>2. QED
  BY <1>1, LineCloses

LEMMA IdleIs == Sockets!Idle \in Worker /\ Sockets!Idle.at = "idle"
BY DEF Sockets!Idle, Worker

(* A socket that is set closed.                                            *)
LEMMA ClosedSock ==
  ASSUME SocketParameters, SocketsTyped, Sockets!SetSockClosed
  PROVE  /\ sock' \in Sock /\ ~sock'.flags.used /\ Sockets!Available' = 0
         /\ posts' \in Nat
<1>1. sock' = [sock EXCEPT !.flags = Sockets!Closed] /\ posts' = Sockets!Posted(posts)
  BY DEF Sockets!SetSockClosed
<1>2. 0 \in Spot /\ FifoSize \in Nat
  BY DEF SocketParameters, Spot
<1>3. Sockets!Closed \in [used : BOOLEAN, inndx : Spot, outndx : Spot, sem : BOOLEAN]
  BY <1>2 DEF Sockets!Closed
<1>4. sock' \in Sock /\ sock'.flags = Sockets!Closed
  BY <1>1, <1>3 DEF SocketsTyped, Sock
<1>5. ~sock'.flags.used /\ sock'.flags.inndx = 0 /\ sock'.flags.outndx = 0
  BY <1>4 DEF Sockets!Closed
<1>6. Sockets!Available' = 0
  BY <1>5 DEF Sockets!Available
<1>7. posts' \in Nat
  BY <1>1 DEF SocketsTyped, Sockets!Posted
<1>8. QED
  BY <1>4, <1>5, <1>6, <1>7

LEMMA ReadClosedGood ==
  ASSUME SocketParameters, Good, Sockets!ReadClosed
  PROVE  Good'
<1>1. /\ worker.at = "idle" /\ uart # <<>> /\ Head(uart) = Sockets!CloseLine
      /\ uart' = Tail(uart) /\ Sockets!SetSockClosed
      /\ worker' = Sockets!Idle
      /\ UNCHANGED <<link, arrived, task, conn, got, lost>>
  BY DEF Sockets!ReadClosed
<1>2. SocketsTyped /\ Live /\ Line
  BY <1>1 DEF Good, AtRest
<1>3. uart \in Seq(Packet) /\ Len(uart) \in Nat /\ 1 \in 1 .. Len(uart) /\ uart[1] = Sockets!CloseLine
  BY <1>1, <1>2 DEF SocketsTyped
<1>4. Len(uart) = 1 /\ link = 0
  BY <1>3, <1>2 DEF Line
<1>5. uart' = <<>> /\ uart' \in Seq(Packet)
  BY <1>1, <1>3, <1>4
<1>6. sock' \in Sock /\ ~sock'.flags.used /\ Sockets!Available' = 0 /\ posts' \in Nat
  BY <1>1, <1>2, ClosedSock
<1>7. SocketsTyped'
  <2>1. Sockets!Idle \in Worker
    BY IdleIs
  <2>2. QED
    BY <1>1, <1>2, <1>5, <1>6, <2>1 DEF SocketsTyped
<1>8. AtRest'
  BY <1>1, <1>4, <1>5, <1>6, IdleIs DEF AtRest
<1>9. Sockets!ReceivedAsSent'
  BY <1>1, <1>6, DeliveredSame DEF Good
<1>10. task' # "created" /\ link' = 0
  BY <1>1, <1>2, <1>4 DEF Live
<1>11. QED
  BY <1>6, <1>7, <1>8, <1>9, <1>10 DEF Good, Live

(* The worker begins with a packet.                                        *)
LEMMA ReadIpdGood ==
  ASSUME SocketParameters, Good, Sockets!ReadIpd
  PROVE  Good'
<1>1. /\ worker.at = "idle" /\ uart # <<>> /\ Head(uart) # Sockets!CloseLine
      /\ uart' = Tail(uart)
      /\ worker' = [Sockets!Idle EXCEPT !.at = "packet", !.open = sock.flags.used,
                       !.conn = Head(uart).conn, !.byte = Head(uart).byte,
                       !.left = Head(uart).len]
      /\ UNCHANGED <<link, arrived, sock, task, posts, conn, got, lost>>
  BY DEF Sockets!ReadIpd, Sockets!user
<1>2. SocketsTyped /\ Live /\ Line /\ Hold /\ Kept /\ Awake /\ sock.flags.used
  BY <1>1 DEF Good, AtRest, Live
<1>3. /\ Line' /\ uart' \in Seq(Packet) /\ Head(uart) \in Packet
      /\ Head(uart).conn = conn /\ Head(uart).byte >= 1 /\ Head(uart).len >= 1
      /\ Starts(1) = Head(uart).byte
      /\ Starts(1)' = Head(uart).byte + Head(uart).len
  BY <1>1, <1>2, LineTail
<1>4. Head(uart).byte \in Nat /\ Head(uart).len \in Nat /\ Head(uart).conn \in Nat
  BY <1>3 DEF Packet
<1>5. /\ worker'.at = "packet" /\ worker'.open = sock.flags.used
      /\ worker'.conn = Head(uart).conn /\ worker'.byte = Head(uart).byte
      /\ worker'.left = Head(uart).len /\ worker'.size = 0 /\ worker'.next = 0
  BY <1>1 DEF Sockets!Idle
<1>6. worker' \in Worker
  <2>1. sock.flags.used \in BOOLEAN
    BY <1>2 DEF SocketsTyped, Sock
  <2>2. QED
    BY <1>1, <1>4, <2>1 DEF Sockets!Idle, Worker
<1>7. SocketsTyped' /\ Live'
  BY <1>1, <1>2, <1>3, <1>6 DEF SocketsTyped, Live
<1>8. Done' = Done
  BY <1>1, <1>3, <1>5 DEF Done
<1>9. Kept' /\ Sockets!Available' = Sockets!Available
  BY <1>1, <1>2, <1>8, KeptStays
<1>10. Hold'
  <2>1. worker'.byte + worker'.size + worker'.left = Starts(1)'
    BY <1>3, <1>4, <1>5
  <2>2. worker'.open /\ worker'.conn = conn' /\ worker'.byte >= 1
    BY <1>1, <1>2, <1>3, <1>5
  <2>3. worker'.size <= WorkerBuf /\ worker'.size + worker'.left >= 1
    BY <1>3, <1>4, <1>5 DEF SocketParameters
  <2>4. QED
    BY <1>5, <2>1, <2>2, <2>3 DEF Hold
<1>11. Awake'
  BY <1>1, <1>2, <1>5, <1>9 DEF Awake
<1>12. task' # "out" /\ (task' = "closing" => link' = 0)
  BY <1>1, <1>2 DEF Good, Live
<1>13. QED
  BY <1>3, <1>7, <1>9, <1>10, <1>11, <1>12, GoodLive

LEMMA LowLevelReadGood ==
  ASSUME SocketParameters, Good, Sockets!LowLevelRead
  PROVE  Good'
<1>1. /\ worker.at = "packet" /\ worker.size = 0
      /\ UNCHANGED <<link, arrived, uart, sock, task, posts, conn, got, lost>>
  BY DEF Sockets!LowLevelRead, Sockets!module, Sockets!user
<1>2. SocketsTyped /\ Live /\ Line /\ Hold /\ Kept /\ Awake
  BY <1>1 DEF Good, AtRest
<1>3. PICK n \in 1 .. Sockets!Min(worker.left, WorkerBuf) :
        worker' = [worker EXCEPT !.size = n, !.left = @ - n]
  BY ZenonT(60) DEF Sockets!LowLevelRead
<1>4. /\ worker \in Worker /\ worker.left \in Nat /\ worker.byte \in Nat
      /\ WorkerBuf \in Nat
  BY <1>2 DEF SocketsTyped, Worker, SocketParameters
<1>5. n \in Nat /\ n >= 1 /\ n <= worker.left /\ n <= WorkerBuf /\ worker.left - n \in Nat
  BY <1>3, <1>4 DEF Sockets!Min
<1>6. /\ worker'.at = "packet" /\ worker'.open = worker.open /\ worker'.conn = worker.conn
      /\ worker'.byte = worker.byte /\ worker'.left = worker.left - n /\ worker'.size = n
  BY <1>1, <1>3, <1>4 DEF Worker
<1>7. worker' \in Worker
  BY <1>3, <1>4, <1>5 DEF Worker
<1>8. SocketsTyped' /\ Live' /\ Line' /\ Starts(1)' = Starts(1)
  BY <1>1, <1>2, <1>7 DEF SocketsTyped, Live, Line, Starts, Sockets!CloseLine
<1>9. Done' = Done
  BY <1>1, <1>6 DEF Done
<1>10. Kept' /\ Sockets!Available' = Sockets!Available
  BY <1>1, <1>2, <1>9, KeptStays
<1>11. Hold'
  <2>1. /\ worker.open /\ worker.conn = conn /\ worker.byte >= 1
        /\ worker.byte + 0 + worker.left = Starts(1)
    BY <1>1, <1>2 DEF Hold
  <2>2. worker'.byte + worker'.size + worker'.left = Starts(1)'
    BY <1>4, <1>5, <1>6, <1>8, <2>1
  <2>3. worker'.size + worker'.left >= 1 /\ worker'.size <= WorkerBuf
    BY <1>4, <1>5, <1>6
  <2>4. QED
    BY <1>1, <1>6, <2>1, <2>2, <2>3 DEF Hold
<1>12. Awake'
  <2>1. ASSUME task = "waiting", ~(posts > 0) PROVE Sockets!Available + n <= WorkerBuf
    <3>1. Sockets!Available = 0
      BY <1>1, <1>2, <2>1 DEF Awake
    <3>2. QED
      BY <1>4, <1>5, <3>1
  <2>2. worker'.at = "packet" /\ worker'.size > 0 /\ worker'.size = n
    BY <1>5, <1>6
  <2>3. QED
    BY <1>1, <1>2, <1>10, <2>1, <2>2 DEF Awake
<1>13. task' # "out" /\ (task' = "closing" => link' = 0)
  BY <1>1, <1>2 DEF Good, Live
<1>14. QED
  BY <1>8, <1>10, <1>11, <1>12, <1>13, GoodLive

(* A packet is given up: what is left of it is lost.                       *)
LEMMA FailedReadGood ==
  ASSUME SocketParameters, Good, Sockets!FailedRead
  PROVE  Good'
<1>1. /\ worker.at = "packet" /\ worker.size = 0
      /\ worker' = [Sockets!Idle EXCEPT !.stray = TRUE]
      /\ lost' = lost \cup Sockets!Bytes(worker.byte, worker.left)
      /\ UNCHANGED <<link, arrived, uart, sock, task, posts, conn, got>>
  BY DEF Sockets!FailedRead, Sockets!module, Sockets!user
<1>2. SocketsTyped /\ Live /\ Line /\ Hold /\ Kept /\ Awake
  BY <1>1 DEF Good, AtRest
<1>3. worker.left \in Nat /\ worker.byte \in Nat
  BY <1>2 DEF SocketsTyped, Worker
<1>4. worker.byte >= 1 /\ worker.byte + 0 + worker.left = Starts(1)
  BY <1>1, <1>2 DEF Hold
<1>5. worker' \in Worker /\ worker'.at = "idle"
  BY <1>1 DEF Sockets!Idle, Worker
<1>6. SocketsTyped' /\ Live' /\ Line' /\ Starts(1)' = Starts(1)
  BY <1>1, <1>2, <1>5 DEF SocketsTyped, Live, Line, Starts, Sockets!CloseLine
<1>7. Done = worker.byte - 1 /\ Done \in Nat
  BY <1>1, <1>3, <1>4 DEF Done
<1>8. Done' = Done + worker.left
  <2>1. Done' = Starts(1) - 1
    BY <1>5, <1>6 DEF Done
  <2>2. QED
    BY <1>3, <1>4, <1>7, <2>1
<1>9. Sockets!Bytes(worker.byte, worker.left) = Done + 1 .. Done + worker.left
  <2>1. worker.byte = Done + 1 /\ worker.byte + worker.left - 1 = Done + worker.left
    BY <1>3, <1>7
  <2>2. QED
    BY <2>1 DEF Sockets!Bytes
<1>10. Kept' /\ Sockets!Available' = Sockets!Available
  BY <1>1, <1>2, <1>3, <1>7, <1>8, <1>9, CutKeeps
<1>11. Hold'
  BY <1>5 DEF Hold
<1>12. Awake'
  BY <1>1, <1>2, <1>5, <1>10 DEF Awake
<1>13. task' # "out" /\ (task' = "closing" => link' = 0)
  BY <1>1, <1>2 DEF Good, Live
<1>14. QED
  BY <1>6, <1>10, <1>11, <1>12, <1>13, GoodLive

(* The end of the line, taken for a part of such a rest.                   *)
LEMMA LastTaken ==
  ASSUME SocketsTyped, Line, uart # <<>>, Head(uart) = Sockets!CloseLine, uart' = Tail(uart),
         conn' = conn, arrived' = arrived, link' = link
  PROVE  Line' /\ uart' \in Seq(Packet) /\ Starts(1) = arrived + 1 /\ Starts(1)' = arrived + 1
<1>1. uart \in Seq(Packet) /\ Len(uart) \in Nat /\ 1 \in 1 .. Len(uart) /\ uart[1] = Sockets!CloseLine
  BY DEF SocketsTyped
<1>2. Len(uart) = 1 /\ conn # 0 /\ link \in {0, conn}
  BY <1>1 DEF Line
<1>3. uart' = <<>> /\ uart' \in Seq(Packet) /\ Len(uart') = 0
  BY <1>1, <1>2
<1>4. Line'
  <2>1. conn' # 0 /\ link' \in {0, conn'}
    BY <1>2
  <2>2. 1 .. Len(uart') = {}
    BY <1>3
  <2>3. QED
    BY <2>1, <2>2 DEF Line
<1>5. Starts(1) = arrived + 1
  BY <1>1 DEF Starts
<1>6. Starts(1)' = arrived + 1
  BY <1>3 DEF Starts
<1>7. QED
  BY <1>3, <1>4, <1>5, <1>6

LEMMA ReadAsTextGood ==
  ASSUME SocketParameters, Good, Sockets!ReadAsText
  PROVE  Good'
<1>1. /\ worker.at = "idle" /\ uart # <<>> /\ uart' = Tail(uart)
      /\ lost' = lost \cup Sockets!Bytes(Head(uart).byte, Head(uart).len)
      /\ worker' \in {Sockets!Idle, worker}
      /\ UNCHANGED <<link, arrived, sock, task, posts, conn, got>>
  BY DEF Sockets!ReadAsText, Sockets!user
<1>2. SocketsTyped /\ Live /\ Line /\ Hold /\ Kept /\ Awake
  BY <1>1 DEF Good, AtRest
<1>3. worker' \in Worker /\ worker'.at = "idle"
  BY <1>1, <1>2, IdleIs DEF SocketsTyped
<1>4. PICK m \in Nat : /\ Line' /\ uart' \in Seq(Packet) /\ Starts(1)' = Starts(1) + m
                       /\ Sockets!Bytes(Head(uart).byte, Head(uart).len) = Starts(1) .. Starts(1) + m - 1
  <2>1. CASE Head(uart) # Sockets!CloseLine
    <3>1. /\ Line' /\ uart' \in Seq(Packet) /\ Head(uart) \in Packet
          /\ Starts(1) = Head(uart).byte
          /\ Starts(1)' = Head(uart).byte + Head(uart).len
      BY <1>1, <1>2, <2>1, LineTail
    <3>2. Head(uart).len \in Nat
      BY <3>1 DEF Packet
    <3>3. QED
      BY <3>1, <3>2 DEF Sockets!Bytes
  <2>2. CASE Head(uart) = Sockets!CloseLine
    <3>1. Line' /\ uart' \in Seq(Packet) /\ Starts(1) = arrived + 1 /\ Starts(1)' = arrived + 1
      BY <1>1, <1>2, <2>2, LastTaken
    <3>2. arrived \in Nat
      BY <1>2 DEF SocketsTyped
    <3>3. Sockets!Bytes(Head(uart).byte, Head(uart).len) = {}
      BY <2>2 DEF Sockets!Bytes, Sockets!CloseLine
    <3>4. arrived + 1 + 0 = arrived + 1 /\ arrived + 1 .. arrived + 1 + 0 - 1 = {}
      BY <3>2
    <3>5. Starts(1)' = Starts(1) + 0 /\ Starts(1) .. Starts(1) + 0 - 1 = {}
      BY <3>1, <3>4
    <3>6. QED
      BY <3>1, <3>3, <3>5
  <2>3. QED
    BY <2>1, <2>2
<1>5. Starts(1) \in Nat /\ Starts(1) >= 1
  BY <1>2, StartsWithin
<1>6. Done = Starts(1) - 1 /\ Done \in Nat
  BY <1>1, <1>5 DEF Done
<1>7. Done' = Done + m
  <2>1. Done' = Starts(1)' - 1
    BY <1>3 DEF Done
  <2>2. QED
    BY <1>4, <1>5, <1>6, <2>1
<1>8. lost' = lost \cup (Done + 1 .. Done + m)
  <2>1. Starts(1) = Done + 1 /\ Starts(1) + m - 1 = Done + m
    BY <1>4, <1>5, <1>6
  <2>2. QED
    BY <1>1, <1>4, <2>1
<1>9. SocketsTyped' /\ Live'
  BY <1>1, <1>2, <1>3, <1>4 DEF SocketsTyped, Live
<1>10. Kept' /\ Sockets!Available' = Sockets!Available
  BY <1>1, <1>2, <1>6, <1>7, <1>8, CutKeeps
<1>11. Hold'
  BY <1>3 DEF Hold
<1>12. Awake'
  BY <1>1, <1>2, <1>3, <1>10 DEF Awake
<1>13. task' # "out" /\ (task' = "closing" => link' = 0)
  BY <1>1, <1>2 DEF Good, Live
<1>14. QED
  BY <1>4, <1>9, <1>10, <1>11, <1>12, <1>13, GoodLive

(* A reader that waits with no post to come finds room for what is read.   *)
LEMMA RoomForReader ==
  ASSUME SocketParameters, SocketsTyped, Hold, Awake, task = "waiting", ~(posts > 0),
         worker.at \in {"packet", "full"}, worker.size >= 1
  PROVE  /\ Sockets!Available + worker.size <= WorkerBuf /\ Sockets!Available < FifoSize - 1
         /\ Sockets!NextIn # sock.flags.outndx
<1>1. /\ Sockets!Available = Gap(sock.flags.inndx, sock.flags.outndx) /\ Sockets!Available \in Nat
      /\ sock.flags.inndx \in Spot /\ sock.flags.outndx \in Spot
      /\ worker.size \in Nat /\ WorkerBuf \in Nat /\ FifoSize \in Nat /\ WorkerBuf < FifoSize
  BY AvailableGap DEF SocketsTyped, Worker, SocketParameters
<1>2. worker.size <= WorkerBuf
  BY DEF Hold
<1>3. Sockets!Available + worker.size <= WorkerBuf
  BY <1>1, <1>2 DEF Awake
<1>4. Sockets!Available < FifoSize - 1
  BY <1>1, <1>3
<1>5. Sockets!NextIn = sock.flags.outndx => Sockets!Available = FifoSize - 1
  BY <1>1, GapMore DEF Sockets!NextIn
<1>6. QED
  BY <1>1, <1>3, <1>4, <1>5

(* The reader is awake when the worker is done with a byte.                *)
LEMMA StepWakes ==
  ASSUME SocketParameters, SocketsTyped, Hold, Awake, worker.at \in {"packet", "full"},
         worker.size >= 1, Sockets!Step, worker.open,
         task' = task, sock'.flags.sem = sock.flags.sem,
         \/ Sockets!Available' = Sockets!Available + 1
         \/ Sockets!Available' = Sockets!Available /\ (task = "waiting" => posts > 0),
         worker.size = 1 => worker'.at = "idle" \/ worker'.size = 0,
         worker.size # 1 => worker'.at = "packet" /\ worker'.size = worker.size - 1
  PROVE  posts' \in Nat /\ Awake'
<1>1. posts \in Nat /\ worker.size \in Nat /\ WorkerBuf \in Nat
  BY DEF SocketsTyped, Worker, SocketParameters
<1>2. posts' = IF worker.size = 1 THEN Sockets!Posted(posts) ELSE posts
  BY DEF Sockets!Step
<1>3. posts' \in Nat /\ (posts > 0 => posts' > 0)
  BY <1>1, <1>2 DEF Sockets!Posted
<1>4. ASSUME task = "waiting", ~(posts' > 0)
      PROVE  /\ worker'.at = "packet" /\ worker'.size > 0
             /\ Sockets!Available' + worker'.size <= WorkerBuf
  <2>1. ~(posts > 0) /\ sock.flags.sem
    BY <1>3, <1>4 DEF Awake
  <2>2. worker.size # 1
    BY <1>1, <1>2, <1>4, <2>1 DEF Sockets!Posted
  <2>3. Sockets!Available + worker.size <= WorkerBuf
    BY <1>4, <2>1, RoomForReader
  <2>4. Sockets!Available \in Nat /\ Sockets!Available' = Sockets!Available + 1
    BY <1>4, <2>1, AvailableGap
  <2>5. worker'.at = "packet" /\ worker'.size = worker.size - 1
    BY <2>2
  <2>6. worker'.size > 0
    BY <1>1, <2>2, <2>5
  <2>7. Sockets!Available' + worker'.size <= WorkerBuf
    BY <1>1, <2>3, <2>4, <2>5
  <2>8. QED
    BY <2>5, <2>6, <2>7
<1>5. Awake'
  BY <1>4 DEF Awake
<1>6. QED
  BY <1>3, <1>5

LEMMA StoreGood ==
  ASSUME SocketParameters, Good, worker.at \in {"packet", "full"}, worker.size >= 1,
         Sockets!Step, Sockets!Put(Sockets!NextIn), Sockets!NextIn # sock.flags.outndx,
         UNCHANGED <<link, arrived, uart, task, conn, got>>
  PROVE  Good'
<1>1. SocketsTyped /\ Live /\ Line /\ Hold /\ Kept /\ Awake
  BY DEF Good, AtRest
<1>2. Sockets!Onward
  BY DEF Sockets!Step
<1>3. /\ worker' \in Worker /\ Hold'
      /\ Done \in Nat /\ worker.byte = Done + 1 /\ Done' = Done + 1
      /\ worker.conn = conn /\ worker.open
      /\ worker.size = 1 => worker'.at = "idle" \/ worker'.size = 0
      /\ worker.size # 1 => worker'.at = "packet" /\ worker'.size = worker.size - 1
  BY <1>1, <1>2, OnwardHolds
<1>4. /\ Kept' /\ Sockets!Available' = Sockets!Available + 1 /\ sock' \in Sock
      /\ sock'.flags.used = sock.flags.used /\ sock'.flags.sem = sock.flags.sem
  BY <1>1, <1>3, PutKeeps
<1>5. posts' \in Nat /\ Awake'
  BY <1>1, <1>3, <1>4, StepWakes
<1>6. SocketsTyped' /\ Live' /\ Line'
  BY <1>1, <1>3, <1>4, <1>5 DEF SocketsTyped, Live, Line, Starts, Sockets!CloseLine
<1>7. task' # "out" /\ (task' = "closing" => link' = 0)
  BY <1>1 DEF Good, Live
<1>8. QED
  BY <1>3, <1>4, <1>5, <1>6, <1>7, GoodLive

LEMMA DropGood ==
  ASSUME SocketParameters, Good, worker.at = "full",
         Sockets!Step, worker.next = sock.flags.outndx,
         lost' = lost \cup {worker.byte},
         UNCHANGED <<sock, link, arrived, uart, task, conn, got>>
  PROVE  Good'
<1>1. SocketsTyped /\ Live /\ Line /\ Hold /\ Kept /\ Awake
  BY DEF Good, AtRest
<1>2. Sockets!Onward
  BY DEF Sockets!Step
<1>3. worker.size >= 1 /\ worker.next = Sockets!NextIn
  BY <1>1 DEF Hold
<1>4. /\ worker' \in Worker /\ Hold'
      /\ Done \in Nat /\ worker.byte = Done + 1 /\ Done' = Done + 1
      /\ worker.conn = conn /\ worker.open
      /\ worker.size = 1 => worker'.at = "idle" \/ worker'.size = 0
      /\ worker.size # 1 => worker'.at = "packet" /\ worker'.size = worker.size - 1
  BY <1>1, <1>2, <1>3, OnwardHolds
<1>5. Kept' /\ Sockets!Available' = Sockets!Available
  BY <1>1, <1>4, DropKeeps DEF Sockets!Available
<1>6. task = "waiting" => posts > 0
  BY <1>1, <1>3, RoomForReader
<1>7. posts' \in Nat /\ Awake'
  BY <1>1, <1>3, <1>4, <1>5, <1>6, StepWakes
<1>8. SocketsTyped' /\ Live' /\ Line'
  BY <1>1, <1>4, <1>7 DEF SocketsTyped, Live, Line, Starts, Sockets!CloseLine
<1>9. task' # "out" /\ (task' = "closing" => link' = 0)
  BY <1>1 DEF Good, Live
<1>10. QED
  BY <1>4, <1>5, <1>7, <1>8, <1>9, GoodLive

LEMMA ReadByteGood ==
  ASSUME SocketParameters, Good, Sockets!ReadByte
  PROVE  Good'
<1>1. /\ worker.at = "packet" /\ worker.size > 0
      /\ UNCHANGED <<link, arrived, uart, task, conn, got>>
  BY DEF Sockets!ReadByte, Sockets!module
<1>2. SocketsTyped /\ Live /\ Line /\ Hold /\ Kept /\ Awake
  BY <1>1 DEF Good, AtRest
<1>3. /\ worker \in Worker /\ worker.size \in Nat /\ worker.size >= 1 /\ worker.open
      /\ worker.next \in Nat
  BY <1>1, <1>2 DEF SocketsTyped, Worker, Hold
<1>4. CASE Sockets!NextIn # sock.flags.outndx
  <2>1. Sockets!Step /\ Sockets!Put(Sockets!NextIn)
    BY <1>1, <1>3, <1>4 DEF Sockets!ReadByte
  <2>2. QED
    BY <1>1, <1>3, <1>4, <2>1, StoreGood
<1>5. CASE Sockets!NextIn = sock.flags.outndx
  <2>1. /\ worker' = [worker EXCEPT !.at = "full", !.next = Sockets!NextIn]
        /\ UNCHANGED <<sock, posts, lost>>
    BY <1>1, <1>3, <1>5 DEF Sockets!ReadByte
  <2>2. Sockets!NextIn \in Nat
    BY <1>2, <1>5, AvailableGap
  <2>3. /\ worker' \in Worker /\ worker'.at = "full" /\ worker'.next = Sockets!NextIn
        /\ worker'.conn = worker.conn /\ worker'.byte = worker.byte
        /\ worker'.left = worker.left /\ worker'.size = worker.size
        /\ worker'.open = worker.open
    BY <1>3, <2>1, <2>2 DEF Worker
  <2>4. SocketsTyped' /\ Live' /\ Line' /\ Starts(1)' = Starts(1) /\ Sockets!NextIn' = Sockets!NextIn
    BY <1>1, <1>2, <2>1, <2>3 DEF SocketsTyped, Live, Line, Starts, Sockets!CloseLine, Sockets!NextIn
  <2>5. Done' = Done
    BY <1>1, <2>3 DEF Done
  <2>6. Kept' /\ Sockets!Available' = Sockets!Available
    BY <1>1, <1>2, <2>1, <2>5, KeptStays
  <2>7. Hold'
    BY <1>1, <1>2, <1>3, <2>3, <2>4 DEF Hold
  <2>8. task = "waiting" => posts > 0
    BY <1>1, <1>2, <1>3, <1>5, RoomForReader
  <2>9. Awake'
    BY <1>1, <1>2, <2>1, <2>8 DEF Awake
  <2>10. task' # "out" /\ (task' = "closing" => link' = 0)
    BY <1>1, <1>2 DEF Good, Live
  <2>11. QED
    BY <2>4, <2>6, <2>7, <2>9, <2>10, GoodLive
<1>6. QED
  BY <1>4, <1>5

LEMMA FullAgainGood ==
  ASSUME SocketParameters, Good, Sockets!FullAgain
  PROVE  Good'
<1>1. /\ worker.at = "full" /\ Sockets!Step
      /\ UNCHANGED <<link, arrived, uart, task, conn, got>>
  BY DEF Sockets!FullAgain, Sockets!module
<1>2. worker.size >= 1 /\ worker.next = Sockets!NextIn
  BY <1>1 DEF Good, AtRest, Hold
<1>3. CASE worker.next # sock.flags.outndx
  BY <1>1, <1>2, <1>3, StoreGood DEF Sockets!FullAgain
<1>4. CASE worker.next = sock.flags.outndx
  BY <1>1, <1>2, <1>4, DropGood DEF Sockets!FullAgain
<1>5. QED
  BY <1>3, <1>4

(* The user takes what there is.                                           *)
LEMMA TakesGood ==
  ASSUME SocketParameters, Good, Live, NEW len \in 1 .. RecvMax, Sockets!Taken(len),
         UNCHANGED <<link, arrived, uart, worker, conn, lost>>,
         posts' \in Nat, task' = "open"
  PROVE  Good'
<1>1. SocketsTyped /\ Line /\ Hold /\ Kept
  BY DEF Good
<1>2. Done' = Done /\ Starts(1)' = Starts(1)
  BY DEF Done, Starts, Sockets!CloseLine
<1>3. Done \in Nat
  BY <1>1, DoneWithin
<1>4. /\ Kept' /\ got' \in Seq(Nat \X Nat) /\ sock' \in Sock
      /\ sock'.flags.used = sock.flags.used
      /\ sock'.flags.inndx = sock.flags.inndx
  BY <1>1, <1>2, <1>3, TakenKeeps
<1>5. SocketsTyped' /\ Live' /\ Line' /\ Awake'
  BY <1>1, <1>4 DEF SocketsTyped, Live, Line, Starts, Sockets!CloseLine, Awake
<1>6. Hold'
  BY <1>1, <1>2, <1>4 DEF Hold, Sockets!NextIn
<1>7. QED
  BY <1>4, <1>5, <1>6, GoodLive

(* All but the flags of the reader stays as it is.                         *)
LEMMA FlagsGood ==
  ASSUME SocketParameters, Good, Live,
         UNCHANGED <<link, arrived, uart, worker, conn, got, lost>>,
         NEW flag \in BOOLEAN, sock' = [sock EXCEPT !.flags.sem = flag],
         posts' \in Nat, task' # "created", task' # "out", task' # "closing", Awake'
  PROVE  Good'
<1>1. SocketsTyped /\ Line /\ Hold /\ Kept
  BY DEF Good
<1>2. Done' = Done /\ Starts(1)' = Starts(1)
  BY DEF Done, Starts, Sockets!CloseLine
<1>3. /\ sock' \in Sock /\ sock'.fifo = sock.fifo /\ sock'.flags.used = sock.flags.used
      /\ sock'.flags.inndx = sock.flags.inndx /\ sock'.flags.outndx = sock.flags.outndx
  BY <1>1 DEF SocketsTyped, Sock
<1>4. Kept'
  BY <1>1, <1>2, <1>3, KeptStays
<1>5. SocketsTyped' /\ Live' /\ Line'
  BY <1>1, <1>3 DEF SocketsTyped, Live, Line, Starts, Sockets!CloseLine
<1>6. Hold'
  BY <1>1, <1>2, <1>3 DEF Hold, Sockets!NextIn
<1>7. QED
  BY <1>4, <1>5, <1>6, GoodLive

LEMMA RecvGood ==
  ASSUME SocketParameters, Good, Sockets!Recv
  PROVE  Good'
<1>1. /\ task = "open" /\ Sockets!Unlocked
      /\ UNCHANGED <<link, arrived, uart, worker, conn, lost>>
  BY DEF Sockets!Recv, Sockets!module
<1>2. CASE ~sock.flags.used
  <2>1. task' = "out" /\ UNCHANGED <<sock, posts, got>>
    BY <1>2 DEF Sockets!Recv
  <2>2. SocketsTyped /\ AtRest /\ Sockets!ReceivedAsSent
    BY <1>2 DEF Good, Live
  <2>3. SocketsTyped' /\ AtRest'
    BY <1>1, <2>1, <2>2 DEF SocketsTyped, AtRest, Sockets!Available
  <2>4. Sockets!ReceivedAsSent'
    BY <1>1, <2>1, <2>2, DeliveredSame
  <2>5. QED
    BY <1>2, <2>1, <2>3, <2>4 DEF Good, Live
<1>3. CASE sock.flags.used /\ Sockets!Available > 0
  <2>1. (\E len \in 1 .. RecvMax : Sockets!Taken(len)) /\ UNCHANGED <<task, posts>>
    <3>1. Sockets!Available # 0
      BY <1>3, AvailableGap DEF Good
    <3>2. QED
      BY <1>3, <3>1 DEF Sockets!Recv
  <2>2. Live /\ posts' \in Nat
    BY <1>1, <1>3, <2>1 DEF Live, Good, SocketsTyped
  <2>3. QED
    BY <1>1, <2>1, <2>2, TakesGood
<1>4. CASE sock.flags.used /\ Sockets!Available = 0
  <2>1. sock' = [sock EXCEPT !.flags.sem = TRUE] /\ posts' = 0 /\ task' = "waiting"
        /\ UNCHANGED got
    BY <1>4 DEF Sockets!Recv
  <2>2. Live /\ SocketsTyped
    BY <1>1, <1>4 DEF Live, Good
  <2>3. /\ sock'.flags.sem /\ sock'.flags.inndx = sock.flags.inndx
        /\ sock'.flags.outndx = sock.flags.outndx
    BY <2>1, <2>2 DEF SocketsTyped, Sock
  <2>4. Sockets!Available' = 0
    BY <1>4, <2>3 DEF Sockets!Available
  <2>5. Awake'
    BY <1>1, <2>3, <2>4 DEF Awake, Sockets!Unlocked
  <2>6. QED
    BY <1>1, <2>1, <2>2, <2>5, FlagsGood
<1>5. Sockets!Available \in Nat /\ sock.flags.used \in BOOLEAN
  BY AvailableGap DEF Good, SocketsTyped, Sock
<1>6. QED
  BY <1>2, <1>3, <1>4, <1>5

LEMMA RecvWakesGood ==
  ASSUME SocketParameters, Good, Sockets!RecvWakes
  PROVE  Good'
<1>1. /\ task = "waiting" /\ Sockets!Unlocked /\ posts > 0 /\ posts' = posts - 1
      /\ UNCHANGED <<link, arrived, uart, worker, conn, lost>>
  BY DEF Sockets!RecvWakes, Sockets!module
<1>2. SocketsTyped /\ posts \in Nat /\ posts' \in Nat /\ Sockets!ReceivedAsSent
  BY <1>1 DEF Good, SocketsTyped
<1>3. CASE Sockets!Available # 0
  <2>1. task' = "open" /\ \E len \in 1 .. RecvMax : Sockets!Taken(len)
    BY <1>3 DEF Sockets!RecvWakes
  <2>2. Live
    BY <1>3 DEF Good, AtRest
  <2>3. QED
    BY <1>1, <1>2, <2>1, <2>2, TakesGood
<1>4. CASE Sockets!Available = 0
  <2>1. UNCHANGED <<task, sock, got>>
    BY <1>4 DEF Sockets!RecvWakes
  <2>2. Sockets!Available' = 0 /\ SocketsTyped'
    BY <1>1, <1>2, <1>4, <2>1 DEF SocketsTyped, Sockets!Available
  <2>3. CASE Live
    <3>1. Line /\ Hold /\ Kept /\ Awake
      BY <2>3 DEF Good
    <3>2. Done' = Done /\ Starts(1)' = Starts(1)
      BY <1>1 DEF Done, Starts, Sockets!CloseLine
    <3>3. Kept'
      BY <1>1, <2>1, <3>1, <3>2, KeptStays
    <3>4. Line' /\ Hold' /\ Live'
      BY <1>1, <2>1, <2>3, <3>1, <3>2 DEF Line, Hold, Sockets!NextIn, Live, Starts, Sockets!CloseLine
    <3>5. Awake'
      BY <1>1, <2>1, <2>2, <3>1 DEF Awake, Sockets!Unlocked
    <3>6. QED
      BY <1>1, <2>1, <2>2, <3>3, <3>4, <3>5, GoodLive
  <2>4. CASE ~Live
    <3>1. AtRest' /\ ~Live'
      BY <1>1, <2>1, <2>2, <2>4 DEF Good, AtRest, Live
    <3>2. Sockets!ReceivedAsSent'
      BY <1>1, <1>2, <2>1, DeliveredSame
    <3>3. QED
      BY <1>1, <2>1, <2>2, <3>1, <3>2 DEF Good
  <2>5. QED
    BY <2>3, <2>4
<1>5. QED
  BY <1>3, <1>4

LEMMA RecvTimeoutGood ==
  ASSUME SocketParameters, Good, Sockets!RecvTimeout
  PROVE  Good'
<1>1. /\ task = "waiting" /\ sock' = [sock EXCEPT !.flags.sem = FALSE] /\ task' = "open"
      /\ UNCHANGED <<link, arrived, uart, worker, posts, conn, got, lost>>
  BY DEF Sockets!RecvTimeout, Sockets!module
<1>2. SocketsTyped /\ posts' \in Nat /\ Sockets!ReceivedAsSent
  BY <1>1 DEF Good, SocketsTyped
<1>3. CASE Live
  BY <1>1, <1>2, <1>3, FlagsGood DEF Awake
<1>4. CASE ~Live
  <2>1. /\ sock' \in Sock /\ sock'.flags.used = sock.flags.used
        /\ sock'.flags.inndx = sock.flags.inndx /\ sock'.flags.outndx = sock.flags.outndx
    BY <1>1, <1>2 DEF SocketsTyped, Sock
  <2>2. SocketsTyped' /\ AtRest' /\ ~sock'.flags.used
    BY <1>1, <1>2, <1>4, <2>1 DEF SocketsTyped, AtRest, Sockets!Available, Good, Live
  <2>3. Sockets!ReceivedAsSent'
    BY <1>1, <1>2, <2>2, DeliveredSame
  <2>4. QED
    BY <1>1, <2>2, <2>3 DEF Good, Live
<1>5. QED
  BY <1>3, <1>4

LEMMA AskCloseGood ==
  ASSUME SocketParameters, Good, Sockets!AskClose
  PROVE  Good'
<1>1. task = "open" /\ UNCHANGED <<arrived, worker, sock, posts, conn, got, lost>>
  BY DEF Sockets!AskClose
<1>2. SocketsTyped /\ Sockets!ReceivedAsSent
  BY DEF Good
<1>3. CASE sock.flags.used /\ link # 0
  BY <1>1, <1>3, LineCloses DEF Sockets!AskClose
<1>4. CASE sock.flags.used /\ link = 0
  <2>1. task' = "closing" /\ link' = 0 /\ uart' = uart
    BY <1>4 DEF Sockets!AskClose
  <2>2. Live /\ Line /\ Hold /\ Kept /\ Live'
    BY <1>1, <1>4, <2>1 DEF Good, Live
  <2>3. Done' = Done /\ Starts(1)' = Starts(1)
    BY <1>1, <2>1 DEF Done, Starts, Sockets!CloseLine
  <2>4. Kept'
    BY <1>1, <2>2, <2>3, KeptStays
  <2>5. SocketsTyped' /\ Line' /\ Hold' /\ Awake'
    BY <1>1, <1>2, <1>4, <2>1, <2>2, <2>3
    DEF SocketsTyped, Line, Hold, Awake, Sockets!NextIn, Starts, Sockets!CloseLine
  <2>6. QED
    BY <2>1, <2>2, <2>4, <2>5, GoodLive
<1>5. CASE ~sock.flags.used
  <2>1. task' = "out" /\ UNCHANGED <<link, uart>>
    BY <1>5 DEF Sockets!AskClose
  <2>2. SocketsTyped' /\ AtRest'
    BY <1>1, <1>2, <1>5, <2>1 DEF SocketsTyped, AtRest, Sockets!Available, Good, Live
  <2>3. Sockets!ReceivedAsSent'
    BY <1>1, <1>2, <2>1, DeliveredSame
  <2>4. QED
    BY <1>1, <1>5, <2>1, <2>2, <2>3 DEF Good, Live
<1>6. QED
  BY <1>3, <1>4, <1>5

(* The close that was not late leaves nothing behind.                      *)
LEMMA CloseSocketGood ==
  ASSUME SocketParameters, Good, Sockets!CloseSocket, ~late'
  PROVE  Good'
<1>1. /\ task = "closing" /\ Sockets!SetSockClosed /\ task' = "out" /\ Sockets!Quiet
      /\ UNCHANGED <<link, arrived, uart, worker, conn, got, lost>>
  BY ZenonT(60) DEF Sockets!CloseSocket, Sockets!module
<1>2. SocketsTyped /\ Sockets!ReceivedAsSent /\ link = 0
  BY <1>1 DEF Good
<1>3. sock' \in Sock /\ ~sock'.flags.used /\ Sockets!Available' = 0 /\ posts' \in Nat
  BY <1>1, <1>2, ClosedSock
<1>4. SocketsTyped' /\ AtRest'
  BY <1>1, <1>2, <1>3 DEF SocketsTyped, AtRest, Sockets!Quiet
<1>5. Sockets!ReceivedAsSent'
  BY <1>1, <1>2, DeliveredSame
<1>6. QED
  BY <1>1, <1>3, <1>4, <1>5 DEF Good, Live

LEMMA SocketGood ==
  ASSUME SocketParameters, Good, Sockets!Socket
  PROVE  Good'
<1>1. /\ task = "out" /\ sock' = [sock EXCEPT !.flags.used = TRUE]
      /\ task' = "created" /\ conn' = conn + 1 /\ got' = <<>> /\ lost' = {}
      /\ UNCHANGED <<link, arrived, uart, worker, posts>>
  BY DEF Sockets!Socket, Sockets!module
<1>2. SocketsTyped /\ AtRest /\ conn \in Nat
  BY <1>1 DEF Good, Live, SocketsTyped
<1>3. /\ sock' \in Sock /\ sock'.flags.used
      /\ sock'.flags.inndx = sock.flags.inndx /\ sock'.flags.outndx = sock.flags.outndx
  BY <1>1, <1>2 DEF SocketsTyped, Sock
<1>4. SocketsTyped' /\ AtRest' /\ conn' # 0
  BY <1>1, <1>2, <1>3 DEF SocketsTyped, AtRest, Sockets!Available
<1>5. Sockets!ReceivedAsSent'
  BY <1>1 DEF Sockets!ReceivedAsSent
<1>6. QED
  BY <1>1, <1>3, <1>4, <1>5 DEF Good, Live

LEMMA ConnectGood ==
  ASSUME SocketParameters, Good, Sockets!Connect
  PROVE  Good'
<1>1. /\ task = "created" /\ sock.flags.used /\ got = <<>> /\ lost = {} /\ conn # 0
      /\ link' = conn /\ arrived' = 0 /\ task' = "open"
      /\ UNCHANGED <<uart, worker, sock, posts, conn, got, lost>>
  BY DEF Sockets!Connect, Good
<1>2. SocketsTyped /\ AtRest
  BY <1>1 DEF Good, Live
<1>3. SocketsTyped' /\ Live'
  BY <1>1, <1>2 DEF SocketsTyped, Live
<1>4. Sockets!Available' = 0 /\ Len(got') = 0 /\ Total' = 0
  BY <1>1, <1>2 DEF AtRest, Sockets!Available, Total
<1>5. Done' = 0
  BY <1>1, <1>2 DEF Done, Starts, AtRest
<1>6. KeptOf(Held', 0, 0, conn', {})
  BY DEF KeptOf
<1>7. Kept'
  BY <1>1, <1>4, <1>5, <1>6 DEF Kept
<1>8. Line' /\ Hold' /\ Awake'
  BY <1>1, <1>2 DEF AtRest, Line, Hold, Awake
<1>9. QED
  BY <1>1, <1>3, <1>7, <1>8, GoodLive

(* Until a close has timed out, what is promised holds with all that it    *)
(* rests on.                                                               *)
SocketsSafe == late \in BOOLEAN /\ (~late => Good)

LEMMA SocketsBegin ==
  ASSUME SocketParameters, Sockets!EspInit
  PROVE  SocketsSafe
<1>1. 0 \in Spot
  BY DEF SocketParameters, Spot
<1>2. sock = [fifo |-> [i \in Spot |-> <<0, 0>>], flags |-> Sockets!Closed]
  BY DEF Sockets!EspInit, Spot
<1>3. sock \in Sock /\ ~sock.flags.used /\ Sockets!Available = 0
  BY <1>1, <1>2 DEF Sock, Sockets!Closed, Sockets!Available
<1>4. SocketsTyped
  BY <1>3 DEF Sockets!EspInit, SocketsTyped, Sockets!Idle, Worker
<1>5. AtRest
  BY <1>3 DEF Sockets!EspInit, AtRest, Sockets!Idle
<1>6. Sockets!ReceivedAsSent
  BY <1>3 DEF Sockets!EspInit, Sockets!ReceivedAsSent
<1>7. QED
  BY <1>3, <1>4, <1>5, <1>6 DEF Sockets!EspInit, Good, Live, SocketsSafe

LEMMA SocketsStep ==
  ASSUME SocketParameters, SocketsSafe, [Sockets!EspNext]_(Sockets!espVars)
  PROVE  SocketsSafe'
<1>1. CASE UNCHANGED Sockets!espVars
  <2>1. UNCHANGED <<link, arrived, uart, worker, sock, task, posts, conn, got, lost, late>>
    BY <1>1 DEF Sockets!espVars, Sockets!module, Sockets!user
  <2>2. QED
    BY <2>1 DEF SocketsSafe, Good, SocketsTyped, AtRest, Live, Line, Hold, Kept, Awake, Done, Starts,
      Total, Held, Sockets!Available, Sockets!NextIn, Sockets!CloseLine, Sockets!ReceivedAsSent, Sockets!Missing, Sockets!Quiet
<1>2. CASE Sockets!EspNext
  <2>1. late' \in BOOLEAN
    <3>1. late' = late \/ late' = (late \/ ~Sockets!Quiet)
      BY <1>2, ZenonT(60) DEF Sockets!EspNext, Sockets!Work, Sockets!Receives, Sockets!PeerCloses, Sockets!ReadClosed, Sockets!ReadIpd, Sockets!LowLevelRead, Sockets!FailedRead, Sockets!ReadAsText,
        Sockets!ReadByte, Sockets!FullAgain, Sockets!Socket, Sockets!Connect, Sockets!Recv, Sockets!RecvWakes, Sockets!RecvTimeout, Sockets!AskClose, Sockets!CloseSocket
    <3>2. QED
      BY <3>1, ZenonT(60) DEF SocketsSafe
  <2>2. ASSUME ~late' PROVE Good'
    <3>1. ~late
      BY <1>2, <2>2, ZenonT(60) DEF Sockets!EspNext, Sockets!Work, Sockets!Receives, Sockets!PeerCloses, Sockets!ReadClosed, Sockets!ReadIpd, Sockets!LowLevelRead, Sockets!FailedRead, Sockets!ReadAsText,
        Sockets!ReadByte, Sockets!FullAgain, Sockets!Socket, Sockets!Connect, Sockets!Recv, Sockets!RecvWakes, Sockets!RecvTimeout, Sockets!AskClose, Sockets!CloseSocket
    <3>2. Good
      BY <3>1 DEF SocketsSafe
    <3>3. CASE (\E n \in 1 .. MaxBytes : Sockets!Receives(n)) \/ Sockets!PeerCloses
      BY <3>2, <3>3, ReceivesGood, PeerClosesGood
    <3>4. CASE Sockets!Work
      BY <3>2, <3>4, ReadClosedGood, ReadIpdGood, LowLevelReadGood, FailedReadGood, ReadAsTextGood, ReadByteGood, FullAgainGood
      DEF Sockets!Work
    <3>5. CASE Sockets!Socket \/ Sockets!Connect
      BY <3>2, <3>5, SocketGood, ConnectGood
    <3>6. CASE Sockets!Recv \/ Sockets!RecvWakes \/ Sockets!RecvTimeout
      BY <3>2, <3>6, RecvGood, RecvWakesGood, RecvTimeoutGood
    <3>7. CASE Sockets!AskClose \/ Sockets!CloseSocket
      BY <2>2, <3>2, <3>7, AskCloseGood, CloseSocketGood
    <3>8. QED
      BY <1>2, <3>3, <3>4, <3>5, <3>6, <3>7 DEF Sockets!EspNext
  <2>3. QED
    BY <2>1, <2>2 DEF SocketsSafe
<1>3. QED
  BY <1>1, <1>2

LEMMA SafeReads ==
  ASSUME SocketParameters, SocketsSafe
  PROVE  SocketReads
<1>1. ASSUME ~late PROVE Sockets!ReceivedAsSent /\ Sockets!NoSleepOverData
  <2>1. Good
    BY <1>1 DEF SocketsSafe
  <2>2. ASSUME task = "waiting", Sockets!Unlocked, sock.flags.used, Sockets!Available > 0
        PROVE  posts > 0
    <3>1. Awake /\ Sockets!Available # 0
      BY <2>1, <2>2, AvailableGap DEF Good, Live
    <3>2. QED
      BY <2>2, <3>1 DEF Awake, Sockets!Unlocked
  <2>3. QED
    BY <2>1, <2>2 DEF Good, Sockets!NoSleepOverData
<1>2. QED
  BY <1>1 DEF SocketReads, Sockets!SocketReads

(* However often a socket is opened, whatever its FIFO holds, whenever the *)
(* peer closes and wherever the worker is cut off in a packet: its user    *)
(* reads, in order, what the worker has read for it and does not sleep     *)
(* over it, unless a close has timed out (esp8266.c).                      *)
THEOREM SocketsRead ==
  ASSUME SocketParameters
  PROVE  SocketsSpec => []SocketReads
<1>1. Sockets!EspInit => SocketsSafe
  BY SocketsBegin
<1>2. SocketsSafe /\ [Sockets!EspNext]_(Sockets!espVars) => SocketsSafe'
  BY SocketsStep
<1>3. SocketsSafe => SocketReads
  BY SafeReads
<1>4. QED
  BY <1>1, <1>2, <1>3, PTL DEF SocketsSpec

----------------------------------------------------------------------------
(* One wheel between the chassis and its motor driver.  The four bytes of  *)
(* a number say it up to whole turns of a counter of four bytes; so do the *)
(* speed understood and the encoder, with the sign of the mounting, which  *)
(* is the same on the way out and back.                                    *)
WheelSpec == Wheel!WheelInit /\ [][Wheel!WheelNext]_(Wheel!wheelVars)

WheelParameters == Base \in Nat \ {0} /\ Speeds \subseteq Int

(* Numbers that differ by whole turns of the counter.                      *)
Alike(x, y) == \E k \in Int : x = y + k * Wheel!Width

LEMMA WidthIs ==
  ASSUME WheelParameters
  PROVE  Base \in Nat /\ Base >= 1 /\ Wheel!Width \in Nat /\ Wheel!Width >= 1
<1>1. Base \in Nat /\ Base >= 1
  BY DEF WheelParameters
<1>2. Base * Base \in Nat /\ Base * Base >= 1
  BY <1>1
<1>3. Base * Base * Base \in Nat /\ Base * Base * Base >= 1
  BY <1>1, <1>2
<1>4. Base * Base * Base * Base \in Nat /\ Base * Base * Base * Base >= 1
  BY <1>1, <1>3
<1>5. QED
  BY <1>1, <1>4 DEF Wheel!Width

LEMMA Divided ==
  ASSUME NEW x \in Int, NEW n \in Nat \ {0}
  PROVE  /\ x % n \in Nat /\ x % n < n /\ x \div n \in Int
         /\ x = n * (x \div n) + (x % n)
OBVIOUS

LEMMA NoMultiple ==
  ASSUME NEW n \in Nat \ {0}, NEW k \in Int, NEW d \in Int, d = k * n, -n < d, d < n
  PROVE  k = 0
<1>1. CASE k >= 1
  <2>1. k * n >= n
    BY <1>1
  <2>2. QED
    BY <2>1
<1>2. CASE k <= -1
  <2>1. k * n <= -n
    BY <1>2
  <2>2. QED
    BY <2>1
<1>3. QED
  BY <1>1, <1>2

(* Quotient and remainder are those of no other pair.                      *)
LEMMA OneQuotient ==
  ASSUME NEW x \in Int, NEW n \in Nat \ {0}, NEW q \in Int, NEW r \in Nat,
         r < n, x = n * q + r
  PROVE  x \div n = q /\ x % n = r
<1>1. /\ x % n \in Nat /\ x % n < n /\ x \div n \in Int
      /\ x = n * (x \div n) + (x % n)
  BY Divided
<1> DEFINE d == x \div n
           m == x % n
<1>2. d \in Int /\ m \in Nat /\ m < n /\ n * d + m = n * q + r
  BY <1>1
<1> HIDE DEF d, m
<1>3. n * d - n * q = (d - q) * n
  BY <1>2
<1>4. r - m = (d - q) * n /\ d - q \in Int
  BY <1>2, <1>3
<1>5. r - m \in Int /\ -n < r - m /\ r - m < n
  BY <1>2
<1>6. d - q = 0
  BY <1>4, <1>5, NoMultiple
<1>7. d = q /\ m = r
  BY <1>2, <1>6
<1>8. QED
  BY <1>7 DEF d, m

LEMMA TwiceDivided ==
  ASSUME NEW x \in Int, NEW n \in Nat \ {0}, NEW b \in Nat \ {0}
  PROVE  (x \div n) \div b = x \div (n * b)
<1> DEFINE p == x \div n
           r == x % n
           q == p \div b
           s == p % b
<1>1. p \in Int /\ r \in Nat /\ r < n /\ x = n * p + r
  BY Divided
<1>2. q \in Int /\ s \in Nat /\ s < b /\ p = b * q + s
  BY <1>1, Divided
<1> HIDE DEF p, r, q, s
<1>3. n * p = n * b * q + n * s
  <2>1. n * (b * q + s) = n * b * q + n * s
    BY <1>2
  <2>2. QED
    BY <1>2, <2>1
<1>4. n * s \in Nat /\ n * s <= n * (b - 1)
  <2>1. s <= b - 1 /\ b - 1 \in Nat /\ n \in Nat
    BY <1>2
  <2>2. QED
    BY <1>2, <2>1
<1>5. n * (b - 1) = n * b - n /\ n * b \in Nat /\ n * b >= 1
  OBVIOUS
<1>6. n * s + r \in Nat /\ n * s + r < n * b
  BY <1>1, <1>4, <1>5
<1>7. x = (n * b) * q + (n * s + r)
  BY <1>1, <1>2, <1>3
<1>8. n * b \in Nat \ {0}
  BY <1>5
<1>9. x \div (n * b) = q
  BY <1>2, <1>6, <1>7, <1>8, OneQuotient
<1>10. QED
  BY <1>9 DEF p, q
(* The bytes of a number.                                                  *)
LEMMA BytesAre ==
  ASSUME WheelParameters, NEW v \in Int, NEW a, NEW b, NEW c, NEW d,
         a = v \div Base, b = v \div (Base * Base),
         c = v \div (Base * Base * Base), d = v \div Wheel!Width
  PROVE  /\ a \in Int /\ b \in Int /\ c \in Int /\ d \in Int
         /\ v = Base * a + Wheel!Bytes(v)[1] /\ a = Base * b + Wheel!Bytes(v)[2]
         /\ b = Base * c + Wheel!Bytes(v)[3] /\ c = Base * d + Wheel!Bytes(v)[4]
         /\ v % Wheel!Width = v - Wheel!Width * d
         /\ \A k \in 1 .. 4 : Wheel!Bytes(v)[k] \in Nat /\ Wheel!Bytes(v)[k] < Base
<1>1. /\ Base \in Nat \ {0} /\ Base * Base \in Nat \ {0}
      /\ Base * Base * Base \in Nat \ {0} /\ Wheel!Width \in Nat \ {0}
  <2>1. Base \in Nat \ {0}
    BY DEF WheelParameters
  <2>2. Base * Base \in Nat \ {0}
    BY <2>1
  <2>3. Base * Base * Base \in Nat \ {0}
    BY <2>1, <2>2
  <2>4. QED
    BY <2>1, <2>2, <2>3, WidthIs
<1>2. a \in Int /\ b \in Int /\ c \in Int /\ d \in Int
  BY <1>1, Divided
<1>3. a \div Base = b /\ b \div Base = c /\ c \div Base = d
  BY <1>1, TwiceDivided DEF Wheel!Width
<1>4. /\ Wheel!Bytes(v)[1] = v % Base /\ Wheel!Bytes(v)[2] = a % Base
      /\ Wheel!Bytes(v)[3] = b % Base /\ Wheel!Bytes(v)[4] = c % Base
  <2>1. v \div 1 = v
    OBVIOUS
  <2>2. QED
    BY <2>1 DEF Wheel!Bytes
<1>5. /\ v = Base * a + (v % Base) /\ a = Base * (a \div Base) + (a % Base)
      /\ b = Base * (b \div Base) + (b % Base) /\ c = Base * (c \div Base) + (c % Base)
  BY <1>1, <1>2, Divided
<1>6. v % Wheel!Width = v - Wheel!Width * d
  <2>1. v % Wheel!Width \in Nat /\ d \in Int /\ v = Wheel!Width * d + (v % Wheel!Width)
    BY <1>1, Divided
  <2>2. QED
    BY <1>1, <2>1
<1>7. /\ v % Base \in Nat /\ v % Base < Base /\ a % Base \in Nat /\ a % Base < Base
      /\ b % Base \in Nat /\ b % Base < Base /\ c % Base \in Nat /\ c % Base < Base
  BY <1>1, <1>2, Divided
<1>8. ASSUME NEW k \in 1 .. 4 PROVE Wheel!Bytes(v)[k] \in Nat /\ Wheel!Bytes(v)[k] < Base
  <2>1. k = 1 \/ k = 2 \/ k = 3 \/ k = 4
    OBVIOUS
  <2>2. QED
    BY <1>4, <1>7, <2>1
<1>9. /\ v = Base * a + Wheel!Bytes(v)[1] /\ a = Base * b + Wheel!Bytes(v)[2]
      /\ b = Base * c + Wheel!Bytes(v)[3] /\ c = Base * d + Wheel!Bytes(v)[4]
  BY <1>3, <1>4, <1>5
<1>10. QED
  BY <1>2, <1>6, <1>8, <1>9

(* The driver's reading of the bytes, and the board's.                     *)
LEMMA Together ==
  ASSUME NEW n \in Nat, NEW v \in Int, NEW a \in Int, NEW b \in Int, NEW c \in Int,
         NEW d \in Int, NEW e1 \in Int, NEW e2 \in Int, NEW e3 \in Int, NEW e4 \in Int,
         v = n * a + e1, a = n * b + e2, b = n * c + e3, c = n * d + e4
  PROVE  e1 + n * (e2 + n * (e3 + n * e4)) = v - n * n * n * n * d
<1>1. e3 + n * e4 = b - n * n * d
  <2>1. n * e4 = n * c - n * (n * d)
    <3>1. e4 = c - n * d
      OBVIOUS
    <3>2. n * (c - n * d) = n * c - n * (n * d)
      OBVIOUS
    <3>3. QED
      BY <3>1, <3>2
  <2>2. QED
    BY <2>1
<1>2. e2 + n * (e3 + n * e4) = a - n * n * n * d
  <2>1. n * (b - n * n * d) = n * b - n * n * n * d
    OBVIOUS
  <2>2. QED
    BY <1>1, <2>1
<1>3. n * (a - n * n * n * d) = n * a - n * n * n * n * d
  OBVIOUS
<1>4. QED
  BY <1>2, <1>3

LEMMA DownIs ==
  ASSUME NEW n \in Nat \ {0}, NEW x \in Int, NEW y \in Nat, y < n, NEW z \in Int
  PROVE  (n * x + y) \div n = x
<1>1. n * x + y \in Int
  OBVIOUS
<1>2. QED
  BY <1>1, OneQuotient

LEMMA ReadBack ==
  ASSUME WheelParameters, NEW v \in Int
  PROVE  /\ Wheel!Value(Wheel!Bytes(v)) = v % Wheel!Width
         /\ Wheel!Bytes(v)[1] + Base * (Wheel!Bytes(v)[2] + Base * (Wheel!Bytes(v)[3] + Base * Wheel!Bytes(v)[4]))
              = v % Wheel!Width
<1> DEFINE e1 == Wheel!Bytes(v)[1]
           e2 == Wheel!Bytes(v)[2]
           e3 == Wheel!Bytes(v)[3]
           e4 == Wheel!Bytes(v)[4]
           a == v \div Base
           b == v \div (Base * Base)
           c == v \div (Base * Base * Base)
           d == v \div Wheel!Width
<1>1. /\ a \in Int /\ b \in Int /\ c \in Int /\ d \in Int
      /\ v = Base * a + e1 /\ a = Base * b + e2 /\ b = Base * c + e3 /\ c = Base * d + e4
      /\ v % Wheel!Width = v - Wheel!Width * d
      /\ \A k \in 1 .. 4 : Wheel!Bytes(v)[k] \in Nat /\ Wheel!Bytes(v)[k] < Base
  BY BytesAre
<1>2. Base \in Nat \ {0} /\ Base \in Nat /\ Wheel!Width = Base * Base * Base * Base
  BY DEF WheelParameters, Wheel!Width
<1>3. e1 \in Nat /\ e2 \in Nat /\ e3 \in Nat /\ e4 \in Nat
  BY <1>1
<1> HIDE DEF a, b, c, d, e1, e2, e3, e4
<1>4. e1 + Base * (e2 + Base * (e3 + Base * e4)) = v - Base * Base * Base * Base * d
  <2>1. e1 \in Int /\ e2 \in Int /\ e3 \in Int /\ e4 \in Int
    BY <1>3
  <2>2. QED
    BY <1>1, <1>2, <2>1, Together
<1>5. e1 + Base * (e2 + Base * (e3 + Base * e4)) = v % Wheel!Width
  BY <1>1, <1>2, <1>4
<1>6. Wheel!Value(Wheel!Bytes(v)) = e1 + Base * (e2 + Base * (e3 + Base * e4))
  <2> DEFINE B3 == Base * Base * Base
             t1 == (0 \div Base) + e1 * Base * Base * Base
             t2 == (t1 \div Base) + e2 * Base * Base * Base
             t3 == (t2 \div Base) + e3 * Base * Base * Base
             t4 == (t3 \div Base) + e4 * Base * Base * Base
  <2>1. Wheel!Value(Wheel!Bytes(v)) = t4
    BY DEF Wheel!Value, e1, e2, e3, e4
  <2>2. t1 = Base * (Base * (Base * e1))
    <3>1. 0 \div Base = 0
      BY <1>2
    <3>2. e1 * Base * Base * Base = Base * (Base * (Base * e1))
      BY <1>2, <1>3
    <3>3. QED
      BY <1>2, <1>3, <3>1, <3>2
  <2>3. t2 = Base * (Base * (e1 + Base * e2))
    <3>1. t1 \div Base = Base * (Base * e1)
      <4>1. Base * (Base * e1) \in Int /\ t1 = Base * (Base * (Base * e1)) + 0
        BY <1>2, <1>3, <2>2
      <4>2. QED
        BY <1>2, <4>1, OneQuotient
    <3>2. Base * (Base * e1) + e2 * Base * Base * Base = Base * (Base * (e1 + Base * e2))
      BY <1>2, <1>3
    <3>3. QED
      BY <3>1, <3>2
  <2>4. t3 = Base * (e1 + Base * (e2 + Base * e3))
    <3>1. t2 \div Base = Base * (e1 + Base * e2)
      <4>1. Base * (e1 + Base * e2) \in Int /\ t2 = Base * (Base * (e1 + Base * e2)) + 0
        BY <1>2, <1>3, <2>3
      <4>2. QED
        BY <1>2, <4>1, OneQuotient
    <3>2. Base * (e1 + Base * e2) + e3 * Base * Base * Base
            = Base * (e1 + Base * (e2 + Base * e3))
      BY <1>2, <1>3
    <3>3. QED
      BY <3>1, <3>2
  <2>5. t4 = e1 + Base * (e2 + Base * (e3 + Base * e4))
    <3>1. t3 \div Base = e1 + Base * (e2 + Base * e3)
      <4>1. e1 + Base * (e2 + Base * e3) \in Int
            /\ t3 = Base * (e1 + Base * (e2 + Base * e3)) + 0
        BY <1>2, <1>3, <2>4
      <4>2. QED
        BY <1>2, <4>1, OneQuotient
    <3>2. e1 + Base * (e2 + Base * e3) + e4 * Base * Base * Base
            = e1 + Base * (e2 + Base * (e3 + Base * e4))
      BY <1>2, <1>3
    <3>3. QED
      BY <3>1, <3>2
  <2>6. QED
    BY <2>1, <2>5
<1>7. QED
  BY <1>5, <1>6 DEF e1, e2, e3, e4

(* Remainders are alike, and what is alike has one remainder.              *)
LEMMA AlikeSelf ==
  ASSUME WheelParameters, NEW x \in Int
  PROVE  Alike(x, x) /\ x % Wheel!Width \in Int /\ Alike(x % Wheel!Width, x)
<1>1. Wheel!Width \in Nat \ {0}
  BY WidthIs
<1>2. x % Wheel!Width \in Int /\ x \div Wheel!Width \in Int /\ x = Wheel!Width * (x \div Wheel!Width) + (x % Wheel!Width)
  BY <1>1, Divided
<1> DEFINE m == x % Wheel!Width
           q == x \div Wheel!Width
<1>3. m \in Int /\ q \in Int /\ x = Wheel!Width * q + m
  BY <1>2
<1> HIDE DEF m, q
<1>4. x = x + 0 * Wheel!Width /\ m = x + (-q) * Wheel!Width /\ -q \in Int
  BY <1>1, <1>3
<1>5. Alike(x, x) /\ Alike(m, x)
  BY <1>4 DEF Alike
<1>6. QED
  BY <1>2, <1>5 DEF m

LEMMA AlikeThrough ==
  ASSUME WheelParameters, NEW x \in Int, NEW y \in Int, NEW z \in Int,
         Alike(x, y), Alike(y, z)
  PROVE  Alike(x, z)
<1>1. Wheel!Width \in Int
  BY WidthIs
<1>2. PICK j \in Int : x = y + j * Wheel!Width
  BY DEF Alike
<1>3. PICK k \in Int : y = z + k * Wheel!Width
  BY DEF Alike
<1>4. x = z + (j + k) * Wheel!Width /\ j + k \in Int
  BY <1>1, <1>2, <1>3
<1>5. QED
  BY <1>4 DEF Alike

LEMMA AlikeSum ==
  ASSUME WheelParameters, NEW x \in Int, NEW y \in Int, NEW w \in Int, NEW z \in Int,
         Alike(x, y), Alike(w, z)
  PROVE  Alike(x + w, y + z)
<1>1. Wheel!Width \in Int
  BY WidthIs
<1>2. PICK j \in Int : x = y + j * Wheel!Width
  BY DEF Alike
<1>3. PICK k \in Int : w = z + k * Wheel!Width
  BY DEF Alike
<1>4. x + w = (y + z) + (j + k) * Wheel!Width /\ j + k \in Int
  BY <1>1, <1>2, <1>3
<1>5. QED
  BY <1>4 DEF Alike

LEMMA AlikeTurned ==
  ASSUME WheelParameters, NEW x \in Int, NEW y \in Int, NEW s \in {1, -1}, Alike(x, y)
  PROVE  s * x \in Int /\ s * y \in Int /\ Alike(s * x, s * y) /\ s * (s * x) = x
<1>1. Wheel!Width \in Int
  BY WidthIs
<1>2. PICK k \in Int : x = y + k * Wheel!Width
  BY DEF Alike
<1>3. CASE s = 1
  BY <1>3
<1>4. CASE s = -1
  <2>1. -x = (-y) + (-k) * Wheel!Width /\ -k \in Int
    BY <1>1, <1>2
  <2>2. Alike(-x, -y)
    BY <2>1 DEF Alike
  <2>3. (-1) * x = -x /\ (-1) * y = -y /\ (-1) * (-x) = x
    OBVIOUS
  <2>4. QED
    BY <1>4, <2>2, <2>3
<1>5. QED
  BY <1>3, <1>4

LEMMA AlikeBack ==
  ASSUME WheelParameters, NEW x \in Int, NEW y \in Int, Alike(x, y)
  PROVE  Alike(y, x)
<1>1. Wheel!Width \in Int
  BY WidthIs
<1>2. PICK k \in Int : x = y + k * Wheel!Width
  BY DEF Alike
<1>3. y = x + (-k) * Wheel!Width /\ -k \in Int
  BY <1>1, <1>2
<1>4. QED
  BY <1>3 DEF Alike

LEMMA OneRemainder ==
  ASSUME WheelParameters, NEW x \in Int, NEW y \in Nat, y < Wheel!Width, Alike(x, y)
  PROVE  x % Wheel!Width = y
<1>1. Wheel!Width \in Nat \ {0}
  BY WidthIs
<1>2. PICK k \in Int : x = y + k * Wheel!Width
  BY DEF Alike
<1>3. x = Wheel!Width * k + y
  BY <1>1, <1>2
<1>4. QED
  BY <1>1, <1>3, OneQuotient

LEMMA SignedIs ==
  ASSUME WheelParameters, NEW n \in Int
  PROVE  Wheel!Signed(n) \in Int /\ Alike(Wheel!Signed(n), n)
<1>1. Wheel!Width \in Int
  BY WidthIs
<1>2. n % Wheel!Width \in Int /\ Alike(n % Wheel!Width, n)
  BY AlikeSelf
<1>3. (n % Wheel!Width) - Wheel!Width \in Int /\ Alike((n % Wheel!Width) - Wheel!Width, n % Wheel!Width)
  <2> DEFINE m == n % Wheel!Width
  <2>1. m \in Int
    BY <1>2
  <2> HIDE DEF m
  <2>2. m - Wheel!Width \in Int /\ m - Wheel!Width = m + (-1) * Wheel!Width
    BY <1>1, <2>1
  <2>3. Alike(m - Wheel!Width, m)
    BY <2>2 DEF Alike
  <2>4. QED
    BY <2>2, <2>3 DEF m
<1>4. Alike((n % Wheel!Width) - Wheel!Width, n)
  BY <1>2, <1>3, AlikeThrough
<1>5. QED
  BY <1>2, <1>3, <1>4 DEF Wheel!Signed

(* What the driver takes for the speed is the number sent, and what the    *)
(* board takes for the position is the encoder's.                          *)
LEMMA SpeedTaken ==
  ASSUME WheelParameters, NEW x \in Int, NEW kind
  PROVE  /\ Wheel!Understood(Wheel!Frame(kind, Wheel!Bytes(x))) \in Int
         /\ Alike(Wheel!Understood(Wheel!Frame(kind, Wheel!Bytes(x))), x)
<1>1. x % Wheel!Width \in Int /\ Alike(x % Wheel!Width, x)
  BY AlikeSelf
<1>2. Wheel!Understood(Wheel!Frame(kind, Wheel!Bytes(x))) = Wheel!Signed(x % Wheel!Width)
  <2>1. Wheel!Frame(kind, Wheel!Bytes(x)).data = Wheel!Bytes(x)
    BY DEF Wheel!Frame
  <2>2. QED
    BY <2>1, ReadBack DEF Wheel!Understood
<1>3. Wheel!Signed(x % Wheel!Width) \in Int /\ Alike(Wheel!Signed(x % Wheel!Width), x % Wheel!Width)
  BY <1>1, SignedIs
<1>4. QED
  BY <1>1, <1>2, <1>3, AlikeThrough

LEMMA PositionTaken ==
  ASSUME WheelParameters, NEW x \in Int
  PROVE  Wheel!Signed(Wheel!Value(Wheel!Bytes(x))) \in Int /\ Alike(Wheel!Signed(Wheel!Value(Wheel!Bytes(x))), x)
<1>1. x % Wheel!Width \in Int /\ Alike(x % Wheel!Width, x)
  BY AlikeSelf
<1>2. Wheel!Signed(x % Wheel!Width) \in Int /\ Alike(Wheel!Signed(x % Wheel!Width), x % Wheel!Width)
  BY <1>1, SignedIs
<1>3. QED
  BY <1>1, <1>2, ReadBack, AlikeThrough

(* A wheel that may be fitted.                                             *)
WheelFitted == fitted.wheels \in 2 .. 4 /\ fitted.inverse \in {1, -1}

(* The signs on the way out are those on the way back.                     *)
LEMMA OneSign ==
  ASSUME WheelFitted
  PROVE  Wheel!VelocitySign \in {1, -1} /\ Wheel!PositionSign = Wheel!VelocitySign
<1>1. fitted.wheels = 2 \/ fitted.wheels = 3 \/ fitted.wheels = 4
  BY DEF WheelFitted
<1>2. fitted.inverse = 1 \/ fitted.inverse = -1
  BY DEF WheelFitted
<1>3. QED
  BY <1>1, <1>2 DEF Wheel!VelocitySign, Wheel!PositionSign

(* The target and the encoder keep, up to whole turns of the counter, to   *)
(* the speed commanded and to the way.                                     *)
WheelTurnsRight ==
  /\ WheelFitted
  /\ commanded \in Int /\ target \in Int /\ Alike(target, Wheel!VelocitySign * commanded)
  /\ position \in Int /\ travelled \in Nat /\ travelled < Wheel!Width
  /\ Alike(position, Wheel!VelocitySign * travelled)

LEMMA WheelStarts == WheelParameters /\ Wheel!WheelInit => WheelTurnsRight
<1> SUFFICES ASSUME WheelParameters, Wheel!WheelInit PROVE WheelTurnsRight
  OBVIOUS
<1>1. WheelFitted
  <2>1. PICK n \in 2 .. 4 : \E i \in 0 .. n - 1, inverse \in {1, -1},
          brand \in {"Copley", "CopleyPosition", "JingZhi"} :
        fitted = [wheels |-> n, index |-> i, inverse |-> inverse, brand |-> brand]
    BY DEF Wheel!WheelInit
  <2>2. PICK i \in 0 .. n - 1, inverse \in {1, -1},
          brand \in {"Copley", "CopleyPosition", "JingZhi"} :
        fitted = [wheels |-> n, index |-> i, inverse |-> inverse, brand |-> brand]
    BY <2>1
  <2>3. QED
    BY <2>2 DEF WheelFitted
<1>2. Wheel!VelocitySign \in {1, -1}
  BY <1>1, OneSign
<1>3. commanded = 0 /\ target = 0 /\ position = 0 /\ travelled = 0
  BY DEF Wheel!WheelInit
<1>4. Wheel!VelocitySign * 0 = 0 /\ Alike(0, 0)
  BY <1>2, AlikeSelf
<1>5. Wheel!Width >= 1 /\ Wheel!Width \in Nat
  BY WidthIs
<1>6. QED
  BY <1>1, <1>3, <1>4, <1>5 DEF WheelTurnsRight

LEMMA RoundedIs == ASSUME NEW h \in Int PROVE Wheel!Rounded(h) \in Int
BY DEF Wheel!Rounded

LEMMA WheelStep ==
  ASSUME WheelParameters, WheelTurnsRight, [Wheel!WheelNext]_(Wheel!wheelVars)
  PROVE  WheelTurnsRight'
<1> USE DEF WheelTurnsRight
<1>1. Wheel!VelocitySign \in {1, -1}
  BY OneSign
<1>2. CASE Wheel!Turn
  <2>1. /\ position' = (position + target) % Wheel!Width
        /\ travelled' = (travelled + commanded) % Wheel!Width
        /\ fitted' = fitted /\ commanded' = commanded /\ target' = target
    BY <1>2 DEF Wheel!Turn
  <2>2. WheelFitted' /\ Wheel!VelocitySign' = Wheel!VelocitySign
    BY <2>1 DEF WheelFitted, Wheel!VelocitySign
  <2> DEFINE s == Wheel!VelocitySign
  <2>3. /\ position + target \in Int /\ travelled + commanded \in Int
        /\ s * travelled \in Int /\ s * commanded \in Int
    BY <1>1
  <2>4. Alike(position + target, s * travelled + s * commanded)
    BY <2>3, AlikeSum
  <2>5. s * travelled + s * commanded = s * (travelled + commanded)
    BY <1>1
  <2>6. /\ position' \in Int /\ Alike(position', position + target)
        /\ travelled' \in Int /\ Alike(travelled', travelled + commanded)
    BY <2>1, <2>3, AlikeSelf
  <2>7. travelled' \in Nat /\ travelled' < Wheel!Width
    BY <2>1, <2>3, WidthIs, Divided
  <2>8. Alike(travelled + commanded, travelled')
    BY <2>3, <2>6, AlikeBack
  <2>9. /\ s * (travelled + commanded) \in Int /\ s * travelled' \in Int
        /\ Alike(s * (travelled + commanded), s * travelled')
    BY <1>1, <2>3, <2>6, <2>8, AlikeTurned
  <2>10. Alike(position', s * (travelled + commanded))
    BY <2>3, <2>4, <2>5, <2>6, <2>9, AlikeThrough
  <2>11. Alike(position', s * travelled')
    BY <2>3, <2>6, <2>9, <2>10, AlikeThrough
  <2>12. Alike(target', Wheel!VelocitySign' * commanded')
    BY <2>1, <2>2
  <2> HIDE DEF s
  <2>13. QED
    BY <2>1, <2>2, <2>6, <2>7, <2>11, <2>12 DEF s
<1>3. ASSUME NEW halves \in Speeds, Wheel!SetVelocities(halves) PROVE WheelTurnsRight'
  <2> DEFINE r == Wheel!Rounded(halves)
             w == Wheel!VelocitySign * r
             kind == IF fitted.brand = "CopleyPosition" THEN "set 60FF" ELSE "set 2341"
  <2>1. /\ commanded' = r
        /\ target' = Wheel!Understood(Wheel!Encode("speed", Wheel!Signed(w)))
        /\ fitted' = fitted /\ position' = position /\ travelled' = travelled
    BY <1>3 DEF Wheel!SetVelocities
  <2>2. WheelFitted' /\ Wheel!VelocitySign' = Wheel!VelocitySign
    BY <2>1 DEF WheelFitted, Wheel!VelocitySign
  <2>3. halves \in Int
    BY DEF WheelParameters
  <2>4. r \in Int /\ w \in Int
    BY <1>1, <2>3, RoundedIs
  <2>5. Wheel!Encode("speed", Wheel!Signed(w)) = Wheel!Frame(kind, Wheel!Bytes(Wheel!Signed(w)))
    BY DEF Wheel!Encode
  <2> HIDE DEF r, kind
  <2>6. Wheel!Signed(w) \in Int /\ Alike(Wheel!Signed(w), w)
    BY <2>4, SignedIs
  <2>7. target' \in Int /\ Alike(target', Wheel!Signed(w))
    BY <2>1, <2>5, <2>6, SpeedTaken
  <2>8. Alike(target', w)
    BY <2>4, <2>6, <2>7, AlikeThrough
  <2>9. Alike(position', Wheel!VelocitySign' * travelled')
    BY <2>1, <2>2
  <2>10. QED
    BY <2>1, <2>2, <2>4, <2>7, <2>8, <2>9
<1>4. CASE UNCHANGED Wheel!wheelVars
  BY <1>4 DEF Wheel!wheelVars, WheelFitted, Wheel!VelocitySign
<1>5. QED
  BY <1>2, <1>3, <1>4 DEF Wheel!WheelNext

LEMMA WheelMeasures ==
  ASSUME WheelParameters, WheelTurnsRight PROVE WheelsUnderstood
<1> USE DEF WheelTurnsRight
<1> DEFINE answer(cmd) == Wheel!Decode(Wheel!Answer(Wheel!Encode(cmd, commanded)), 0)
           val == Wheel!Signed(Wheel!Value(Wheel!Bytes(position)))
<1>1. answer("position") = [ct |-> "position", val |-> val, ok |-> TRUE]
  <2>1. Wheel!Encode("position", commanded) = Wheel!Frame("read 6064", Wheel!Zeros)
    BY DEF Wheel!Encode
  <2>2. Wheel!Answer(Wheel!Frame("read 6064", Wheel!Zeros)) = Wheel!Frame("is 6064", Wheel!Bytes(position))
    BY DEF Wheel!Answer, Wheel!Frame
  <2> DEFINE f == Wheel!Frame("is 6064", Wheel!Bytes(position))
  <2>3. f.kind = "is 6064" /\ f.data = Wheel!Bytes(position)
    BY DEF Wheel!Frame
  <2>4. f # Wheel!Frame("done 2341", Wheel!Zeros) /\ f # Wheel!Frame("done 60FF", Wheel!Zeros)
    <3>1. Wheel!Frame("done 2341", Wheel!Zeros).kind = "done 2341"
          /\ Wheel!Frame("done 60FF", Wheel!Zeros).kind = "done 60FF"
      BY DEF Wheel!Frame
    <3> HIDE DEF f
    <3>2. QED
      BY <2>3, <3>1, ZenonT(60)
  <2> HIDE DEF f
  <2>5. Wheel!Decode(f, 0) = [ct |-> "position", val |-> Wheel!Signed(Wheel!Value(f.data)), ok |-> TRUE]
    BY <2>3, <2>4, ZenonT(60) DEF Wheel!Decode
  <2>6. QED
    BY <2>1, <2>2, <2>3, <2>5, ZenonT(60) DEF f
<1>2. answer("speed").ct # "position"
  <2> DEFINE kind == IF fitted.brand = "CopleyPosition" THEN "set 60FF" ELSE "set 2341"
             f == Wheel!Answer(Wheel!Frame(kind, Wheel!Bytes(commanded)))
  <2>1. Wheel!Encode("speed", commanded) = Wheel!Frame(kind, Wheel!Bytes(commanded))
    BY DEF Wheel!Encode
  <2>2. f = Wheel!Frame("done 2341", Wheel!Zeros) \/ f = Wheel!Frame("done 60FF", Wheel!Zeros)
    BY ZenonT(60) DEF Wheel!Answer, Wheel!Frame
  <2>3. answer("speed") = Wheel!Decode(f, 0)
    BY <2>1, ZenonT(60)
  <2> HIDE DEF f
  <2>4. f.kind # "is 6064" /\ f.kind # "is 1002"
    <3>1. Wheel!Frame("done 2341", Wheel!Zeros).kind = "done 2341"
          /\ Wheel!Frame("done 60FF", Wheel!Zeros).kind = "done 60FF"
      BY DEF Wheel!Frame
    <3>2. f.kind = "done 2341" \/ f.kind = "done 60FF"
      BY <2>2, <3>1, ZenonT(60)
    <3>3. QED
      BY <3>2, ZenonT(60)
  <2>5. Wheel!Decode(f, 0).ct # "position"
    BY <2>4, ZenonT(60) DEF Wheel!Decode
  <2>6. QED
    BY <2>3, <2>5
<1>3. answer("state").ct # "position"
  <2> DEFINE f == Wheel!Answer(Wheel!Frame("read 1002", Wheel!Zeros))
  <2>1. Wheel!Encode("state", commanded) = Wheel!Frame("read 1002", Wheel!Zeros)
    BY DEF Wheel!Encode
  <2>2. f = Wheel!Frame("is 1002", Wheel!Bytes(0))
    BY DEF Wheel!Answer, Wheel!Frame
  <2>3. answer("state") = Wheel!Decode(f, 0)
    BY <2>1, ZenonT(60)
  <2> HIDE DEF f
  <2>4. f.kind = "is 1002"
    BY <2>2, ZenonT(60) DEF Wheel!Frame
  <2>5. Wheel!Decode(f, 0).ct # "position"
    BY <2>4, ZenonT(60) DEF Wheel!Decode
  <2>6. QED
    BY <2>3, <2>5
<1>4. (Wheel!PositionSign * val) % Wheel!Width = travelled
  <2> DEFINE s == Wheel!VelocitySign
  <2>1. s \in {1, -1} /\ Wheel!PositionSign = s
    BY OneSign
  <2>2. val \in Int /\ Alike(val, position)
    BY PositionTaken
  <2> HIDE DEF val
  <2>3. s * travelled \in Int /\ travelled \in Int /\ Alike(position, s * travelled)
    BY <2>1
  <2> HIDE DEF s
  <2>4. Alike(val, s * travelled)
    BY <2>2, <2>3, AlikeThrough
  <2>5. s * val \in Int /\ Alike(s * val, s * (s * travelled))
    BY <2>1, <2>2, <2>3, <2>4, AlikeTurned
  <2>6. s * (s * travelled) = travelled
    BY <2>1, <2>3
  <2>7. (s * val) % Wheel!Width = travelled
    BY <2>5, <2>6, OneRemainder
  <2>8. QED
    BY <2>1, <2>7
<1> HIDE DEF val
<1>5. QED
  BY <1>1, <1>2, <1>3, <1>4 DEF WheelsUnderstood, Wheel!MeasuredAsCommanded

(* For every number of values of a byte and all speeds: however a wheel is *)
(* mounted and whichever CANopen driver it has, what is measured is what   *)
(* was commanded, across each wrap of the encoder (Mileage.cxx).           *)
THEOREM WheelsMeasureWell ==
  WheelParameters => (WheelSpec => []WheelsUnderstood)
<1> SUFFICES ASSUME WheelParameters
             PROVE  WheelSpec => []WheelsUnderstood
  OBVIOUS
<1>1. Wheel!WheelInit => WheelTurnsRight
  BY WheelStarts
<1>2. WheelTurnsRight /\ [Wheel!WheelNext]_(Wheel!wheelVars) => WheelTurnsRight'
  BY WheelStep
<1>3. WheelTurnsRight => WheelsUnderstood
  BY WheelMeasures
<1>4. QED
  BY <1>1, <1>2, <1>3, PTL DEF WheelSpec

=============================================================================
