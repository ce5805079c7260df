---------------------------- MODULE TelnetStream ----------------------------
(***************************************************************************)
(* The byte stream of the telnet library, src/netutils/telnetc: what the   *)
(* sending functions make of data, commands and subnegotiations, and the   *)
(* receiving state machine (_process), which is handed the stream in       *)
(* pieces of any size.  Built without zlib, as HAVE_ZLIB leaves it.        *)
(*                                                                         *)
(* A byte is named for what the protocol makes of it: "x" has no meaning   *)
(* of its own, "OPT" and "COMPRESS" are option codes, "WILL" stands for    *)
(* the four negotiation commands and "NOP" for the plain ones.             *)
(***************************************************************************)
EXTENDS Integers, Sequences, SequencesExt

CONSTANTS
  MaxOps,     \* calls of the sending application
  MaxData,    \* bytes in one call
  BufferMax   \* the last of _buffer_sizes

VARIABLES
  line,       \* bytes sent and not yet received
  said,       \* what the sending application has said, event by event
  ops,        \* its calls so far
  rx          \* the receiving state tracker and the events it has raised

streamVars == <<line, said, ops, rx>>

Data(bytes)     == [k \in DOMAIN bytes |-> [ev |-> "data", arg |-> <<bytes[k]>>]]
Event(ev, arg)  == <<[ev |-> ev, arg |-> arg]>>

Texts == UNION {[1 .. n -> {"x", "IAC"}] : n \in 0 .. MaxData}
Lines == UNION {[1 .. n -> {"x", "CR", "LF"}] : n \in 1 .. MaxData}

StreamInit ==
  /\ line = <<>>
  /\ said = <<>>
  /\ ops = 0
  /\ rx = [state |-> "data", telopt |-> "OPT", buffer |-> <<>>,
           start |-> 0, heard |-> <<>>, misread |-> FALSE]

----------------------------------------------------------------------------
(* Sending.                                                                *)

(* telnet_send doubles IAC; telnet_printf also makes CR NUL of a CR and    *)
(* CR LF of a LF.                                                          *)
Escaped(b) == IF b = "IAC" THEN <<"IAC", "IAC">> ELSE <<b>>

Flat(pieces) ==
  LET flat[k \in 0 .. Len(pieces)] ==
        IF k = 0 THEN <<>> ELSE flat[k - 1] \o pieces[k]
  IN  flat[Len(pieces)]

Escape(text) == Flat([k \in DOMAIN text |-> Escaped(text[k])])

Translated(b) ==
  CASE b = "CR" -> <<"CR", "NUL">>
    [] b = "LF" -> <<"CR", "LF">>
    [] OTHER    -> Escaped(b)

Translate(text) == Flat([k \in DOMAIN text |-> Translated(text[k])])

Call(bytes, events) ==
  /\ ops < MaxOps
  /\ ops' = ops + 1
  /\ line' = line \o bytes
  /\ said' = said \o events
  /\ UNCHANGED rx

TelnetSend(text) == Call(Escape(text), Data(text))

TelnetPrintf(text) == Call(Translate(text), Data(Translate(text)))

TelnetIac == Call(<<"IAC", "NOP">>, Event("iac", <<"NOP">>))

SendNegotiate == Call(<<"IAC", "WILL", "OPT">>, Event("negotiate", <<"OPT">>))

TelnetSubnegotiation(text) ==
  Call(<<"IAC", "SB", "OPT">> \o Escape(text) \o <<"IAC", "SE">>,
       Event("sub", text))

(* The library answers a negotiation while its application is between      *)
(* telnet_begin_sb and telnet_finish_sb: the receiver ends the             *)
(* subnegotiation there, and the late IAC SE is a command of its own.      *)
SubnegotiationCutShort(text) ==
  Call(<<"IAC", "SB", "OPT">> \o Escape(text)
         \o <<"IAC", "WILL", "OPT">> \o <<"IAC", "SE">>,
       Event("sub", text) \o Event("negotiate", <<"OPT">>)
         \o Event("iac", <<"SE">>))

(* A server of 1998 starts compression; the receiver discards the sequence.*)
MccpV1 == Call(<<"IAC", "SB", "COMPRESS", "WILL", "SE">>, <<>>)

----------------------------------------------------------------------------
(* Receiving: one byte, the i-th (from 0) of the piece.                    *)

Raise(r, events) == [r EXCEPT !.heard = @ \o events]
Resume(r, i)     == [r EXCEPT !.state = "data", !.start = i + 1]
Goto(r, state)   == [r EXCEPT !.state = state]

(* The bytes from start up to i.  After the MCCP sequence start can lie    *)
(* beyond the end of the piece, and the size wraps.                        *)
PassThrough(r, piece, i) ==
  IF i >= r.start THEN Raise(r, Data(SubSeq(piece, r.start + 1, i)))
                  ELSE [r EXCEPT !.misread = TRUE]

(* _buffer_byte.  A byte that finds the buffer at its largest ends the     *)
(* subnegotiation, and its rest will be taken for data.                    *)
BufferByte(r, b, i) ==
  IF Len(r.buffer) < BufferMax
    THEN Goto([r EXCEPT !.buffer = Append(@, b)], "sbData")
    ELSE Resume([r EXCEPT !.misread = TRUE], i)

IacByte(r, b, i) ==
  CASE b = "SB"   -> Goto(r, "sb")
    [] b = "WILL" -> Goto(r, "negotiate")
    [] b = "IAC"  -> Resume(Raise(r, Data(<<b>>)), i)
    [] OTHER      -> Resume(Raise(r, Event("iac", <<b>>)), i)

SbDataByte(r, b, i) ==
  CASE b = "IAC" -> Goto(r, "sbDataIac")
    [] b = "WILL" /\ r.telopt = "COMPRESS" -> Resume(r, i + 1)
    [] OTHER -> BufferByte(r, b, i)

SbDataIacByte(r, b, i) ==
  LET done == Resume(Raise(r, Event("sub", r.buffer)), i) IN
  CASE b = "SE"  -> done
    [] b = "IAC" -> BufferByte(r, b, i)
    [] OTHER     -> IacByte(done, b, i)

StaleSbByte(r, b) == Goto([r EXCEPT !.telopt = b], "sbData")

SbByte(r, b) == Goto([r EXCEPT !.telopt = b, !.buffer = <<>>], "sbData")

ProcessByte(r, piece, i) ==
  LET b == piece[i + 1] IN
  CASE r.state = "data" ->
         IF b = "IAC" THEN Goto(PassThrough(r, piece, i), "iac") ELSE r
    [] r.state = "iac"       -> IacByte(r, b, i)
    [] r.state = "negotiate" -> Resume(Raise(r, Event("negotiate", <<b>>)), i)
    [] r.state = "sb"        -> SbByte(r, b)
    [] r.state = "sbData"    -> SbDataByte(r, b, i)
    [] r.state = "sbDataIac" -> SbDataIacByte(r, b, i)

(* The tracker after 0, 1, ... bytes of the piece.                         *)
Trackers(r, piece) ==
  LET after[k \in 0 .. Len(piece)] ==
        IF k = 0 THEN r ELSE ProcessByte(after[k - 1], piece, k - 1)
  IN  after

(* telnet_recv of the next n bytes of the connection.                      *)
Process(r, piece) ==
  LET n   == Len(piece)
      end == Trackers([r EXCEPT !.start = 0], piece)[n]
  IN  IF end.state = "data" THEN PassThrough(end, piece, n) ELSE end

TelnetRecv(n) ==
  /\ n <= Len(line)
  /\ rx' = [Process(rx, SubSeq(line, 1, n)) EXCEPT !.start = 0]
  /\ line' = SubSeq(line, n + 1, Len(line))
  /\ UNCHANGED <<said, ops>>

StreamNext ==
  \/ \E text \in Texts :
       \/ TelnetSend(text)
       \/ TelnetSubnegotiation(text)
       \/ SubnegotiationCutShort(text)
  \/ \E text \in Lines : TelnetPrintf(text)
  \/ TelnetIac \/ SendNegotiate \/ MccpV1
  \/ \E n \in 1 .. Len(line) : TelnetRecv(n)

StreamSpec == StreamInit /\ [][StreamNext]_streamVars

----------------------------------------------------------------------------
(* Properties.                                                             *)

(* Whatever pieces the connection delivers, the receiver raises exactly    *)
(* the events that were said, in order, and once everything has arrived    *)
(* all of them.  Two inputs are beyond it: a subnegotiation longer than    *)
(* the buffer, and an MCCPv1 sequence split before its last byte.          *)
StreamFaithful ==
  ~rx.misread => /\ IsPrefix(rx.heard, said)
                 /\ line = <<>> => rx.heard = said

============================================================================
