------------------------------ MODULE Protobuf ------------------------------
(***************************************************************************)
(* Protocol buffers on the board: pb_decode and pb_encode of               *)
(* src/protobuffer, as its messages use them: proto3, static fields, and   *)
(* callbacks that nobody sets.  A host, which may know more fields, writes *)
(* the records of a message in any order; a datagram brings a beginning of *)
(* them; the board decodes it, and encodes what it has decoded.            *)
(*                                                                         *)
(* Numbers are scaled down: a byte has 3 bits, two of them in a varint;    *)
(* int32 has 7 bits, int64 has 9, a fixed32 has 2 bytes, a fixed64 has 4.  *)
(***************************************************************************)
EXTENDS Integers, Sequences, SequencesExt, TLC

CONSTANTS
  MaxRecords      \* records in a message of the host

VARIABLES
  sent,           \* the records that the host has written
  cut,            \* the bytes of them that the datagram has brought, or -1
  held            \* the board's message, and whether it was decoded

pbVars == <<sent, cut, held>>

Digit  == 4
Byte   == 2 * Digit
Bits32 == 7
Bits64 == 9

(* Wire types.                                                             *)
Varint == 0
Bits64Wire == 1
Bytes  == 2
Bits32Wire == 5

(* A field: its type, how often it occurs, how much room it has.           *)
Field(ltype, label, room) == [ltype |-> ltype, label |-> label, room |-> room]

Schema ==
  [config |-> <<Field("int32", "singular", 1), Field("int32", "repeated", 2),
                Field("fixed32", "singular", 1), Field("part", "singular", 1),
                Field("part", "repeated", 1), Field("string", "singular", 2),
                Field("bool", "callback", 0)>>,
   part   |-> <<Field("bool", "singular", 1), Field("bool", "repeated", 2)>>]

Packable == {"int32", "bool", "fixed32"}

----------------------------------------------------------------------------
(* Decoding.  A stream is the bytes that are left; a step yields whether   *)
(* it succeeded, what it read, and the stream after it.                    *)

Read(val, rest) == [ok |-> TRUE, val |-> val, rest |-> rest]
Failed(rest)    == [ok |-> FALSE, val |-> 0, rest |-> rest]

AndThen(got, Step(_, _)) == IF got.ok THEN Step(got.val, got.rest) ELSE got

Pow2(n) == IF n = Bits32 THEN 128 ELSE 512

RECURSIVE Digits(_, _, _)
Digits(s, bits, pos) ==
  CASE pos >= bits \/ s = <<>> -> Failed(s)
    [] pos < bits /\ s # <<>> /\ s[1] < Digit -> Read(s[1], Tail(s))
    [] OTHER -> AndThen(Digits(Tail(s), bits, pos + 2),
                  LAMBDA high, rest : Read(s[1] - Digit + Digit * high, rest))

(* pb_decode_varint32 and pb_decode_varint: digits, lowest first; what     *)
(* does not fit the last one is cut off, one more is an error.             *)
DecodeVarint(s, bits) ==
  AndThen(Digits(s, bits, 0), LAMBDA val, rest : Read(val % Pow2(bits), rest))

PbRead(s, count) ==
  IF Len(s) < count THEN Failed(s)
  ELSE Read(SubSeq(s, 1, count), SubSeq(s, count + 1, Len(s)))

(* A length, and as many bytes.                                            *)
Substream(s) ==
  AndThen(DecodeVarint(s, Bits32), LAMBDA size, rest : PbRead(rest, size))

(* What is made of a substream, back in the stream around it.              *)
BackIn(rest, got) == [got EXCEPT !.rest = rest]

SkipVarint(s) ==
  LET last == SelectInSeq(s, LAMBDA b : b < Digit)
  IN  IF last = 0 THEN Failed(<<>>) ELSE Read(0, SubSeq(s, last + 1, Len(s)))

SkipField(wire, s) ==
  CASE wire = Varint     -> SkipVarint(s)
    [] wire = Bits64Wire -> PbRead(s, 4)
    [] wire = Bytes      -> Substream(s)
    [] wire = Bits32Wire -> PbRead(s, 2)
    [] OTHER             -> Failed(s)

(* The cast to int32_t that makes negative numbers of either width right,  *)
(* and the one to the field, which must not lose anything.                 *)
ToInt32(low) ==
  IF low < Pow2(Bits32) \div 2 THEN low ELSE low - Pow2(Bits32)

ToField(ltype, val, rest) ==
  IF ltype = "bool" /\ val \notin -4 .. 3 THEN Failed(rest) ELSE Read(val, rest)

DecVarint(ltype, s) ==
  AndThen(DecodeVarint(s, Bits64),
    LAMBDA val, rest : ToField(ltype, ToInt32(val % Pow2(Bits32)), rest))

DecFixed32(s) ==
  AndThen(PbRead(s, 2), LAMBDA b, rest : Read(b[1] + Byte * b[2], rest))

DecString(room, s) ==
  AndThen(DecodeVarint(s, Bits32),
    LAMBDA size, rest :
      IF size + 1 > room THEN Failed(rest) ELSE PbRead(rest, size))

RECURSIVE Default(_)
Default(type) ==
  [n \in DOMAIN Schema[type] |->
     LET f == Schema[type][n]
     IN  CASE f.label = "repeated" \/ f.ltype = "string" -> <<>>
           [] f.label = "singular" /\ f.ltype = "part"   -> Default("part")
           [] OTHER                                      -> 0]

OverReset(f, old) == IF f.ltype = "part" THEN Default("part") ELSE old

(* What a value is decoded over.  A part that occurs once is not reset, so *)
(* that its occurrences are merged; one more item of an array is new.      *)
DecodedOver(f, old) ==
  IF f.label = "repeated" /\ f.ltype = "part" THEN Default("part") ELSE old

RECURSIVE Decode(_, _, _), Packed(_, _, _)

DecodeItem(f, s, old) ==
  CASE f.ltype \in {"int32", "bool"} -> DecVarint(f.ltype, s)
    [] f.ltype = "fixed32"           -> DecFixed32(s)
    [] f.ltype = "string"            -> DecString(f.room, s)
    [] f.ltype = "part"              ->
         AndThen(Substream(s), LAMBDA data, rest :
           BackIn(rest, Decode("part", data, DecodedOver(f, old))))

(* Items of a packed array: all of them must fit.                          *)
Packed(f, s, items) ==
  CASE s = <<>>                         -> Read(items, s)
    [] s # <<>> /\ Len(items) >= f.room -> Failed(s)
    [] s # <<>> /\ Len(items) < f.room  ->
         AndThen(DecodeItem(f, s, 0), LAMBDA val, rest :
           Packed(f, rest, Append(items, val)))

DecodeField(f, wire, s, old) ==
  CASE f.label = "callback" ->
         AndThen(SkipField(wire, s), LAMBDA val, rest : Read(old, rest))
    [] f.label = "singular" -> DecodeItem(f, s, old)
    [] f.label = "repeated" /\ wire = Bytes /\ f.ltype \in Packable ->
         AndThen(Substream(s), LAMBDA data, rest :
           BackIn(rest, Packed(f, data, old)))
    [] f.label = "repeated" /\ ~(wire = Bytes /\ f.ltype \in Packable) ->
         IF Len(old) >= f.room THEN Failed(s)
         ELSE AndThen(DecodeItem(f, s, 0), LAMBDA val, rest :
                Read(Append(old, val), rest))

(* pb_decode_noinit.  A tag cut short by the end of the stream, or of      *)
(* value 0, ends the message; a field that is not known is skipped.        *)
DecodeNumbered(type, n, wire, s, msg) ==
  IF n \in DOMAIN Schema[type]
    THEN AndThen(DecodeField(Schema[type][n], wire, s, msg[n]), LAMBDA val, rest :
           Decode(type, rest, [msg EXCEPT ![n] = val]))
    ELSE AndThen(SkipField(wire, s), LAMBDA val, rest : Decode(type, rest, msg))

DecodeTagged(type, tag, msg) ==
  CASE ~tag.ok /\ tag.rest = <<>> -> Read(msg, <<>>)
    [] ~tag.ok /\ tag.rest # <<>> -> Failed(tag.rest)
    [] tag.ok /\ tag.val = 0      -> Read(msg, tag.rest)
    [] tag.ok /\ tag.val # 0      ->
         DecodeNumbered(type, tag.val \div 8, tag.val % 8, tag.rest, msg)

Decode(type, s, msg) == DecodeTagged(type, DecodeVarint(s, Bits32), msg)

Result(ok, msg) == [ok |-> ok, msg |-> IF ok THEN msg ELSE Default("config")]

ResultOf(got) == Result(got.ok, got.val)

PbDecode(s) == ResultOf(Decode("config", s, Default("config")))

----------------------------------------------------------------------------
(* Encoding.                                                               *)

RECURSIVE EncodeVarint(_)
EncodeVarint(v) ==
  IF v < Digit THEN <<v>> ELSE <<Digit + (v % Digit)>> \o EncodeVarint(v \div Digit)

Delimited(s) == EncodeVarint(Len(s)) \o s

(* pb_check_proto3_default_value.  Of an array it compares the first item. *)
RECURSIVE IsZero(_, _)
IsZero(f, val) ==
  CASE f.label = "repeated" ->
         val = <<>> \/ Head(val) = IF f.ltype = "part" THEN Default("part") ELSE 0
    [] f.label = "callback" -> TRUE
    [] f.label = "singular" ->
         CASE f.ltype = "string" -> val = <<>>
           [] f.ltype = "part"   ->
                \A n \in DOMAIN Schema.part : IsZero(Schema.part[n], val[n])
           [] OTHER              -> val = 0

RECURSIVE Encode(_, _)

EncodeItem(f, val) ==
  CASE f.ltype \in {"int32", "bool"} -> EncodeVarint(val % Pow2(Bits64))
    [] f.ltype = "fixed32"           -> <<val % Byte, val \div Byte>>
    [] f.ltype = "string"            -> Delimited(val)
    [] f.ltype = "part"              -> Delimited(Encode("part", val))

Tag(n, wire) == EncodeVarint(8 * n + wire)

WireType(f) ==
  CASE f.ltype \in {"int32", "bool"}  -> Varint
    [] f.ltype = "fixed32"            -> Bits32Wire
    [] f.ltype \in {"string", "part"} -> Bytes

EncodeItems(n, f, val) ==
  IF f.ltype \in Packable
    THEN Tag(n, Bytes)
         \o Delimited(FlattenSeq([i \in DOMAIN val |-> EncodeItem(f, val[i])]))
    ELSE FlattenSeq([i \in DOMAIN val |-> Tag(n, WireType(f)) \o EncodeItem(f, val[i])])

EncodeArrayIfNotZero(n, f, val) ==
  IF IsZero(f, val) THEN <<>> ELSE EncodeItems(n, f, val)

(* Arrays are left out when they have no item, whatever the items are.     *)
EncodeArray(n, f, val) == IF val = <<>> THEN <<>> ELSE EncodeItems(n, f, val)

EncodeField(n, f, val) ==
  CASE f.label = "callback" -> <<>>
    [] f.label = "repeated" -> EncodeArray(n, f, val)
    [] f.label = "singular" ->
         IF IsZero(f, val) THEN <<>> ELSE Tag(n, WireType(f)) \o EncodeItem(f, val)

Encode(type, msg) ==
  FlattenSeq([n \in DOMAIN Schema[type] |-> EncodeField(n, Schema[type][n], msg[n])])

----------------------------------------------------------------------------
(* The host (external): a field number, and the items of one record; one   *)
(* that is not packed has one item.                                        *)

Record(n, wire, items) == [n |-> n, wire |-> wire, items |-> items]

PartRecords ==
  {Record(1, Varint, <<1>>), Record(2, Bytes, <<0, 1>>), Record(2, Varint, <<1>>)}

Records ==
  {Record(1, Varint, <<v>>) : v \in {-1, 5}} \cup
  {Record(2, Varint, <<-64>>), Record(2, Bytes, <<3, 0>>), Record(2, Bytes, <<9>>)} \cup
  {Record(3, Bits32Wire, <<19>>)} \cup
  {Record(n, Bytes, <<p>>) : n \in 4 .. 5, p \in {<<>>} \cup {<<r>> : r \in PartRecords}} \cup
  {Record(6, Bytes, <<s>>) : s \in {<<5>>, <<5, 6>>}} \cup
  {Record(7, Bytes, <<1, 0>>)} \cup
  {Record(9, w, <<9>>) : w \in {Varint, Bits64Wire, Bytes, Bits32Wire}}

(* The meaning of records: the last value of a field counts, the items of  *)
(* an array are strung together, the records of a part count as one list.  *)
(* The board has room for so many items and for so long a string.          *)
RECURSIVE Meaning(_, _)
Meaning(type, records) ==
  LET Items(n) == FlattenSeq([i \in DOMAIN records |->
                     IF records[i].n = n THEN records[i].items ELSE <<>>])
      part(p)  == Meaning("part", p)
      Value(n) ==
        LET f     == Schema[type][n]
            items == Items(n)
        IN  CASE f.label = "callback" -> [ok |-> TRUE, msg |-> 0]
              [] f.label = "repeated" ->
                   [ok  |-> /\ Len(items) <= f.room
                            /\ f.ltype = "part" =>
                                 \A i \in DOMAIN items : part(items[i]).ok,
                    msg |-> IF f.ltype = "part"
                              THEN [i \in DOMAIN items |-> part(items[i]).msg]
                              ELSE items]
              [] f.label = "singular" /\ f.ltype = "part" ->
                   part(FlattenSeq(items))
              [] f.label = "singular" /\ f.ltype = "string" ->
                   [ok  |-> \A i \in DOMAIN items : Len(items[i]) < f.room,
                    msg |-> IF items = <<>> THEN <<>> ELSE Last(items)]
              [] OTHER ->
                   [ok |-> TRUE, msg |-> IF items = <<>> THEN 0 ELSE Last(items)]
      values == [n \in DOMAIN Schema[type] |-> Value(n)]
  IN  [ok  |-> \A n \in DOMAIN values : values[n].ok,
       msg |-> [n \in DOMAIN values |-> values[n].msg]]

UnknownItem ==
  (Varint :> <<7, 7, 7, 7, 7, 7, 1>>) @@ (Bits64Wire :> <<1, 0, 7, 4>>) @@
  (Bits32Wire :> <<1, 0>>) @@ (Bytes :> <<0, 1>>)

RECURSIVE Wire(_, _)
Wire(type, records) ==
  FlattenSeq([i \in DOMAIN records |->
    LET r     == records[i]
        known == r.n \in DOMAIN Schema[type]
        Item(v) ==
          CASE ~known -> UnknownItem[r.wire]
            [] known /\ Schema[type][r.n].ltype = "part" -> Wire("part", v)
            [] known /\ Schema[type][r.n].ltype = "string" -> v
            [] OTHER -> EncodeItem(Schema[type][r.n], v)
        data == FlattenSeq([k \in DOMAIN r.items |-> Item(r.items[k])])
    IN  Tag(r.n, r.wire) \o IF r.wire = Bytes THEN Delimited(data) ELSE data])

----------------------------------------------------------------------------
PbInit ==
  /\ sent = <<>>
  /\ cut = -1
  /\ held = Result(FALSE, <<>>)

HostWrites(record) ==
  /\ cut = -1
  /\ Len(sent) < MaxRecords
  /\ sent' = Append(sent, record)
  /\ UNCHANGED <<cut, held>>

(* A datagram is received into a buffer that may be too short for it.      *)
Receive(n) ==
  /\ cut = -1
  /\ cut' = n
  /\ held' = PbDecode(SubSeq(Wire("config", sent), 1, n))
  /\ UNCHANGED sent

PbNext ==
  \/ \E record \in Records : HostWrites(record)
  \/ \E n \in 0 .. Len(Wire("config", sent)) : Receive(n)

----------------------------------------------------------------------------
(* Properties.                                                             *)

(* What the board decodes is what the host meant, fields in any order,     *)
(* repeated, packed or not, known or not; of a message that was cut short  *)
(* it takes the whole records at its beginning, or nothing.                *)
DecodedAsMeant ==
  LET Meant(k) ==
        LET m == Meaning("config", SubSeq(sent, 1, k)) IN Result(m.ok, m.msg)
  IN  cut >= 0 =>
        /\ cut = Len(Wire("config", sent)) => held = Meant(Len(sent))
        /\ held.ok => \E k \in 0 .. Len(sent) :
             /\ Len(Wire("config", SubSeq(sent, 1, k))) <= cut
             /\ held = Meant(k)

(* The encoder counts a part as empty when it holds an array that begins   *)
(* with 0 and nothing else, and leaves it out.                             *)
LeftOut(msg) ==
  /\ msg[4] # Default("part")
  /\ \A n \in DOMAIN Schema.part : IsZero(Schema.part[n], msg[4][n])

(* What the board encodes is what it holds: it decodes to the same         *)
(* message, but for a part that is left out.                               *)
EncodedAsHeld ==
  held.ok =>
    PbDecode(Encode("config", held.msg)) =
      Result(TRUE, IF LeftOut(held.msg)
                     THEN [held.msg EXCEPT ![4] = Default("part")] ELSE held.msg)

(* Messages of the board keep their meaning on the way in and out          *)
(* (src/protobuffer/pb_decode.c, pb_encode.c).                             *)
MessagesKept == DecodedAsMeant /\ EncodedAsHeld

============================================================================
