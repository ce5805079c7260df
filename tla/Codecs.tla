------------------------------- MODULE Codecs -------------------------------
(***************************************************************************)
(* The conversions of src/netutils/codecs and of the addresses in          *)
(* src/netutils/netlib: what is written by one function must be read by    *)
(* another.  A character is its code.  MD5 takes a message piece by piece  *)
(* and feeds whole blocks to MD5Transform, whose digest is kept as the     *)
(* blocks it was made of.                                                  *)
(***************************************************************************)
EXTENDS Integers, Sequences, SequencesExt

CONSTANTS
  CodedTexts,   \* what is encoded and decoded
  Urls,         \* records: the host, the port (or -1) and the path
  Addresses,    \* hardware addresses
  BlockSize,    \* bytes of a block (64), the last two for the length
  LowMax,       \* bytes whose bits a 32-bit counter counts (2^29)
  MaxMessage    \* bytes of a message

VARIABLES
  converted,    \* what the conversions are about
  md5           \* the context: counters, the block begun, blocks done

Percent == 37
Plus == 43
Slash == 47
Colon == 58
Blank == 32
LineFeed == 10

Digits == 48 .. 57
Small == 97 .. 122
Capital == 65 .. 90

----------------------------------------------------------------------------
(* Hexadecimal digits, small or capital.                                   *)
ToHex(n, letter) == IF n < 10 THEN 48 + n ELSE letter + n - 10
IsHexChar(ch) == ch \in Digits \union 97 .. 102 \union 65 .. 70
HexValue(ch) == CASE ch \in Digits  -> ch - 48
                  [] ch \in Small   -> ch - 97 + 10
                  [] ch \in Capital -> ch - 65 + 10

(* urlencode writes capital digits, url_encode and urlrawencode small ones.*)
Unreserved == Digits \union Small \union Capital \union {45, 95, 46, 126}

UrlEncode(text, letter) ==
  FlattenSeq([i \in DOMAIN text |->
    CASE text[i] \in Unreserved -> <<text[i]>>
      [] text[i] = Blank        -> <<Plus>>
      [] OTHER -> <<Percent, ToHex(text[i] \div 16, letter), ToHex(text[i] % 16, letter)>>])

EncodeUpper(text) == UrlEncode(text, 65)
EncodeNewMemory(text) == UrlEncode(text, 97)
EncodeRaw(text) == UrlEncode(text, 97)

UrlEncodeLen(text) ==
  FoldLeft(LAMBDA n, ch : n + IF ch \in Unreserved \union {Blank} THEN 1 ELSE 3, 0, text)

(* A percent sign with two digits after it.  A mutant wants one more       *)
(* character.                                                              *)
IsEscapeLate(text, i) ==
  text[i] = Percent /\ i + 2 < Len(text) /\ IsHexChar(text[i + 1]) /\ IsHexChar(text[i + 2])
IsEscape(text, i) ==
  text[i] = Percent /\ i + 2 <= Len(text) /\ IsHexChar(text[i + 1]) /\ IsHexChar(text[i + 2])

Escaped(text, i) == 16 * HexValue(text[i + 1]) + HexValue(text[i + 2])
Plain(ch) == IF ch = Plus THEN Blank ELSE ch

(* urldecode leaves a percent sign that is none of an escape.              *)
UrlDecode(text) ==
  LET from[i \in 1 .. Len(text) + 1] ==
        CASE i > Len(text)     -> <<>>
          [] i <= Len(text) /\ IsEscape(text, i) -> <<Escaped(text, i)>> \o from[i + 3]
          [] OTHER             -> <<Plain(text[i])>> \o from[i + 1]
  IN  from[1]

UrlDecodeLen(text) ==
  LET from[i \in 1 .. Len(text) + 1] ==
        CASE i > Len(text)     -> 0
          [] i <= Len(text) /\ IsEscape(text, i) -> 1 + from[i + 3]
          [] OTHER             -> 1 + from[i + 1]
  IN  from[1]

(* urlrawdecode and url_decode ask for no digits: what they make of an     *)
(* escape without them is left out.                                        *)
WellFormed(text) == \A i \in DOMAIN text : text[i] = Percent => IsEscape(text, i)

UrlRawDecode(text) ==
  LET from[i \in 1 .. Len(text) + 1] ==
        IF i > Len(text) THEN <<>>
        ELSE IF text[i] = Percent THEN <<Escaped(text, i)>> \o from[i + 3]
        ELSE <<Plain(text[i])>> \o from[i + 1]
  IN  from[1]

DecodeNewMemory(text) == UrlRawDecode(text)

----------------------------------------------------------------------------
(* base64_tab, _base64_encode and _base64_decode; websafe has characters   *)
(* of its own.                                                             *)
Base64Tab(websafe) ==
  [i \in 0 .. 63 |-> CASE i < 26 -> 65 + i
                       [] i \in 26 .. 51 -> 97 + i - 26
                       [] i \in 52 .. 61 -> 48 + i - 52
                       [] i = 62 -> IF websafe THEN 45 ELSE 43
                       [] i = 63 -> IF websafe THEN 95 ELSE 47]
Pad(websafe) == IF websafe THEN 46 ELSE 61

Base64Encode(bytes, websafe) ==
  LET table == Base64Tab(websafe)
      Block(b) ==      \* three bytes, or the last one or two
        LET b2 == IF Len(b) > 1 THEN b[2] ELSE 0
            b3 == IF Len(b) > 2 THEN b[3] ELSE 0
        IN  << table[b[1] \div 4], table[(b[1] % 4) * 16 + b2 \div 16],
               IF Len(b) > 1 THEN table[(b2 % 16) * 4 + b3 \div 64] ELSE Pad(websafe),
               IF Len(b) > 2 THEN table[b3 % 64] ELSE Pad(websafe) >>
      blocks == (Len(bytes) + 2) \div 3
  IN  FlattenSeq([k \in 1 .. blocks |->
        Block(SubSeq(bytes, 3 * k - 2, IF 3 * k < Len(bytes) THEN 3 * k ELSE Len(bytes)))])

(* Other characters are passed over; NULL is -1 here.                      *)
Base64Decode(text, websafe) ==
  LET table == Base64Tab(websafe)
      chars == SelectSeq(text, LAMBDA ch : ch = Pad(websafe) \/ \E i \in 0 .. 63 : table[i] = ch)
      Value(ch) == IF ch = Pad(websafe) THEN 0 ELSE CHOOSE i \in 0 .. 63 : table[i] = ch
      Block(c) == LET v == [i \in 1 .. 4 |-> Value(c[i])] IN
        << v[1] * 4 + v[2] \div 16, (v[2] % 16) * 16 + v[3] \div 4, (v[3] % 4) * 64 + v[4] >>
      n     == Len(chars)
      bytes == FlattenSeq([k \in 1 .. n \div 4 |-> Block(SubSeq(chars, 4 * k - 3, 4 * k))])
  IN  CASE n % 4 # 0 -> <<-1>>
        [] n = 0     -> <<>>
        [] OTHER -> SubSeq(bytes, 1, Len(bytes) - IF chars[n - 1] = Pad(websafe) THEN 2
                                                  ELSE IF chars[n] = Pad(websafe) THEN 1 ELSE 0)

----------------------------------------------------------------------------
(* netlib_parsehttpurl, for names that fit (the loop over a host name that *)
(* does not has no end).  What is not http is a file name.                 *)
Until(text, stops) ==
  LET at == {i \in DOMAIN text : text[i] \in stops}
  IN  IF at = {} THEN Len(text) ELSE (CHOOSE i \in at : \A j \in at : i <= j) - 1
Rest(text, n) == SubSeq(text, n + 1, Len(text))

ParsePort(text) ==       \* 16 bits
  FoldLeft(LAMBDA accum, ch : (10 * accum + ch - 48) % 65536, 0, text)

SkipSlashes(text) == Rest(text, Until(text, 0 .. 255 \ {Slash}))

ParseHttpUrl(http, text) ==
  LET hostLen == Until(text, {Slash, Blank, Colon})
      after   == Rest(text, hostLen)
      hasPort == after # <<>> /\ after[1] = Colon
      digits  == IF hasPort THEN SubSeq(after, 2, 1 + Until(Tail(after), 0 .. 255 \ Digits)) ELSE <<>>
      src     == IF ~http THEN text
                 ELSE IF hasPort THEN Rest(after, 1 + Len(digits)) ELSE after
  IN  [ret  |-> CASE src = <<>> \/ src[1] = Blank -> "ENOENT"
                  [] ~http -> "EINVAL"
                  [] OTHER -> "OK",
       host |-> IF http THEN SubSeq(text, 1, hostLen) ELSE <<>>,
       port |-> IF http /\ hasPort THEN ParsePort(digits) ELSE -1,
       file |-> <<Slash>> \o IF src = <<>> \/ src[1] # Slash THEN src ELSE SkipSlashes(src)]

(* netlib_ethaddrconv, saddrconv and eaddrconv: n bytes of at most two     *)
(* digits, and no more is read when they have come; -1 is false.           *)
Hex(digits) == FoldLeft(LAMBDA tmp, ch : (16 * tmp + HexValue(ch)) % 256, 0, digits)

HwAddrConv(text, n) ==
  LET Next(got, k) ==
        LET left == Rest(text, got.at)
            len  == Until(left, {Colon})
        IN  IF got.false \/ len > 2 \/ \E i \in 1 .. len : ~IsHexChar(left[i])
            THEN [got EXCEPT !.false = TRUE]
            ELSE [got EXCEPT !.at = @ + len + 1,
                             !.bytes = Append(@, Hex(SubSeq(left, 1, len)))]
      end == FoldLeft(Next, [false |-> Len(text) # 3 * n - 1, at |-> 0, bytes |-> <<>>],
                      [k \in 1 .. n |-> k])
  IN  IF end.false THEN <<-1>> ELSE end.bytes

EthAddrConv(text) == HwAddrConv(text, 6)
SAddrConv(text) == HwAddrConv(text, 2)
EAddrConv(text) == HwAddrConv(text, 8)
AddrConv(text, n) == CASE n = 2 -> SAddrConv(text) [] n = 6 -> EthAddrConv(text)
                       [] n = 8 -> EAddrConv(text)

(* netlib_nodeaddrconv: at most n bytes of two digits, with blanks before  *)
(* them all and before colons.                                             *)
SkipBlanks(text) == Rest(text, Until(text, 0 .. 255 \ {Blank}))

NodeAddrConv(text, n) ==
  LET from[k \in 0 .. n] ==       \* what is left, and bytes, after k of them
        IF k = 0 THEN [left |-> SkipBlanks(text), bytes |-> <<>>, more |-> TRUE]
        ELSE LET at   == from[k - 1]
                 good == /\ at.more /\ Len(at.left) >= 2
                         /\ IsHexChar(at.left[1]) /\ IsHexChar(at.left[2])
                 left == SkipBlanks(Rest(at.left, 2))
             IN  IF ~at.more THEN at
                 ELSE IF ~good THEN [left |-> <<>>, bytes |-> <<-1>>, more |-> FALSE]
                 ELSE [left  |-> IF left = <<>> THEN <<>> ELSE Tail(left),
                       bytes |-> IF left = <<>> \/ (left[1] = Colon /\ k < n)
                                 THEN Append(at.bytes, Hex(SubSeq(at.left, 1, 2))) ELSE <<-1>>,
                       more  |-> left # <<>> /\ left[1] = Colon /\ k < n]
  IN  from[n].bytes

(* netlib_ipv6netmask2prefix: whole words of ones, then bytes, then        *)
(* nibbles.                                                                *)
MsBits4(nibble) ==
  CASE nibble < 8 -> 0 [] nibble \in 8 .. 11 -> 1 [] nibble \in 12 .. 13 -> 2
    [] nibble = 14 -> 3 [] nibble = 15 -> 4
MsBits8(byval) ==
  IF MsBits4(byval \div 16) = 4 THEN 4 + MsBits4(byval % 16) ELSE MsBits4(byval \div 16)
MsBits16(hword) ==
  IF MsBits8(hword \div 256) = 8 THEN 8 + MsBits8(hword % 256) ELSE MsBits8(hword \div 256)

Netmask2Prefix(mask) ==
  LET part == {i \in DOMAIN mask : mask[i] # 65535}
      i    == CHOOSE i \in part : \A j \in part : i <= j
  IN  IF part = {} THEN 16 * Len(mask) ELSE 16 * (i - 1) + MsBits16(mask[i])

----------------------------------------------------------------------------
(* The MD5 context.  The message is 1, 2, 3 ..., so that bytes differ.     *)
Md5Init == [low |-> 0, high |-> 0, in |-> [i \in 1 .. BlockSize |-> 0], fed |-> <<>>]

Put(in, at, bytes) ==
  [i \in 1 .. BlockSize |-> IF i - at \in DOMAIN bytes THEN bytes[i - at] ELSE in[i]]

Feed(context) == [context EXCEPT !.fed = Append(@, context.in)]

Counted(context, len) ==
  LET low == (context.low + len) % LowMax
  IN  [context EXCEPT !.low = low,
                      !.high = @ + (IF low < context.low THEN 1 ELSE 0) + len \div LowMax]

Md5Update(context, bytes) ==
  LET t       == context.low % BlockSize
      room    == BlockSize - t
      counted == Counted(context, Len(bytes))
      first   == IF t = 0 THEN counted ELSE Feed([counted EXCEPT !.in = Put(@, t, bytes)])
      left    == IF t = 0 THEN bytes ELSE Rest(bytes, room)
      blocks  == Len(left) \div BlockSize
      whole   == FoldLeft(LAMBDA c, k :
                            Feed([c EXCEPT !.in = Put(@, 0, Rest(left, BlockSize * (k - 1)))]),
                          first, [k \in 1 .. blocks |-> k])
  IN  IF t # 0 /\ Len(bytes) < room
      THEN [counted EXCEPT !.in = Put(@, t, bytes)]
      ELSE [whole EXCEPT !.in = Put(@, 0, Rest(left, BlockSize * blocks))]

Zeroed(n) == [i \in 1 .. n |-> 0]

Md5Final(context) ==
  LET count  == context.low % BlockSize
      marked == Put(context.in, count, <<128>>)
      left   == BlockSize - 1 - count
      padded == IF left < 2
                THEN LET full == Feed([context EXCEPT !.in = Put(marked, count + 1, Zeroed(left))])
                     IN  [full EXCEPT !.in = Put(@, 0, Zeroed(BlockSize - 2))]
                ELSE [context EXCEPT !.in = Put(marked, count + 1, Zeroed(left - 2))]
  IN  Feed([padded EXCEPT !.in = Put(@, BlockSize - 2, <<context.low, context.high>>)]).fed

----------------------------------------------------------------------------
CodecsInit ==
  /\ converted = [kind |-> "none"]
  /\ md5 = [said |-> 0, context |-> Md5Init]

Convert ==
  /\ converted.kind = "none" /\ md5.said = 0
  /\ \/ \E text \in CodedTexts : converted' = [kind |-> "text", text |-> text]
     \/ \E url \in Urls : converted' = [kind |-> "url", url |-> url]
     \/ \E address \in Addresses : converted' = [kind |-> "address", address |-> address]
     \/ \E n \in 0 .. 128 : converted' = [kind |-> "prefix", bits |-> n]
  /\ UNCHANGED md5

Update ==
  \E len \in 0 .. MaxMessage - md5.said :
    md5' = [said    |-> md5.said + len,
            context |-> Md5Update(md5.context, [i \in 1 .. len |-> md5.said + i])]

CodecsNext ==
  \/ Convert
  \/ converted.kind = "none" /\ Update /\ UNCHANGED converted

----------------------------------------------------------------------------
Encodings(text) == {EncodeUpper(text), EncodeNewMemory(text), EncodeRaw(text)}

(* Any encoder's text is read back by any decoder, as long as the length   *)
(* functions say; a percent sign that begins no escape does no harm.       *)
UrlFaithful(text) ==
  /\ \A e \in Encodings(text) :
       /\ {UrlDecode(e), UrlRawDecode(e), DecodeNewMemory(e)} = {text}
       /\ Len(e) = UrlEncodeLen(text)
       /\ ToSet(e) \subseteq Unreserved \union {Plus, Percent}
  /\ Len(UrlDecode(text)) = UrlDecodeLen(text)
  /\ WellFormed(text) => UrlRawDecode(text) = UrlDecode(text)

(* So is base 64, whatever comes between its characters, and it fits in    *)
(* the memory that is taken for it.                                        *)
Base64Faithful(text) ==
  \A websafe \in BOOLEAN :
    LET e == Base64Encode(text, websafe)
    IN  /\ Len(e) + 1 <= (Len(text) * 4) \div 3 + 4
        /\ \A i \in 0 .. Len(e) :
             Base64Decode(SubSeq(e, 1, i) \o <<LineFeed>> \o Rest(e, i), websafe) = text

Decimal(n) ==
  LET from[k \in 0 .. n] == IF k < 10 THEN <<48 + k>> ELSE from[k \div 10] \o <<48 + (k % 10)>>
  IN  from[n]

(* A URL is taken apart as it was put together, with one slash before the  *)
(* file.                                                                   *)
UrlParsed(url) ==
  LET port == IF url.port = -1 THEN <<>> ELSE <<Colon>> \o Decimal(url.port)
      path == [i \in 1 .. url.slashes |-> Slash] \o url.file
      got  == ParseHttpUrl(TRUE, url.host \o port \o path)
  IN  /\ got.host = url.host /\ got.port = url.port
      /\ got.file = <<Slash>> \o url.file
      /\ got.ret = IF path = <<>> THEN "ENOENT" ELSE "OK"
      /\ ParseHttpUrl(FALSE, path).file = got.file

Written(address, separator, letter) ==
  FlattenSeq([k \in DOMAIN address |->
    (IF k > 1 THEN separator ELSE <<>>)
      \o <<ToHex(address[k] \div 16, letter), ToHex(address[k] % 16, letter)>>])

AddressParsed(address) ==
  LET n == Len(address) IN
  \A letter \in {65, 97} :
    /\ AddrConv(Written(address, <<Colon>>, letter), n) = address
    /\ AddrConv(Written(address, <<Blank>>, letter), n) = <<-1>>
    /\ NodeAddrConv(Written(address, <<Colon>>, letter), n - 1) = <<-1>>
    /\ \A most \in n .. n + 1 :
         NodeAddrConv(<<Blank>> \o Written(address, <<Blank, Colon>>, letter), most) = address

(* The netmask of a prefix, in eight words.                                *)
Netmask(bits) ==
  [i \in 1 .. 8 |-> LET ones == bits - 16 * (i - 1) IN
     CASE ones <= 0 -> 0 [] ones >= 16 -> 65535 [] OTHER -> 65536 - 2 ^ (16 - ones)]

(* However a message comes in pieces, MD5 takes it whole: all bytes once,  *)
(* in order, then a mark, then no more zeros than needed, then its length. *)
Md5Whole ==
  LET said == [i \in 1 .. md5.said |-> i]
      have == md5.context.low % BlockSize
      fed  == Md5Final(md5.context)
      pad  == CHOOSE k \in 0 .. BlockSize - 1 : (md5.said + 3 + k) % BlockSize = 0
  IN  /\ FlattenSeq(md5.context.fed) \o SubSeq(md5.context.in, 1, have) = said
      /\ FlattenSeq(fed) = said \o <<128>> \o Zeroed(pad)
                             \o <<md5.said % LowMax, md5.said \div LowMax>>
      /\ \A i \in DOMAIN fed : Len(fed[i]) = BlockSize

ConversionsFaithful ==
  /\ converted.kind = "text" => UrlFaithful(converted.text) /\ Base64Faithful(converted.text)
  /\ converted.kind = "url" => UrlParsed(converted.url)
  /\ converted.kind = "address" => AddressParsed(converted.address)
  /\ converted.kind = "prefix" => Netmask2Prefix(Netmask(converted.bits)) = converted.bits
  /\ Md5Whole

=============================================================================
