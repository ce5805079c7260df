---------------------------- MODULE SessionProofs ----------------------------
(***************************************************************************)
(* Safety of the libraries that read a text, follow a path or keep a       *)
(* session: telnet streams, FTP and telnet sessions, the answers of the    *)
(* discover daemon and the end of an HTTP request, each as it is checked   *)
(* by MCLibraries, for every value of its constants.  What is assumed of   *)
(* them is a hypothesis of each theorem.                                   *)
(***************************************************************************)
EXTENDS Integers, Sequences, FiniteSets, NetLibraries, FiniteSetTheorems,
        SequenceTheorems, WellFoundedInduction, TLAPS

----------------------------------------------------------------------------
(* The byte stream of telnet (TelnetStream).  The argument is by induction *)
(* on the bytes: first the principle and the functions it defines, then an *)
(* ideal receiver that takes one byte at a time, then what it makes of     *)
(* each thing that is said, then that the tracker of the code follows it.  *)
StreamSpec == Stream!StreamInit /\ [][Stream!StreamNext]_(Stream!streamVars)

(* What holds of 0, and of each successor, holds of all.                   *)
LEMMA Induction ==
  ASSUME NEW S, 0 \in S, \A n \in Nat : n \in S => n + 1 \in S
  PROVE  \A n \in Nat : n \in S
<1> DEFINE T == Nat \ S
           R == OpToRel(<, Nat)
<1>1. IsWellFoundedOn(R, Nat)
  BY NatLessThanWellFounded, ZenonT(60)
<1>2. T \subseteq Nat
  OBVIOUS
<1>3. \A x, y \in Nat : x < y => <<x, y>> \in R
  BY DEF OpToRel
<1> HIDE DEF R
<1>4. SUFFICES ASSUME T # {} PROVE FALSE
  OBVIOUS
<1>5. PICK x \in T : \A y \in T : ~(<<y, x>> \in R)
  BY <1>1, <1>2, <1>4, WFMin
<1>6. x \in Nat /\ x # 0 /\ x \notin S
  BY <1>5
<1>7. x - 1 \in Nat /\ x - 1 < x /\ (x - 1) + 1 = x
  BY <1>6
<1>8. x - 1 \notin S
  BY <1>6, <1>7
<1>9. QED
  BY <1>3, <1>5, <1>6, <1>7, <1>8

(* f[k] is made of f[k - 1], for each k up to n; and there is such an f.    *)
Iterates(f, n, S, base, F) ==
  /\ f \in [0 .. n -> S] /\ f[0] = base
  /\ \A k \in 1 .. n : f[k] = F[<<k, f[k - 1]>>]

LEMMA Recursion ==
  ASSUME NEW n \in Nat, NEW S, NEW base \in S, NEW F \in [(1 .. n) \X S -> S]
  PROVE  \E f : Iterates(f, n, S, base, F)
<1> DEFINE Upto(f, m) ==
             /\ f \in [0 .. m -> S] /\ f[0] = base
             /\ \A k \in 1 .. m : f[k] = F[<<k, f[k - 1]>>]
           H == {m \in Nat : m <= n => \E f : Upto(f, m)}
<1>1. 0 \in H
  <2>1. Upto([k \in 0 .. 0 |-> base], 0)
    OBVIOUS
  <2>2. QED
    BY <2>1
<1>2. ASSUME NEW m \in Nat, m \in H PROVE m + 1 \in H
  <2>1. SUFFICES ASSUME m + 1 <= n PROVE \E f : Upto(f, m + 1)
    OBVIOUS
  <2>2. PICK f : Upto(f, m)
    BY <1>2, <2>1
  <2> DEFINE v == F[<<m + 1, f[m]>>]
             g == [k \in 0 .. m + 1 |-> IF k = m + 1 THEN v ELSE f[k]]
  <2>3. f[m] \in S /\ m + 1 \in 1 .. n
    BY <2>1, <2>2
  <2>4. v \in S
    BY <2>3
  <2> HIDE DEF v
  <2>5. g \in [0 .. m + 1 -> S] /\ g[0] = base
    BY <2>2, <2>4
  <2>6. ASSUME NEW k \in 1 .. m + 1 PROVE g[k] = F[<<k, g[k - 1]>>]
    <3>1. k - 1 \in 0 .. m /\ g[k - 1] = f[k - 1]
      OBVIOUS
    <3>2. CASE k = m + 1
      <4>1. g[k] = v /\ k - 1 = m
        BY <3>2
      <4>2. QED
        BY <3>1, <3>2, <4>1 DEF v
    <3>3. CASE k # m + 1
      <4>1. k \in 1 .. m /\ g[k] = f[k]
        BY <3>3
      <4> HIDE DEF g
      <4>2. QED
        BY <2>2, <3>1, <4>1
    <3>4. QED
      BY <3>2, <3>3
  <2> HIDE DEF g
  <2>7. Upto(g, m + 1)
    BY <2>5, <2>6
  <2>8. QED
    BY <2>7
<1> HIDE DEF H
<1>3. n \in H
  BY <1>1, <1>2, Induction
<1>4. QED
  BY <1>3 DEF H, Iterates

----------------------------------------------------------------------------
Byte == {"x", "IAC", "CR", "LF", "NUL", "NOP", "WILL", "OPT", "COMPRESS", "SB", "SE"}

Evt == [ev : {"data", "iac", "negotiate", "sub"}, arg : Seq(Byte)]

Tracker == [state  : {"data", "iac", "negotiate", "sb", "sbData", "sbDataIac"},
            telopt : Byte, buffer : Seq(Byte), start : Nat, heard : Seq(Evt),
            misread : BOOLEAN]

(* A receiver that is given one byte at a time, raises each byte of data   *)
(* at once, and has a buffer without end.                                  *)
Ideal == [state  : {"data", "iac", "negotiate", "sb", "sbData", "sbDataIac", "skip"},
          telopt : Byte, buffer : Seq(Byte), heard : Seq(Evt)]

At(state, telopt, buffer, heard) ==
  [state |-> state, telopt |-> telopt, buffer |-> buffer, heard |-> heard]

HearsIac(o, f, h, b) ==
  CASE b = "SB"   -> At("sb", o, f, h)
    [] b = "WILL" -> At("negotiate", o, f, h)
    [] b = "IAC"  -> At("data", o, f, h \o Stream!Data(<<b>>))
    [] OTHER      -> At("data", o, f, h \o Stream!Event("iac", <<b>>))

HearsSbData(o, f, h, b) ==
  CASE b = "IAC" -> At("sbDataIac", o, f, h)
    [] b = "WILL" /\ o = "COMPRESS" -> At("skip", o, f, h)
    [] OTHER -> At("sbData", o, Append(f, b), h)

HearsSbDataIac(o, f, h, b) ==
  CASE b = "SE"  -> At("data", o, f, h \o Stream!Event("sub", f))
    [] b = "IAC" -> At("sbData", o, Append(f, b), h)
    [] OTHER     -> HearsIac(o, f, h \o Stream!Event("sub", f), b)

Hears(s, b) ==
  CASE s.state = "skip" -> At("data", s.telopt, s.buffer, s.heard)
    [] s.state = "data" ->
         IF b = "IAC" THEN At("iac", s.telopt, s.buffer, s.heard)
                      ELSE At("data", s.telopt, s.buffer, s.heard \o Stream!Data(<<b>>))
    [] s.state = "iac" -> HearsIac(s.telopt, s.buffer, s.heard, b)
    [] s.state = "negotiate" ->
         At("data", s.telopt, s.buffer, s.heard \o Stream!Event("negotiate", <<b>>))
    [] s.state = "sb" -> At("sbData", b, <<>>, s.heard)
    [] s.state = "sbData" -> HearsSbData(s.telopt, s.buffer, s.heard, b)
    [] s.state = "sbDataIac" -> HearsSbDataIac(s.telopt, s.buffer, s.heard, b)

(* Its states over the bytes of w.                                         *)
Reads(t, w, s, e) ==
  /\ t \in [0 .. Len(w) -> Ideal] /\ t[0] = s /\ t[Len(w)] = e
  /\ \A k \in 1 .. Len(w) : t[k] = Hears(t[k - 1], w[k])

ReadAs(w, s, e) == \E t : Reads(t, w, s, e)

LEMMA AtIs ==
  ASSUME NEW a, NEW b, NEW c, NEW d
  PROVE  /\ At(a, b, c, d).state = a /\ At(a, b, c, d).telopt = b
         /\ At(a, b, c, d).buffer = c /\ At(a, b, c, d).heard = d
BY DEF At

LEMMA IdealIs ==
  ASSUME NEW s \in Ideal
  PROVE  /\ s = At(s.state, s.telopt, s.buffer, s.heard)
         /\ s.state \in {"data", "iac", "negotiate", "sb", "sbData", "sbDataIac", "skip"}
         /\ s.telopt \in Byte /\ s.buffer \in Seq(Byte) /\ s.heard \in Seq(Evt)
BY DEF Ideal, At

LEMMA AtIdeal ==
  ASSUME NEW a \in {"data", "iac", "negotiate", "sb", "sbData", "sbDataIac", "skip"},
         NEW b \in Byte, NEW c \in Seq(Byte), NEW d \in Seq(Evt)
  PROVE  At(a, b, c, d) \in Ideal
BY DEF At, Ideal

LEMMA EventsAre ==
  /\ \A b \in Byte : /\ Stream!Data(<<b>>) = <<[ev |-> "data", arg |-> <<b>>]>>
                     /\ Stream!Data(<<b>>) \in Seq(Evt)
                     /\ Stream!Event("iac", <<b>>) \in Seq(Evt)
                     /\ Stream!Event("negotiate", <<b>>) \in Seq(Evt)
  /\ \A f \in Seq(Byte) : Stream!Event("sub", f) \in Seq(Evt)
<1>1. ASSUME NEW b \in Byte
      PROVE  /\ Stream!Data(<<b>>) = <<[ev |-> "data", arg |-> <<b>>]>>
             /\ Stream!Data(<<b>>) \in Seq(Evt)
             /\ Stream!Event("iac", <<b>>) \in Seq(Evt)
             /\ Stream!Event("negotiate", <<b>>) \in Seq(Evt)
  <2>1. <<b>> \in Seq(Byte) /\ DOMAIN <<b>> = 1 .. 1 /\ <<b>>[1] = b
    OBVIOUS
  <2>2. Stream!Data(<<b>>) = [k \in 1 .. 1 |-> [ev |-> "data", arg |-> <<b>>]]
    BY <2>1 DEF Stream!Data
  <2>3. [k \in 1 .. 1 |-> [ev |-> "data", arg |-> <<b>>]] = <<[ev |-> "data", arg |-> <<b>>]>>
    OBVIOUS
  <2>4. \A e \in {"data", "iac", "negotiate", "sub"} : [ev |-> e, arg |-> <<b>>] \in Evt
    BY <2>1 DEF Evt
  <2>5. Stream!Data(<<b>>) \in Seq(Evt)
    <3> DEFINE x == [ev |-> "data", arg |-> <<b>>]
    <3>1. x \in Evt /\ Stream!Data(<<b>>) = <<x>>
      BY <2>2, <2>3, <2>4
    <3> HIDE DEF x
    <3>2. <<x>> \in Seq(Evt)
      BY <3>1
    <3>3. QED
      BY <3>1, <3>2
  <2>6. Stream!Event("iac", <<b>>) \in Seq(Evt) /\ Stream!Event("negotiate", <<b>>) \in Seq(Evt)
    BY <2>4 DEF Stream!Event
  <2>7. QED
    BY <2>2, <2>3, <2>5, <2>6
<1>2. ASSUME NEW f \in Seq(Byte) PROVE Stream!Event("sub", f) \in Seq(Evt)
  BY DEF Stream!Event, Evt
<1>3. QED
  BY <1>1, <1>2

(* Each byte leads to a state, and only adds to what was heard.            *)
LEMMA HearsOn ==
  ASSUME NEW s \in Ideal, NEW b \in Byte
  PROVE  /\ Hears(s, b) \in Ideal
         /\ \E d \in Seq(Evt) : Hears(s, b).heard = s.heard \o d
<1> DEFINE o == s.telopt
           f == s.buffer
           h == s.heard
<1>1. o \in Byte /\ f \in Seq(Byte) /\ h \in Seq(Evt)
  BY IdealIs
<1> HIDE DEF o, f, h
<1>2. h \o <<>> = h /\ <<>> \in Seq(Evt) /\ <<>> \in Seq(Byte)
      /\ \A g \in Seq(Byte) : Append(g, b) \in Seq(Byte)
  BY <1>1
<1>3. \A d \in Seq(Evt) : h \o d \in Seq(Evt)
  BY <1>1
<1> DEFINE Fine(r) == r \in Ideal /\ \E d \in Seq(Evt) : r.heard = h \o d
<1>4. ASSUME NEW a \in {"data", "iac", "negotiate", "sb", "sbData", "sbDataIac", "skip"},
             NEW p \in Byte, NEW c \in Seq(Byte), NEW d \in Seq(Evt)
      PROVE  Fine(At(a, p, c, h \o d))
  <2>1. h \o d \in Seq(Evt)
    BY <1>3
  <2> DEFINE r == At(a, p, c, h \o d)
  <2>2. r \in Ideal
    BY <2>1, AtIdeal
  <2>3. r.heard = h \o d
    BY DEF At
  <2> HIDE DEF r
  <2>4. Fine(r)
    BY <2>2, <2>3
  <2>5. QED
    BY <2>4 DEF r
<1>5. ASSUME NEW a \in {"data", "iac", "negotiate", "sb", "sbData", "sbDataIac", "skip"},
             NEW p \in Byte, NEW c \in Seq(Byte)
      PROVE  Fine(At(a, p, c, h))
  <2> HIDE DEF Fine
  <2>1. Fine(At(a, p, c, h \o <<>>))
    BY <1>2, <1>4
  <2>2. h \o <<>> = h
    BY <1>2
  <2>3. QED
    BY <2>1, <2>2
<1> HIDE DEF Fine
<1>6. ASSUME NEW d \in Seq(Evt) PROVE Fine(HearsIac(o, f, h \o d, b))
  <2>1. /\ Fine(At("sb", o, f, h \o d)) /\ Fine(At("negotiate", o, f, h \o d))
    BY <1>1, <1>4
  <2>2. ASSUME NEW x \in Seq(Evt) PROVE Fine(At("data", o, f, (h \o d) \o x))
    <3>1. (h \o d) \o x = h \o (d \o x) /\ d \o x \in Seq(Evt)
      BY <1>1
    <3>2. QED
      BY <1>1, <1>4, <3>1
  <2>3. Fine(At("data", o, f, (h \o d) \o Stream!Data(<<b>>)))
        /\ Fine(At("data", o, f, (h \o d) \o Stream!Event("iac", <<b>>)))
    BY <2>2, EventsAre
  <2>4. QED
    BY <2>1, <2>3 DEF HearsIac
<1>7. Fine(HearsIac(o, f, h, b))
  <2>1. Fine(HearsIac(o, f, h \o <<>>, b))
    BY <1>2, <1>6
  <2>2. QED
    BY <1>2, <2>1
<1>8. Fine(HearsSbData(o, f, h, b))
  BY <1>1, <1>2, <1>5 DEF HearsSbData
<1>9. Stream!Event("sub", f) \in Seq(Evt)
  BY <1>1, EventsAre
<1>10. Fine(HearsSbDataIac(o, f, h, b))
  BY <1>1, <1>2, <1>4, <1>5, <1>6, <1>9 DEF HearsSbDataIac
<1>11. /\ Fine(At("data", o, f, h)) /\ Fine(At("iac", o, f, h))
       /\ Fine(At("data", o, f, h \o Stream!Data(<<b>>)))
       /\ Fine(At("data", o, f, h \o Stream!Event("negotiate", <<b>>)))
       /\ Fine(At("sbData", b, <<>>, h))
  BY <1>1, <1>2, <1>4, <1>5, EventsAre
<1>12. Fine(Hears(s, b))
  BY <1>7, <1>8, <1>10, <1>11, IdealIs DEF Hears, o, f, h
<1>13. QED
  BY <1>12 DEF Fine, h

LEMMA ReadNothing ==
  ASSUME NEW s \in Ideal PROVE ReadAs(<<>>, s, s)
<1>1. Reads([k \in 0 .. 0 |-> s], <<>>, s, s)
  BY DEF Reads
<1>2. QED
  BY <1>1 DEF ReadAs

LEMMA ReadOne ==
  ASSUME NEW s \in Ideal, NEW b \in Byte PROVE ReadAs(<<b>>, s, Hears(s, b))
<1> DEFINE t == [k \in 0 .. 1 |-> IF k = 0 THEN s ELSE Hears(s, b)]
<1>1. Hears(s, b) \in Ideal
  BY HearsOn
<1>2. Len(<<b>>) = 1 /\ <<b>>[1] = b
  OBVIOUS
<1>3. t \in [0 .. 1 -> Ideal] /\ t[0] = s /\ t[1] = Hears(s, b)
  BY <1>1
<1> HIDE DEF t
<1>4. Reads(t, <<b>>, s, Hears(s, b))
  BY <1>2, <1>3 DEF Reads
<1>5. QED
  BY <1>4 DEF ReadAs

(* One piece after the other, and pieces of a whole.                       *)
LEMMA ReadBoth ==
  ASSUME NEW v \in Seq(Byte), NEW w \in Seq(Byte), NEW s, NEW m, NEW e,
         ReadAs(v, s, m), ReadAs(w, m, e)
  PROVE  ReadAs(v \o w, s, e)
<1>1. PICK t : Reads(t, v, s, m)
  BY DEF ReadAs
<1>2. PICK u : Reads(u, w, m, e)
  BY DEF ReadAs
<1> DEFINE x == [k \in 0 .. Len(v) + Len(w) |->
                   IF k <= Len(v) THEN t[k] ELSE u[k - Len(v)]]
<1>3. /\ v \o w \in Seq(Byte) /\ Len(v \o w) = Len(v) + Len(w)
      /\ \A i \in 1 .. Len(v) + Len(w) :
           (v \o w)[i] = IF i <= Len(v) THEN v[i] ELSE w[i - Len(v)]
  BY ConcatProperties
<1>4. Len(v) \in Nat /\ Len(w) \in Nat
  OBVIOUS
<1>5. ASSUME NEW k \in 0 .. Len(v) + Len(w) PROVE x[k] \in Ideal
  <2>1. CASE k <= Len(v)
    BY <1>1, <1>4, <2>1 DEF Reads
  <2>2. CASE ~(k <= Len(v))
    <3>1. k - Len(v) \in 0 .. Len(w)
      BY <1>4, <2>2
    <3>2. QED
      BY <1>2, <2>2, <3>1 DEF Reads
  <2>3. QED
    BY <2>1, <2>2
<1>6. x[0] = s
  BY <1>1, <1>4 DEF Reads
<1>7. x[Len(v) + Len(w)] = e
  <2>1. CASE Len(w) = 0
    BY <1>1, <1>2, <1>4, <2>1 DEF Reads
  <2>2. CASE Len(w) # 0
    BY <1>2, <1>4, <2>2 DEF Reads
  <2>3. QED
    BY <2>1, <2>2
<1>8. ASSUME NEW k \in 1 .. Len(v) + Len(w)
      PROVE  x[k] = Hears(x[k - 1], (v \o w)[k])
  <2>1. CASE k <= Len(v)
    <3>1. k \in 1 .. Len(v) /\ x[k] = t[k] /\ x[k - 1] = t[k - 1] /\ (v \o w)[k] = v[k]
      BY <1>3, <1>4, <2>1
    <3>2. QED
      BY <1>1, <3>1 DEF Reads
  <2>2. CASE ~(k <= Len(v))
    <3>1. /\ k - Len(v) \in 1 .. Len(w) /\ x[k] = u[k - Len(v)]
          /\ (v \o w)[k] = w[k - Len(v)]
      BY <1>3, <1>4, <2>2
    <3>2. x[k - 1] = u[k - Len(v) - 1]
      <4>1. CASE k = Len(v) + 1
        <5>1. x[k - 1] = t[Len(v)] /\ k - Len(v) - 1 = 0
          BY <1>4, <4>1
        <5>2. QED
          BY <1>1, <1>2, <5>1 DEF Reads
      <4>2. CASE k # Len(v) + 1
        <5>1. k - 1 - Len(v) = k - Len(v) - 1 /\ ~(k - 1 <= Len(v))
          BY <1>4, <2>2, <4>2
        <5>2. QED
          BY <1>4, <5>1
      <4>3. QED
        BY <4>1, <4>2
    <3> HIDE DEF x
    <3>3. QED
      BY <1>2, <3>1, <3>2 DEF Reads
  <2>3. QED
    BY <2>1, <2>2
<1>9. x \in [0 .. Len(v) + Len(w) -> Ideal]
  BY <1>5
<1> HIDE DEF x
<1>10. Reads(x, v \o w, s, e)
  BY <1>3, <1>6, <1>7, <1>8, <1>9 DEF Reads
<1>11. QED
  BY <1>10 DEF ReadAs

LEMMA ReadPieces ==
  ASSUME NEW w \in Seq(Byte), NEW n \in 1 .. Len(w), NEW s, NEW e, ReadAs(w, s, e)
  PROVE  \E m \in Ideal : ReadAs(SubSeq(w, 1, n), s, m) /\ ReadAs(SubSeq(w, n + 1, Len(w)), m, e)
<1>1. PICK t : Reads(t, w, s, e)
  BY DEF ReadAs
<1> DEFINE v == SubSeq(w, 1, n)
           z == SubSeq(w, n + 1, Len(w))
           x == [k \in 0 .. n |-> t[k]]
           y == [k \in 0 .. Len(w) - n |-> t[n + k]]
<1>2. /\ Len(w) \in Nat /\ n \in Nat /\ Len(v) = n /\ \A i \in 1 .. n : v[i] = w[i]
      /\ Len(z) = Len(w) - n /\ \A i \in 1 .. Len(w) - n : z[i] = w[n + i]
  OBVIOUS
<1> HIDE DEF v, z
<1>3. t[n] \in Ideal
  BY <1>1, <1>2 DEF Reads
<1>4. Reads(x, v, s, t[n])
  <2>1. x \in [0 .. n -> Ideal] /\ x[0] = s /\ x[n] = t[n]
    BY <1>1, <1>2 DEF Reads
  <2>2. ASSUME NEW k \in 1 .. n PROVE x[k] = Hears(x[k - 1], v[k])
    <3>1. x[k] = t[k] /\ x[k - 1] = t[k - 1] /\ k \in 1 .. Len(w) /\ v[k] = w[k]
      BY <1>2
    <3> HIDE DEF x
    <3>2. QED
      BY <1>1, <3>1 DEF Reads
  <2> HIDE DEF x
  <2>3. QED
    BY <1>2, <2>1, <2>2 DEF Reads
<1>5. Reads(y, z, t[n], e)
  <2>1. y \in [0 .. Len(w) - n -> Ideal] /\ y[0] = t[n] /\ y[Len(w) - n] = e
    BY <1>1, <1>2 DEF Reads
  <2>2. ASSUME NEW k \in 1 .. Len(w) - n PROVE y[k] = Hears(y[k - 1], z[k])
    <3>1. /\ y[k] = t[n + k] /\ y[k - 1] = t[(n + k) - 1] /\ n + k \in 1 .. Len(w)
          /\ z[k] = w[n + k]
      BY <1>2
    <3> HIDE DEF y
    <3>2. QED
      BY <1>1, <3>1 DEF Reads
  <2> HIDE DEF y
  <2>3. QED
    BY <1>2, <2>1, <2>2 DEF Reads
<1>6. QED
  BY <1>3, <1>4, <1>5 DEF ReadAs, v, z

LEMMA ReadAdds ==
  ASSUME NEW w \in Seq(Byte), NEW s, NEW e, ReadAs(w, s, e)
  PROVE  s \in Ideal /\ e \in Ideal /\ \E d \in Seq(Evt) : e.heard = s.heard \o d
<1>1. PICK t : Reads(t, w, s, e)
  BY DEF ReadAs
<1>2. /\ t \in [0 .. Len(w) -> Ideal] /\ t[0] = s /\ t[Len(w)] = e /\ Len(w) \in Nat
      /\ \A k \in 1 .. Len(w) : t[k] = Hears(t[k - 1], w[k])
  BY <1>1 DEF Reads
<1> DEFINE h == s.heard
           Grown(k) == \E d \in Seq(Evt) : t[k].heard = h \o d
           H == {k \in Nat : k <= Len(w) => Grown(k)}
<1>3. s \in Ideal /\ e \in Ideal /\ h \in Seq(Evt)
  BY <1>2, IdealIs
<1>4. 0 \in H
  <2>1. h \o <<>> = h /\ <<>> \in Seq(Evt)
    BY <1>3
  <2>2. QED
    BY <1>2, <2>1
<1>5. ASSUME NEW k \in Nat, k \in H PROVE k + 1 \in H
  <2> HIDE DEF Grown
  <2>1. SUFFICES ASSUME k + 1 <= Len(w) PROVE Grown(k + 1)
    OBVIOUS
  <2>9. Grown(k)
    <3>1. k <= Len(w)
      BY <1>2, <2>1
    <3>2. QED
      BY <1>5, <3>1
  <2> USE DEF Grown
  <2>2. PICK d \in Seq(Evt) : t[k].heard = h \o d
    BY <2>9
  <2>3. t[k] \in Ideal /\ w[k + 1] \in Byte /\ t[k + 1] = Hears(t[k], w[k + 1])
    BY <1>2, <2>1
  <2>4. PICK c \in Seq(Evt) : t[k + 1].heard = t[k].heard \o c
    BY <2>3, HearsOn, ZenonT(60)
  <2>5. (h \o d) \o c = h \o (d \o c)
    <3> HIDE DEF h
    <3>1. QED
      BY <1>3, ConcatAssociative
  <2>7. d \o c \in Seq(Evt)
    OBVIOUS
  <2>8. t[k + 1].heard = h \o (d \o c)
    BY <2>2, <2>4, <2>5
  <2> HIDE DEF h
  <2>6. QED
    BY <2>7, <2>8
<1> HIDE DEF H
<1>6. Len(w) \in H
  BY <1>2, <1>4, <1>5, Induction
<1>7. Grown(Len(w))
  <2> HIDE DEF Grown
  <2>1. QED
    BY <1>2, <1>6 DEF H
<1>8. QED
  BY <1>2, <1>3, <1>7

LEMMA DataIs ==
  ASSUME NEW w \in Seq(Byte)
  PROVE  /\ Stream!Data(w) \in Seq(Evt) /\ Len(Stream!Data(w)) = Len(w)
         /\ \A k \in 1 .. Len(w) : Stream!Data(w)[k] = [ev |-> "data", arg |-> <<w[k]>>]
<1> DEFINE n == Len(w)
           x(k) == [ev |-> "data", arg |-> <<w[k]>>]
<1>1. n \in Nat /\ DOMAIN w = 1 .. n /\ \A k \in 1 .. n : w[k] \in Byte
  BY LenProperties, ElementOfSeq
<1>2. ASSUME NEW k \in 1 .. n PROVE x(k) \in Evt
  <2>1. <<w[k]>> \in Seq(Byte)
    BY <1>1
  <2>2. QED
    BY <2>1 DEF Evt
<1>3. Stream!Data(w) = [k \in 1 .. n |-> x(k)]
  BY <1>1 DEF Stream!Data
<1> HIDE DEF n, x
<1>4. QED
  BY <1>1, <1>2, <1>3 DEF n, x

LEMMA DataBoth ==
  ASSUME NEW v \in Seq(Byte), NEW w \in Seq(Byte)
  PROVE  Stream!Data(v \o w) = Stream!Data(v) \o Stream!Data(w)
<1> DEFINE a == Stream!Data(v)
           b == Stream!Data(w)
           c == Stream!Data(v \o w)
<1>1. /\ v \o w \in Seq(Byte) /\ Len(v \o w) = Len(v) + Len(w)
      /\ \A i \in 1 .. Len(v) + Len(w) :
           (v \o w)[i] = IF i <= Len(v) THEN v[i] ELSE w[i - Len(v)]
  BY ConcatProperties
<1>2. /\ a \in Seq(Evt) /\ Len(a) = Len(v)
      /\ \A k \in 1 .. Len(v) : a[k] = [ev |-> "data", arg |-> <<v[k]>>]
  BY DataIs
<1>3. /\ b \in Seq(Evt) /\ Len(b) = Len(w)
      /\ \A k \in 1 .. Len(w) : b[k] = [ev |-> "data", arg |-> <<w[k]>>]
  BY DataIs
<1>4. /\ c \in Seq(Evt) /\ Len(c) = Len(v) + Len(w)
      /\ \A k \in 1 .. Len(v) + Len(w) : c[k] = [ev |-> "data", arg |-> <<(v \o w)[k]>>]
  BY <1>1, DataIs
<1> HIDE DEF a, b, c
<1>5. /\ a \o b \in Seq(Evt) /\ Len(a \o b) = Len(v) + Len(w)
      /\ \A i \in 1 .. Len(v) + Len(w) :
           (a \o b)[i] = IF i <= Len(v) THEN a[i] ELSE b[i - Len(v)]
  <2>1. a \in Seq(Evt) /\ b \in Seq(Evt) /\ Len(a) = Len(v) /\ Len(b) = Len(w)
    BY <1>2, <1>3
  <2>2. /\ a \o b \in Seq(Evt) /\ Len(a \o b) = Len(a) + Len(b)
        /\ \A i \in 1 .. Len(a) + Len(b) :
             (a \o b)[i] = IF i <= Len(a) THEN a[i] ELSE b[i - Len(a)]
    BY <2>1, ConcatProperties
  <2>3. QED
    BY <2>1, <2>2
<1>6. ASSUME NEW i \in 1 .. Len(v) + Len(w) PROVE c[i] = (a \o b)[i]
  <2>1. CASE i <= Len(v)
    <3>1. i \in 1 .. Len(v)
      BY <2>1
    <3>2. QED
      BY <1>1, <1>2, <1>4, <1>5, <2>1, <3>1
  <2>2. CASE ~(i <= Len(v))
    <3>1. i - Len(v) \in 1 .. Len(w)
      BY <2>2
    <3>2. QED
      BY <1>1, <1>3, <1>4, <1>5, <2>2, <3>1
  <2>3. QED
    BY <2>1, <2>2
<1>7. c = a \o b
  BY <1>4, <1>5, <1>6, SeqEqual
<1>8. QED
  BY <1>7 DEF a, b, c

LEMMA DataMore ==
  ASSUME NEW w \in Seq(Byte), NEW k \in 1 .. Len(w), NEW m \in 1 .. k, NEW h \in Seq(Evt)
  PROVE  /\ SubSeq(w, m, k - 1) \in Seq(Byte) /\ w[k] \in Byte
         /\ h \o Stream!Data(SubSeq(w, m, k - 1)) \in Seq(Evt)
         /\ (h \o Stream!Data(SubSeq(w, m, k - 1))) \o Stream!Data(<<w[k]>>) = h \o Stream!Data(SubSeq(w, m, k))
<1> DEFINE v == SubSeq(w, m, k - 1)
<1>1. w[k] \in Byte /\ <<w[k]>> \in Seq(Byte) /\ v \in Seq(Byte)
  <2>1. \A i \in m .. k - 1 : w[i] \in Byte
    BY ElementOfSeq
  <2>2. m \in Int /\ k - 1 \in Int
    OBVIOUS
  <2>3. v \in Seq(Byte)
    BY <2>1, <2>2, SubSeqProperties
  <2>4. QED
    BY <2>3, ElementOfSeq
<1>2. SubSeq(w, m, k) = v \o <<w[k]>>
  <2>1. m \in 1 .. Len(w) /\ k \in m .. Len(w)
    OBVIOUS
  <2>2. QED
    BY <2>1, SubSeqRecursiveSecond
<1> HIDE DEF v
<1>3. Stream!Data(SubSeq(w, m, k)) = Stream!Data(v) \o Stream!Data(<<w[k]>>)
  BY <1>1, <1>2, DataBoth
<1>4. Stream!Data(v) \in Seq(Evt) /\ Stream!Data(<<w[k]>>) \in Seq(Evt)
  BY <1>1, DataIs
<1>5. /\ (h \o Stream!Data(v)) \o Stream!Data(<<w[k]>>) = h \o (Stream!Data(v) \o Stream!Data(<<w[k]>>))
      /\ h \o Stream!Data(v) \in Seq(Evt)
  <2> DEFINE a == Stream!Data(v)
             b == Stream!Data(<<w[k]>>)
  <2>1. a \in Seq(Evt) /\ b \in Seq(Evt)
    BY <1>4
  <2> HIDE DEF a, b
  <2>2. (h \o a) \o b = h \o (a \o b) /\ h \o a \in Seq(Evt)
    BY <2>1, ConcatAssociative, SMTT(30)
  <2>3. QED
    BY <2>2 DEF a, b
<1>6. QED
  BY <1>1, <1>3, <1>5 DEF v

(* What telnet_send makes of a byte is read as this byte.                  *)
LEMMA EscapedRead ==
  ASSUME NEW b \in Byte, NEW o \in Byte, NEW f \in Seq(Byte), NEW h \in Seq(Evt)
  PROVE  /\ Stream!Escaped(b) \in Seq(Byte)
         /\ ReadAs(Stream!Escaped(b), At("data", o, f, h), At("data", o, f, h \o Stream!Data(<<b>>)))
         /\ o # "COMPRESS" =>
              ReadAs(Stream!Escaped(b), At("sbData", o, f, h), At("sbData", o, Append(f, b), h))
<1> DEFINE d == At("data", o, f, h)
           s == At("sbData", o, f, h)
<1>1. d \in Ideal /\ s \in Ideal /\ At("iac", o, f, h) \in Ideal /\ At("sbDataIac", o, f, h) \in Ideal
  BY AtIdeal
<1>2. \A i \in {"data", "sbData", "iac", "sbDataIac"} :
        /\ At(i, o, f, h).state = i /\ At(i, o, f, h).telopt = o
        /\ At(i, o, f, h).buffer = f /\ At(i, o, f, h).heard = h
  BY AtIs
<1>3. CASE b = "IAC"
  <2>1. Stream!Escaped(b) = <<"IAC">> \o <<"IAC">> /\ <<"IAC">> \in Seq(Byte) /\ "IAC" \in Byte
    BY <1>3 DEF Stream!Escaped, Byte
  <2>2. /\ Hears(d, "IAC") = At("iac", o, f, h)
        /\ Hears(At("iac", o, f, h), "IAC") = At("data", o, f, h \o Stream!Data(<<"IAC">>))
    BY <1>2 DEF Hears, HearsIac
  <2>3. /\ Hears(s, "IAC") = At("sbDataIac", o, f, h)
        /\ Hears(At("sbDataIac", o, f, h), "IAC") = At("sbData", o, Append(f, "IAC"), h)
    BY <1>2 DEF Hears, HearsSbData, HearsSbDataIac
  <2> HIDE DEF d, s
  <2>4. /\ ReadAs(<<"IAC">>, d, At("iac", o, f, h))
        /\ ReadAs(<<"IAC">>, At("iac", o, f, h), At("data", o, f, h \o Stream!Data(<<"IAC">>)))
        /\ ReadAs(<<"IAC">>, s, At("sbDataIac", o, f, h))
        /\ ReadAs(<<"IAC">>, At("sbDataIac", o, f, h), At("sbData", o, Append(f, "IAC"), h))
    BY <1>1, <2>1, <2>2, <2>3, ReadOne
  <2>5. /\ ReadAs(<<"IAC">> \o <<"IAC">>, d, At("data", o, f, h \o Stream!Data(<<"IAC">>)))
        /\ ReadAs(<<"IAC">> \o <<"IAC">>, s, At("sbData", o, Append(f, "IAC"), h))
    BY <2>1, <2>4, ReadBoth
  <2>6. <<"IAC">> \o <<"IAC">> \in Seq(Byte)
    BY <2>1
  <2>7. QED
    BY <1>3, <2>1, <2>5, <2>6 DEF d, s
<1>4. CASE b # "IAC"
  <2>1. Stream!Escaped(b) = <<b>> /\ <<b>> \in Seq(Byte)
    BY <1>4 DEF Stream!Escaped
  <2>2. Hears(d, b) = At("data", o, f, h \o Stream!Data(<<b>>))
    BY <1>2, <1>4 DEF Hears
  <2>3. o # "COMPRESS" => Hears(s, b) = At("sbData", o, Append(f, b), h)
    BY <1>2, <1>4 DEF Hears, HearsSbData
  <2> HIDE DEF d, s
  <2>4. ReadAs(<<b>>, d, Hears(d, b)) /\ ReadAs(<<b>>, s, Hears(s, b))
    BY <1>1, ReadOne
  <2>5. QED
    BY <2>1, <2>2, <2>3, <2>4 DEF d, s
<1>5. QED
  BY <1>3, <1>4

(* A sequence of pieces is put together piece after piece.                 *)
LEMMA FlatGrows ==
  ASSUME NEW A, NEW p \in Seq(Seq(A))
  PROVE  \E g \in [0 .. Len(p) -> Seq(A)] :
           /\ g[0] = <<>> /\ Stream!Flat(p) = g[Len(p)]
           /\ \A k \in 1 .. Len(p) : g[k] = g[k - 1] \o p[k]
<1> DEFINE n == Len(p)
           S == Seq(A)
           F == [q \in (1 .. n) \X S |-> q[2] \o p[q[1]]]
           Rule(g) == g = [k \in 0 .. n |-> IF k = 0 THEN <<>> ELSE g[k - 1] \o p[k]]
<1>1. n \in Nat /\ (\A k \in 1 .. n : p[k] \in S) /\ <<>> \in S
      /\ \A v, w \in S : v \o w \in S
  BY LenProperties, ElementOfSeq
<1> HIDE DEF n, S
<1>2. F \in [(1 .. n) \X S -> S]
  <2>1. ASSUME NEW q \in (1 .. n) \X S PROVE q[2] \o p[q[1]] \in S
    <3>1. q[1] \in 1 .. n /\ q[2] \in S
      OBVIOUS
    <3>2. QED
      BY <1>1, <3>1
  <2>2. QED
    BY <2>1
<1>3. \A k \in 1 .. n, v \in S : F[<<k, v>>] = v \o p[k]
  OBVIOUS
<1> HIDE DEF F
<1>4. \E f : Iterates(f, n, S, <<>>, F)
  <2> DEFINE base == <<>>
  <2>1. base \in S
    BY <1>1
  <2> HIDE DEF base
  <2>2. \E f : Iterates(f, n, S, base, F)
    BY <1>1, <1>2, <2>1, Recursion
  <2>3. QED
    BY <2>2 DEF base
<1>5. PICK f \in [0 .. n -> S] :
        f[0] = <<>> /\ \A k \in 1 .. n : f[k] = F[<<k, f[k - 1]>>]
  BY <1>4 DEF Iterates
<1>6. ASSUME NEW k \in 1 .. n PROVE f[k] = f[k - 1] \o p[k]
  <2>1. k \in 0 .. n /\ k # 0 /\ k - 1 \in 0 .. n
    BY <1>1
  <2>2. f[k - 1] \in S
    BY <2>1
  <2>3. f[k] = F[<<k, f[k - 1]>>]
    BY <1>5, <2>1
  <2>4. QED
    BY <1>3, <2>2, <2>3
<1>7. Rule(f)
  <2> DEFINE g == [k \in 0 .. n |-> IF k = 0 THEN <<>> ELSE f[k - 1] \o p[k]]
  <2>1. ASSUME NEW k \in 0 .. n PROVE f[k] = g[k]
    <3>1. k = 0 \/ k \in 1 .. n
      BY <1>1
    <3>2. QED
      BY <1>5, <1>6, <3>1
  <2>2. g = [k \in 0 .. n |-> g[k]]
    OBVIOUS
  <2> HIDE DEF g
  <2>3. f = g
    BY <2>1, <2>2
  <2>4. QED
    BY <2>3 DEF g
<1>8. ASSUME NEW g, Rule(g)
      PROVE  /\ g \in [0 .. n -> S] /\ g[0] = <<>>
             /\ \A k \in 1 .. n : g[k] = g[k - 1] \o p[k]
  <2>0. \A k \in 0 .. n : g[k] = IF k = 0 THEN <<>> ELSE g[k - 1] \o p[k]
    BY <1>8, Zenon
  <2>1. g[0] = <<>> /\ \A k \in 1 .. n : g[k] = g[k - 1] \o p[k]
    <3>1. 0 \in 0 .. n /\ \A k \in 1 .. n : k \in 0 .. n /\ k # 0
      BY <1>1
    <3>2. QED
      BY <2>0, <3>1, Zenon
  <2> DEFINE H == {k \in Nat : k <= n => g[k] \in S}
  <2>2. 0 \in H
    <3>1. g[0] \in S
      BY <1>1, <2>1
    <3>2. QED
      BY <3>1
  <2>3. ASSUME NEW k \in Nat, k \in H PROVE k + 1 \in H
    <3>1. SUFFICES ASSUME k + 1 <= n PROVE g[k + 1] \in S
      OBVIOUS
    <3>2. k <= n /\ k + 1 \in 1 .. n /\ (k + 1) - 1 = k
      BY <1>1, <3>1
    <3>3. g[k] \in S /\ p[k + 1] \in S
      BY <1>1, <2>3, <3>2
    <3>4. g[k + 1] = g[(k + 1) - 1] \o p[k + 1]
      BY <2>1, <3>2, Zenon
    <3>5. QED
      BY <1>1, <3>2, <3>3, <3>4
  <2> HIDE DEF H
  <2>4. \A k \in Nat : k \in H
    BY <2>2, <2>3, Induction
  <2>5. \A k \in 0 .. n : g[k] \in S
    BY <1>1, <2>4 DEF H
  <2>6. QED
    BY <1>8, <2>1, <2>5
<1>9. Rule(CHOOSE g : Rule(g))
  <2> HIDE DEF Rule
  <2>1. QED
    BY <1>7
<1>10. Stream!Flat(p) = (CHOOSE g : Rule(g))[n]
  BY DEF Stream!Flat, n
<1> HIDE DEF Rule
<1>11. QED
  BY <1>8, <1>9, <1>10 DEF n, S

(* One byte more of w, of it and of what it is appended to.                *)
LEMMA Longer ==
  ASSUME NEW w \in Seq(Byte), NEW k \in 0 .. Len(w) - 1, NEW f \in Seq(Byte)
  PROVE  /\ SubSeq(w, 1, k) \in Seq(Byte) /\ w[k + 1] \in Byte
         /\ f \o SubSeq(w, 1, k) \in Seq(Byte)
         /\ Append(f \o SubSeq(w, 1, k), w[k + 1]) = f \o SubSeq(w, 1, k + 1)
<1> DEFINE v == SubSeq(w, 1, k)
           b == w[k + 1]
<1>1. v \in Seq(Byte) /\ b \in Byte
  <2>1. \A i \in 1 .. k : w[i] \in Byte
    BY ElementOfSeq
  <2>2. v \in Seq(Byte)
    BY <2>1, SubSeqProperties
  <2>3. QED
    BY <2>2, ElementOfSeq
<1>2. SubSeq(w, 1, k + 1) = Append(v, b)
  <2>1. 1 \in 1 .. Len(w) /\ k + 1 \in 1 .. Len(w) /\ (k + 1) - 1 = k
    OBVIOUS
  <2>2. SubSeq(w, 1, k + 1) = SubSeq(w, 1, (k + 1) - 1) \o <<w[k + 1]>>
    BY <2>1, SubSeqRecursiveSecond
  <2>3. SubSeq(w, 1, k + 1) = v \o <<b>>
    BY <2>1, <2>2
  <2> HIDE DEF v, b
  <2>4. v \o <<b>> = Append(v, b)
    BY <1>1, AppendIsConcat
  <2>5. QED
    BY <2>3, <2>4
<1> HIDE DEF v, b
<1>3. f \o v \in Seq(Byte) /\ Append(f \o v, b) = f \o Append(v, b)
  <2>1. f \o v \in Seq(Byte) /\ <<b>> \in Seq(Byte)
    BY <1>1
  <2>2. (f \o v) \o <<b>> = f \o (v \o <<b>>)
    BY <1>1, <2>1, ConcatAssociative, SMTT(30)
  <2>3. Append(f \o v, b) = (f \o v) \o <<b>> /\ Append(v, b) = v \o <<b>>
    BY <1>1, <2>1, AppendIsConcat
  <2>4. QED
    BY <2>1, <2>2, <2>3
<1>4. QED
  BY <1>1, <1>2, <1>3 DEF v, b

(* What telnet_send makes of a text is read as this text.                  *)
LEMMA EscapeRead ==
  ASSUME NEW text \in Seq(Byte), NEW o \in Byte, NEW f \in Seq(Byte), NEW h \in Seq(Evt)
  PROVE  /\ Stream!Escape(text) \in Seq(Byte)
         /\ ReadAs(Stream!Escape(text), At("data", o, f, h), At("data", o, f, h \o Stream!Data(text)))
         /\ o # "COMPRESS" =>
              ReadAs(Stream!Escape(text), At("sbData", o, f, h), At("sbData", o, f \o text, h))
<1> DEFINE n == Len(text)
           p == [k \in DOMAIN text |-> Stream!Escaped(text[k])]
           v(k) == SubSeq(text, 1, k)
           Fine(w, k) ==
             /\ w \in Seq(Byte)
             /\ ReadAs(w, At("data", o, f, h), At("data", o, f, h \o Stream!Data(v(k))))
             /\ o # "COMPRESS" =>
                  ReadAs(w, At("sbData", o, f, h), At("sbData", o, f \o v(k), h))
<1>1. n \in Nat /\ DOMAIN text = 1 .. n /\ \A k \in 1 .. n : text[k] \in Byte
  BY LenProperties, ElementOfSeq
<1>2. \A b \in Byte : Stream!Escaped(b) \in Seq(Byte)
  <2>1. "IAC" \in Byte
    BY DEF Byte
  <2>2. QED
    BY <2>1 DEF Stream!Escaped
<1>3. p \in Seq(Seq(Byte)) /\ Len(p) = n /\ \A k \in 1 .. n : p[k] = Stream!Escaped(text[k])
  <2>1. p = [k \in 1 .. n |-> Stream!Escaped(text[k])]
    BY <1>1
  <2>2. \A k \in 1 .. n : Stream!Escaped(text[k]) \in Seq(Byte)
    BY <1>1, <1>2
  <2> HIDE DEF n
  <2>3. QED
    BY <1>1, <2>1, <2>2
<1>4. Stream!Escape(text) = Stream!Flat(p)
  BY DEF Stream!Escape
<1> HIDE DEF p
<1>5. PICK g \in [0 .. n -> Seq(Byte)] :
        /\ g[0] = <<>> /\ Stream!Flat(p) = g[n]
        /\ \A k \in 1 .. n : g[k] = g[k - 1] \o p[k]
  <2> DEFINE A == Byte
  <2>1. p \in Seq(Seq(A))
    BY <1>3
  <2> HIDE DEF A
  <2>2. \E g \in [0 .. Len(p) -> Seq(A)] :
          /\ g[0] = <<>> /\ Stream!Flat(p) = g[Len(p)]
          /\ \A k \in 1 .. Len(p) : g[k] = g[k - 1] \o p[k]
    BY <2>1, FlatGrows, Zenon
  <2>3. QED
    BY <1>3, <2>2 DEF A
<1> DEFINE H == {k \in Nat : k <= n => Fine(g[k], k)}
<1>6. 0 \in H
  <2>1. v(0) = <<>> /\ h \o <<>> = h /\ f \o <<>> = f /\ <<>> \in Seq(Byte)
    OBVIOUS
  <2>2. Stream!Data(<<>>) = <<>>
    <3>1. /\ Stream!Data(<<>>) \in Seq(Evt) /\ Len(Stream!Data(<<>>)) = 0
      BY <2>1, DataIs
    <3>2. QED
      BY <3>1, EmptySeq
  <2>3. At("data", o, f, h) \in Ideal /\ At("sbData", o, f, h) \in Ideal
    BY AtIdeal
  <2>4. /\ ReadAs(<<>>, At("data", o, f, h), At("data", o, f, h))
        /\ ReadAs(<<>>, At("sbData", o, f, h), At("sbData", o, f, h))
    BY <2>3, ReadNothing
  <2>5. Fine(<<>>, 0)
    BY <2>1, <2>2, <2>4
  <2> HIDE DEF Fine
  <2>6. QED
    BY <1>5, <2>5
<1>7. ASSUME NEW k \in Nat, k \in H PROVE k + 1 \in H
  <2>1. SUFFICES ASSUME k + 1 <= n PROVE Fine(g[k + 1], k + 1)
    <3> HIDE DEF Fine
    <3>1. QED
      OBVIOUS
  <2>2. Fine(g[k], k)
    <3> HIDE DEF Fine
    <3>1. k <= n
      BY <1>1, <2>1
    <3>2. QED
      BY <1>7, <3>1
  <2> DEFINE b == text[k + 1]
             u == v(k)
             z == v(k + 1)
             w == g[k]
  <2>3. k \in 0 .. n - 1 /\ k + 1 \in 1 .. n /\ (k + 1) - 1 = k
    BY <1>1, <2>1
  <2>4. /\ u \in Seq(Byte) /\ b \in Byte /\ f \o u \in Seq(Byte)
        /\ Append(f \o u, b) = f \o z
    BY <2>3, Longer
  <2>5. h \o Stream!Data(u) \in Seq(Evt) /\ (h \o Stream!Data(u)) \o Stream!Data(<<b>>) = h \o Stream!Data(z)
    <3> DEFINE j == k + 1
    <3>1. j \in 1 .. Len(text) /\ 1 \in 1 .. j /\ j - 1 = k
      BY <2>3
    <3> HIDE DEF j
    <3>2. /\ h \o Stream!Data(SubSeq(text, 1, j - 1)) \in Seq(Evt)
          /\ (h \o Stream!Data(SubSeq(text, 1, j - 1))) \o Stream!Data(<<text[j]>>)
               = h \o Stream!Data(SubSeq(text, 1, j))
      BY <3>1, DataMore
    <3>3. QED
      BY <3>1, <3>2 DEF j
  <2>6. g[k + 1] = w \o Stream!Escaped(b)
    <3>0. \A i \in 1 .. n : g[i] = g[i - 1] \o p[i]
      BY <1>5
    <3> DEFINE i == k + 1
    <3>4. i \in 1 .. n /\ i - 1 = k
      BY <2>3
    <3> HIDE DEF i
    <3>5. g[i] = g[i - 1] \o p[i]
      BY <3>0, <3>4, Zenon
    <3>1. g[k + 1] = g[k] \o p[k + 1]
      BY <3>4, <3>5 DEF i
    <3>2. QED
      BY <1>3, <2>3, <3>1
  <2>7. /\ w \in Seq(Byte)
        /\ ReadAs(w, At("data", o, f, h), At("data", o, f, h \o Stream!Data(u)))
        /\ o # "COMPRESS" =>
             ReadAs(w, At("sbData", o, f, h), At("sbData", o, f \o u, h))
    BY <2>2
  <2> HIDE DEF b, u, z, w, v, Fine
  <2>8. /\ Stream!Escaped(b) \in Seq(Byte)
        /\ ReadAs(Stream!Escaped(b), At("data", o, f, h \o Stream!Data(u)), At("data", o, f, h \o Stream!Data(z)))
    BY <2>4, <2>5, EscapedRead
  <2>9. o # "COMPRESS" =>
          ReadAs(Stream!Escaped(b), At("sbData", o, f \o u, h), At("sbData", o, f \o z, h))
    BY <2>4, EscapedRead
  <2>10. /\ w \o Stream!Escaped(b) \in Seq(Byte)
         /\ ReadAs(w \o Stream!Escaped(b), At("data", o, f, h), At("data", o, f, h \o Stream!Data(z)))
         /\ o # "COMPRESS" =>
              ReadAs(w \o Stream!Escaped(b), At("sbData", o, f, h), At("sbData", o, f \o z, h))
    BY <2>7, <2>8, <2>9, ReadBoth
  <2>11. QED
    BY <2>6, <2>10 DEF Fine, z
<1> HIDE DEF H
<1>8. n \in H
  BY <1>1, <1>6, <1>7, Induction
<1>9. Fine(g[n], n)
  <2> HIDE DEF Fine
  <2>1. QED
    BY <1>1, <1>8 DEF H
<1>10. v(n) = text
  BY <1>1, SubSeqFull
<1>11. QED
  BY <1>4, <1>5, <1>9, <1>10

(* Bytes without IAC are data.                                             *)
LEMMA PlainRead ==
  ASSUME NEW w \in Seq(Byte), \A k \in 1 .. Len(w) : w[k] # "IAC",
         NEW o \in Byte, NEW f \in Seq(Byte), NEW h \in Seq(Evt)
  PROVE  ReadAs(w, At("data", o, f, h), At("data", o, f, h \o Stream!Data(w)))
<1> DEFINE n == Len(w)
           e(k) == At("data", o, f, h \o Stream!Data(SubSeq(w, 1, k)))
           t == [k \in 0 .. n |-> e(k)]
<1>1. n \in Nat
  OBVIOUS
<1>2. e(0) = At("data", o, f, h)
  <2>1. SubSeq(w, 1, 0) = <<>> /\ h \o <<>> = h /\ <<>> \in Seq(Byte)
    OBVIOUS
  <2>2. /\ Stream!Data(<<>>) \in Seq(Evt) /\ Len(Stream!Data(<<>>)) = 0
    BY <2>1, DataIs
  <2>3. Stream!Data(<<>>) = <<>>
    BY <2>2, EmptySeq
  <2>4. QED
    BY <2>1, <2>3
<1>3. e(n) = At("data", o, f, h \o Stream!Data(w))
  BY SubSeqFull
<1>4. ASSUME NEW k \in 1 .. n
      PROVE  e(k - 1) \in Ideal /\ e(k) = Hears(e(k - 1), w[k])
  <2> DEFINE a == h \o Stream!Data(SubSeq(w, 1, k - 1))
             c == h \o Stream!Data(SubSeq(w, 1, k))
  <2>1. a \in Seq(Evt) /\ w[k] \in Byte /\ a \o Stream!Data(<<w[k]>>) = c
    <3>1. 1 \in 1 .. k /\ k \in 1 .. Len(w)
      OBVIOUS
    <3>2. QED
      BY <3>1, DataMore
  <2> HIDE DEF a, c
  <2>2. At("data", o, f, a) \in Ideal
    BY <2>1, AtIdeal
  <2>3. Hears(At("data", o, f, a), w[k]) = At("data", o, f, a \o Stream!Data(<<w[k]>>))
    BY AtIs DEF Hears
  <2>4. QED
    BY <2>1, <2>2, <2>3 DEF a, c
<1>5. e(n) \in Ideal
  <2>1. h \o Stream!Data(w) \in Seq(Evt)
    <3> DEFINE d == Stream!Data(w)
    <3>1. d \in Seq(Evt)
      BY DataIs
    <3> HIDE DEF d
    <3>2. h \o d \in Seq(Evt)
      BY <3>1
    <3>3. QED
      BY <3>2 DEF d
  <2>2. QED
    BY <1>3, <2>1, AtIdeal
<1> HIDE DEF e
<1>6. ASSUME NEW k \in 0 .. n PROVE e(k) \in Ideal
  <2>1. CASE k = n
    BY <1>5, <2>1
  <2>2. CASE k # n
    <3>1. k + 1 \in 1 .. n /\ (k + 1) - 1 = k
      BY <1>1, <2>2
    <3>2. e((k + 1) - 1) \in Ideal
      BY <1>4, <3>1
    <3>3. QED
      BY <3>1, <3>2
  <2>3. QED
    BY <2>1, <2>2
<1>7. Reads(t, w, e(0), e(n))
  <2>1. t \in [0 .. n -> Ideal] /\ t[0] = e(0) /\ t[n] = e(n)
    BY <1>1, <1>6
  <2>2. ASSUME NEW k \in 1 .. n PROVE t[k] = Hears(t[k - 1], w[k])
    <3>1. t[k] = e(k) /\ t[k - 1] = e(k - 1)
      BY <1>1
    <3> HIDE DEF t
    <3>2. QED
      BY <1>4, <3>1
  <2> HIDE DEF t
  <2>3. QED
    BY <2>1, <2>2 DEF Reads
<1>8. QED
  BY <1>2, <1>3, <1>7 DEF ReadAs

(* telnet_printf puts no IAC into a text that has none.                    *)
LEMMA TranslateIs ==
  ASSUME NEW text \in Seq({"x", "CR", "LF"})
  PROVE  /\ Stream!Translate(text) \in Seq(Byte)
         /\ \A k \in 1 .. Len(Stream!Translate(text)) : Stream!Translate(text)[k] # "IAC"
<1> DEFINE n == Len(text)
           A == Byte \ {"IAC"}
           p == [k \in DOMAIN text |-> Stream!Translated(text[k])]
<1>1. n \in Nat /\ DOMAIN text = 1 .. n /\ \A k \in 1 .. n : text[k] \in {"x", "CR", "LF"}
  BY LenProperties, ElementOfSeq
<1>2. \A b \in {"x", "CR", "LF"} : Stream!Translated(b) \in Seq(A)
  <2>1. {"x", "CR", "LF", "NUL"} \subseteq A
    BY DEF Byte
  <2> HIDE DEF A
  <2>2. <<"CR", "NUL">> \in Seq(A) /\ <<"CR", "LF">> \in Seq(A) /\ <<"x">> \in Seq(A)
    BY <2>1
  <2>3. QED
    BY <2>2 DEF Stream!Translated, Stream!Escaped
<1> HIDE DEF A
<1>3. p \in Seq(Seq(A)) /\ Len(p) = n
  <2>1. p = [k \in 1 .. n |-> Stream!Translated(text[k])]
    BY <1>1
  <2>2. \A k \in 1 .. n : Stream!Translated(text[k]) \in Seq(A)
    BY <1>1, <1>2
  <2> HIDE DEF n
  <2>3. QED
    BY <1>1, <2>1, <2>2
<1>4. Stream!Translate(text) = Stream!Flat(p)
  BY DEF Stream!Translate
<1> HIDE DEF p
<1>5. PICK g \in [0 .. n -> Seq(A)] : Stream!Flat(p) = g[n]
  <2>1. \E g \in [0 .. Len(p) -> Seq(A)] :
          /\ g[0] = <<>> /\ Stream!Flat(p) = g[Len(p)]
          /\ \A k \in 1 .. Len(p) : g[k] = g[k - 1] \o p[k]
    BY <1>3, FlatGrows, Zenon
  <2>2. QED
    BY <1>3, <2>1
<1>6. Stream!Translate(text) \in Seq(A)
  BY <1>1, <1>4, <1>5
<1> DEFINE w == Stream!Translate(text)
<1> HIDE DEF w
<1>7. w \in Seq(A)
  BY <1>6 DEF w
<1>8. \A k \in 1 .. Len(w) : w[k] \in A
  BY <1>7, ElementOfSeq
<1>9. A \subseteq Byte /\ "IAC" \notin A
  BY DEF A
<1>10. w \in Seq(Byte)
  BY <1>7, <1>9
<1>11. QED
  BY <1>8, <1>9, <1>10 DEF w

(* The receiver that hears the bytes as they come, and one that is handed  *)
(* them in pieces: after k bytes of a piece the tracker r is where s is,   *)
(* its bytes of data from start on not yet raised.                         *)
Follows(r, piece, k, s) ==
  \/ /\ r.state # "data"
     /\ s = At(r.state, r.telopt, r.buffer, r.heard)
  \/ /\ r.state = "data" /\ r.start <= k
     /\ s = At("data", r.telopt, r.buffer, r.heard \o Stream!Data(SubSeq(piece, r.start + 1, k)))
  \/ /\ r.state = "data" /\ r.start = k + 1
     /\ s = At("skip", r.telopt, r.buffer, r.heard)

Trk(state, telopt, buffer, start, heard, misread) ==
  [state |-> state, telopt |-> telopt, buffer |-> buffer,
   start |-> start, heard |-> heard, misread |-> misread]

Where == {"data", "iac", "negotiate", "sb", "sbData", "sbDataIac"}

LEMMA TrkIs ==
  ASSUME NEW a, NEW o, NEW f, NEW n, NEW h, NEW m
  PROVE  /\ Trk(a, o, f, n, h, m).state = a /\ Trk(a, o, f, n, h, m).telopt = o
         /\ Trk(a, o, f, n, h, m).buffer = f /\ Trk(a, o, f, n, h, m).start = n
         /\ Trk(a, o, f, n, h, m).heard = h /\ Trk(a, o, f, n, h, m).misread = m
BY DEF Trk

LEMMA TrkMoves ==
  ASSUME NEW a, NEW o, NEW f, NEW n, NEW h, NEW m, NEW x
  PROVE  /\ Stream!Goto(Trk(a, o, f, n, h, m), x) = Trk(x, o, f, n, h, m)
         /\ Stream!Raise(Trk(a, o, f, n, h, m), x) = Trk(a, o, f, n, h \o x, m)
         /\ Stream!Resume(Trk(a, o, f, n, h, m), x) = Trk("data", o, f, x + 1, h, m)
<1>1. Stream!Goto(Trk(a, o, f, n, h, m), x) = Trk(x, o, f, n, h, m)
  BY DEF Trk, Stream!Goto
<1>2. Stream!Raise(Trk(a, o, f, n, h, m), x) = Trk(a, o, f, n, h \o x, m)
  <2> DEFINE r == Trk(a, o, f, n, h, m)
             y == h \o x
  <2>0. r.heard = h
    BY TrkIs
  <2> HIDE DEF r
  <2>1. Stream!Raise(r, x) = [r EXCEPT !.heard = y]
    BY <2>0 DEF Stream!Raise
  <2> HIDE DEF y
  <2>2. [r EXCEPT !.heard = y] = Trk(a, o, f, n, y, m)
    BY DEF Trk, r
  <2>3. QED
    BY <2>1, <2>2 DEF y, r
<1>3. Stream!Resume(Trk(a, o, f, n, h, m), x) = Trk("data", o, f, x + 1, h, m)
  <2> DEFINE r == Trk(a, o, f, n, h, m)
             y == x + 1
  <2>1. Stream!Resume(r, x) = [[r EXCEPT !.state = "data"] EXCEPT !.start = y]
    BY DEF Stream!Resume, Trk
  <2> HIDE DEF y
  <2>2. [r EXCEPT !.state = "data"] = Trk("data", o, f, n, h, m)
    BY DEF Trk
  <2>3. [Trk("data", o, f, n, h, m) EXCEPT !.start = y] = Trk("data", o, f, y, h, m)
    BY DEF Trk
  <2>4. QED
    BY <2>1, <2>2, <2>3 DEF y
<1>4. QED
  BY <1>1, <1>2, <1>3

LEMMA TrkSelects ==
  ASSUME NEW a, NEW o, NEW f, NEW n, NEW h, NEW m, NEW b
  PROVE  Stream!SbByte(Trk(a, o, f, n, h, m), b) = Trk("sbData", b, <<>>, n, h, m)
<1> DEFINE r == Trk(a, o, f, n, h, m)
           z == [r EXCEPT !.telopt = b, !.buffer = <<>>]
<1>1. z = Trk(a, b, <<>>, n, h, m)
  <2> DEFINE y == <<>>
  <2> HIDE DEF y
  <2>1. [r EXCEPT !.telopt = b, !.buffer = y] = [[r EXCEPT !.telopt = b] EXCEPT !.buffer = y]
    BY DEF Trk
  <2>2. [r EXCEPT !.telopt = b] = Trk(a, b, f, n, h, m)
    BY DEF Trk
  <2>3. [Trk(a, b, f, n, h, m) EXCEPT !.buffer = y] = Trk(a, b, y, n, h, m)
    BY DEF Trk
  <2>4. QED
    BY <2>1, <2>2, <2>3 DEF y
<1>2. Stream!SbByte(r, b) = Stream!Goto(z, "sbData")
  BY DEF Stream!SbByte
<1> HIDE DEF z
<1>3. QED
  BY <1>1, <1>2, TrkMoves

LEMMA TrkPasses ==
  ASSUME NEW a, NEW o, NEW f, NEW n, NEW h, NEW m, NEW piece, NEW i, i >= n
  PROVE  Stream!PassThrough(Trk(a, o, f, n, h, m), piece, i)
           = Trk(a, o, f, n, h \o Stream!Data(SubSeq(piece, n + 1, i)), m)
<1> DEFINE r == Trk(a, o, f, n, h, m)
           e == Stream!Data(SubSeq(piece, n + 1, i))
<1>1. r.start = n
  BY TrkIs
<1>2. Stream!PassThrough(r, piece, i) = Stream!Raise(r, e)
  <2> HIDE DEF r
  <2>1. QED
    BY <1>1 DEF Stream!PassThrough
<1> HIDE DEF e
<1>3. QED
  BY <1>2, TrkMoves DEF e

LEMMA TrkBuffers ==
  ASSUME NEW a, NEW o, NEW f, NEW n, NEW h, NEW m, NEW b, NEW i, Len(f) < BufferMax
  PROVE  Stream!BufferByte(Trk(a, o, f, n, h, m), b, i) = Trk("sbData", o, Append(f, b), n, h, m)
<1> DEFINE r == Trk(a, o, f, n, h, m)
           g == Append(f, b)
<1>1. r.buffer = f
  BY TrkIs
<1>2. Stream!BufferByte(r, b, i) = Stream!Goto([r EXCEPT !.buffer = g], "sbData")
  <2> HIDE DEF r
  <2>1. QED
    BY <1>1 DEF Stream!BufferByte
<1> HIDE DEF g
<1>3. [r EXCEPT !.buffer = g] = Trk(a, o, g, n, h, m)
  BY DEF Trk
<1>4. QED
  BY <1>2, <1>3, TrkMoves DEF g

LEMMA Misreads ==
  ASSUME NEW r \in Tracker, NEW b, NEW piece, NEW i \in Nat
  PROVE  /\ ~(i >= r.start) => /\ Stream!Goto(Stream!PassThrough(r, piece, i), "iac") \in Tracker
                               /\ Stream!Goto(Stream!PassThrough(r, piece, i), "iac").misread
         /\ ~(Len(r.buffer) < BufferMax) => /\ Stream!BufferByte(r, b, i) \in Tracker
                                            /\ Stream!BufferByte(r, b, i).misread
<1> DEFINE q == [r EXCEPT !.misread = TRUE]
<1>1. q \in Tracker /\ q.misread = TRUE
  BY DEF Tracker
<1>2. ~(i >= r.start) => Stream!PassThrough(r, piece, i) = q
  BY DEF Stream!PassThrough
<1>3. ~(Len(r.buffer) < BufferMax) => Stream!BufferByte(r, b, i) = Stream!Resume(q, i)
  BY DEF Stream!BufferByte
<1> HIDE DEF q
<1>4. Stream!Goto(q, "iac") \in Tracker /\ Stream!Goto(q, "iac").misread
  BY <1>1 DEF Stream!Goto, Tracker
<1>5. Stream!Resume(q, i) \in Tracker /\ Stream!Resume(q, i).misread
  <2> DEFINE j == i + 1
             p == [q EXCEPT !.state = "data"]
  <2>1. j \in Nat
    OBVIOUS
  <2>2. Stream!Resume(q, i) = [p EXCEPT !.start = j]
    BY <1>1 DEF Stream!Resume, Tracker
  <2>3. p \in Tracker /\ p.misread = TRUE
    BY <1>1 DEF Tracker
  <2> HIDE DEF j, p
  <2>4. [p EXCEPT !.start = j] \in Tracker /\ [p EXCEPT !.start = j].misread
    BY <2>1, <2>3 DEF Tracker
  <2>5. QED
    BY <2>2, <2>4
<1>6. QED
  BY <1>2, <1>3, <1>4, <1>5

LEMMA TrkTracker ==
  ASSUME NEW a \in Where, NEW o \in Byte, NEW f \in Seq(Byte), NEW n \in Nat,
         NEW h \in Seq(Evt), NEW m \in BOOLEAN
  PROVE  Trk(a, o, f, n, h, m) \in Tracker
BY DEF Trk, Tracker, Where

LEMMA TrackerIs ==
  ASSUME NEW r \in Tracker
  PROVE  /\ r = Trk(r.state, r.telopt, r.buffer, r.start, r.heard, r.misread)
         /\ r.state \in Where /\ r.telopt \in Byte /\ r.buffer \in Seq(Byte)
         /\ r.start \in Nat /\ r.heard \in Seq(Evt) /\ r.misread \in BOOLEAN
BY DEF Trk, Tracker, Where

(* Where a tracker is that has raised all it was given.                    *)
LEMMA FollowsAt ==
  ASSUME NEW piece \in Seq(Byte), NEW k \in 0 .. Len(piece), NEW o, NEW f,
         NEW h \in Seq(Evt), NEW m, NEW n
  PROVE  /\ n = k => Follows(Trk("data", o, f, n, h, m), piece, k, At("data", o, f, h))
         /\ n = k + 1 => Follows(Trk("data", o, f, n, h, m), piece, k, At("skip", o, f, h))
         /\ \A a \in Where \ {"data"} :
              Follows(Trk(a, o, f, n, h, m), piece, k, At(a, o, f, h))
<1>1. SubSeq(piece, k + 1, k) = <<>> /\ h \o <<>> = h /\ <<>> \in Seq(Byte)
  OBVIOUS
<1>2. /\ Stream!Data(<<>>) \in Seq(Evt) /\ Len(Stream!Data(<<>>)) = 0
  BY <1>1, DataIs
<1>3. Stream!Data(<<>>) = <<>>
  BY <1>2, EmptySeq
<1>4. n = k => Follows(Trk("data", o, f, n, h, m), piece, k, At("data", o, f, h))
  <2>1. h \o Stream!Data(SubSeq(piece, k + 1, k)) = h
    BY <1>1, <1>3
  <2> SUFFICES ASSUME n = k PROVE Follows(Trk("data", o, f, k, h, m), piece, k, At("data", o, f, h))
    OBVIOUS
  <2> DEFINE d == Stream!Data(SubSeq(piece, k + 1, k))
             r == Trk("data", o, f, k, h, m)
  <2>2. /\ r.state = "data" /\ r.start = k /\ r.telopt = o /\ r.buffer = f
        /\ r.heard = h /\ k <= k
    BY TrkIs
  <2> HIDE DEF r
  <2>3. At("data", o, f, h) = At("data", r.telopt, r.buffer, r.heard \o Stream!Data(SubSeq(piece, r.start + 1, k)))
    BY <2>1, <2>2
  <2>4. Follows(r, piece, k, At("data", o, f, h))
    BY <2>2, <2>3 DEF Follows
  <2>5. QED
    BY <2>4 DEF r
<1>5. n = k + 1 => Follows(Trk("data", o, f, n, h, m), piece, k, At("skip", o, f, h))
  BY TrkIs DEF Follows
<1>6. \A a \in Where \ {"data"} :
        Follows(Trk(a, o, f, n, h, m), piece, k, At(a, o, f, h))
  BY TrkIs DEF Follows
<1>7. QED
  BY <1>4, <1>5, <1>6

(* A byte moves the tracker as it moves the receiver it follows, unless    *)
(* the tracker misreads it.                                                *)
LEMMA ByteFollows ==
  ASSUME NEW r \in Tracker, NEW piece \in Seq(Byte), NEW k \in 0 .. Len(piece) - 1, NEW s
  PROVE  /\ Stream!ProcessByte(r, piece, k) \in Tracker
         /\ ~Stream!ProcessByte(r, piece, k).misread =>
              /\ ~r.misread
              /\ Follows(r, piece, k, s) =>
                   Follows(Stream!ProcessByte(r, piece, k), piece, k + 1, Hears(s, piece[k + 1]))
<1> DEFINE o == r.telopt
           f == r.buffer
           n == r.start
           h == r.heard
           m == r.misread
           b == piece[k + 1]
           Fol == Follows(r, piece, k, s)
           Fine(q) == /\ q \in Tracker
                      /\ ~q.misread => /\ ~m
                                       /\ Fol => Follows(q, piece, k + 1, Hears(s, b))
<1>1. /\ r = Trk(r.state, o, f, n, h, m) /\ r.state \in Where
      /\ o \in Byte /\ f \in Seq(Byte) /\ n \in Nat /\ h \in Seq(Evt) /\ m \in BOOLEAN
  BY TrackerIs
<1>2. k \in Nat /\ k + 1 \in 0 .. Len(piece) /\ k + 1 \in 1 .. Len(piece) /\ b \in Byte
  BY ElementOfSeq
<1>3. r.state # "data" => (Fol => s = At(r.state, o, f, h))
  BY DEF Follows
<1>4. r.state = "data" =>
        (Fol => \/ /\ n <= k
                   /\ s = At("data", o, f, h \o Stream!Data(SubSeq(piece, n + 1, k)))
                \/ n = k + 1 /\ s = At("skip", o, f, h))
  BY DEF Follows
<1> HIDE DEF o, f, n, h, m, b, Fol
<1>5. ASSUME NEW q \in Tracker, q.misread PROVE Fine(q)
  BY <1>5
<1>6. ASSUME NEW a \in Where, NEW o2 \in Byte, NEW f2 \in Seq(Byte), NEW n2 \in Nat,
             NEW h2 \in Seq(Evt),
             Fol => Follows(Trk(a, o2, f2, n2, h2, m), piece, k + 1, Hears(s, b))
      PROVE  Fine(Trk(a, o2, f2, n2, h2, m))
  <2> DEFINE q == Trk(a, o2, f2, n2, h2, m)
  <2>1. q \in Tracker /\ q.misread = m
    BY <1>1, TrkTracker, TrkIs
  <2>2. Fol => Follows(q, piece, k + 1, Hears(s, b))
    BY <1>6
  <2> HIDE DEF q
  <2>3. Fine(q)
    BY <2>1, <2>2
  <2>4. QED
    BY <2>3 DEF q
<1>7. ASSUME NEW a \in Where, a # "data", NEW o2 \in Byte, NEW f2 \in Seq(Byte),
             NEW n2 \in Nat, NEW h2 \in Seq(Evt), Fol => Hears(s, b) = At(a, o2, f2, h2)
      PROVE  Fine(Trk(a, o2, f2, n2, h2, m))
  <2>1. Follows(Trk(a, o2, f2, n2, h2, m), piece, k + 1, At(a, o2, f2, h2))
    BY <1>2, <1>7, FollowsAt
  <2> HIDE DEF Fine
  <2>2. QED
    BY <1>6, <1>7, <2>1
<1>8. ASSUME NEW o2 \in Byte, NEW f2 \in Seq(Byte), NEW h2 \in Seq(Evt),
             Fol => Hears(s, b) = At("data", o2, f2, h2)
      PROVE  Fine(Trk("data", o2, f2, k + 1, h2, m))
  <2>1. Follows(Trk("data", o2, f2, k + 1, h2, m), piece, k + 1, At("data", o2, f2, h2))
    BY <1>2, FollowsAt
  <2>2. k + 1 \in Nat /\ "data" \in Where
    BY <1>2 DEF Where
  <2> HIDE DEF Fine
  <2>3. QED
    BY <1>6, <1>8, <2>1, <2>2
<1>9. ASSUME Fol => Hears(s, b) = At("skip", o, f, h)
      PROVE  Fine(Trk("data", o, f, (k + 1) + 1, h, m))
  <2>1. Follows(Trk("data", o, f, (k + 1) + 1, h, m), piece, k + 1, At("skip", o, f, h))
    BY <1>1, <1>2, FollowsAt
  <2>2. (k + 1) + 1 \in Nat /\ "data" \in Where
    BY <1>2 DEF Where
  <2> HIDE DEF Fine
  <2>3. QED
    BY <1>1, <1>6, <1>9, <2>1, <2>2
<1>10. /\ Stream!Data(<<b>>) \in Seq(Evt) /\ Stream!Event("iac", <<b>>) \in Seq(Evt)
       /\ Stream!Event("negotiate", <<b>>) \in Seq(Evt) /\ Stream!Event("sub", f) \in Seq(Evt)
       /\ \A x, y \in Seq(Evt) : x \o y \in Seq(Evt)
  <2>1. \A x, y \in Seq(Evt) : x \o y \in Seq(Evt)
    OBVIOUS
  <2>2. QED
    BY <1>1, <1>2, <2>1, EventsAre
<1> HIDE DEF Fine
<1>11. ASSUME NEW a \in Where, NEW n2 \in Nat, NEW h2 \in Seq(Evt),
              Fol => Hears(s, b) = HearsIac(o, f, h2, b)
       PROVE  Fine(Stream!IacByte(Trk(a, o, f, n2, h2, m), b, k))
  <2> DEFINE q == Trk(a, o, f, n2, h2, m)
  <2>1. CASE b = "SB"
    <3>1. Stream!IacByte(q, b, k) = Trk("sb", o, f, n2, h2, m)
      BY <2>1, TrkMoves DEF Stream!IacByte
    <3>2. HearsIac(o, f, h2, b) = At("sb", o, f, h2)
      BY <2>1 DEF HearsIac
    <3>3. QED
      BY <1>1, <1>7, <1>11, <3>1, <3>2 DEF Where
  <2>2. CASE b = "WILL"
    <3>1. Stream!IacByte(q, b, k) = Trk("negotiate", o, f, n2, h2, m)
      BY <2>2, TrkMoves DEF Stream!IacByte
    <3>2. HearsIac(o, f, h2, b) = At("negotiate", o, f, h2)
      BY <2>2 DEF HearsIac
    <3>3. QED
      BY <1>1, <1>7, <1>11, <3>1, <3>2 DEF Where
  <2>3. CASE b = "IAC"
    <3>1. Stream!IacByte(q, b, k) = Trk("data", o, f, k + 1, h2 \o Stream!Data(<<b>>), m)
      BY <2>3, TrkMoves DEF Stream!IacByte
    <3>2. HearsIac(o, f, h2, b) = At("data", o, f, h2 \o Stream!Data(<<b>>))
      BY <2>3 DEF HearsIac
    <3>3. h2 \o Stream!Data(<<b>>) \in Seq(Evt)
      BY <1>10
    <3>4. QED
      BY <1>1, <1>8, <1>11, <3>1, <3>2, <3>3
  <2>4. CASE b # "SB" /\ b # "WILL" /\ b # "IAC"
    <3>1. Stream!IacByte(q, b, k) = Trk("data", o, f, k + 1, h2 \o Stream!Event("iac", <<b>>), m)
      BY <2>4, TrkMoves DEF Stream!IacByte
    <3>2. HearsIac(o, f, h2, b) = At("data", o, f, h2 \o Stream!Event("iac", <<b>>))
      BY <2>4 DEF HearsIac
    <3>3. h2 \o Stream!Event("iac", <<b>>) \in Seq(Evt)
      BY <1>10
    <3>4. QED
      BY <1>1, <1>8, <1>11, <3>1, <3>2, <3>3
  <2>5. QED
    BY <2>1, <2>2, <2>3, <2>4
<1>12. ASSUME NEW a \in Where, Fol => Hears(s, b) = At("sbData", o, Append(f, b), h)
       PROVE  Fine(Stream!BufferByte(Trk(a, o, f, n, h, m), b, k))
  <2> DEFINE g == Append(f, b)
             q == Trk(a, o, f, n, h, m)
  <2>1. g \in Seq(Byte)
    BY <1>1, <1>2
  <2>2. Fine(Trk("sbData", o, g, n, h, m))
    BY <1>1, <1>7, <1>12, <2>1 DEF Where, g
  <2>3. Len(f) < BufferMax => Stream!BufferByte(q, b, k) = Trk("sbData", o, g, n, h, m)
    BY TrkBuffers
  <2>4. q \in Tracker /\ q.buffer = f
    BY <1>1, TrkTracker, TrkIs
  <2> HIDE DEF g, q
  <2>5. ~(Len(f) < BufferMax) => Fine(Stream!BufferByte(q, b, k))
    BY <1>2, <1>5, <2>4, Misreads
  <2>6. Fine(Stream!BufferByte(q, b, k))
    BY <2>2, <2>3, <2>5
  <2>7. QED
    BY <2>6 DEF q
<1> SUFFICES Fine(Stream!ProcessByte(r, piece, k))
  BY DEF Fine, Fol, m, b
<1> DEFINE t(a) == Trk(a, o, f, n, h, m)
<1>13. CASE r.state = "data"
  <2>1. r = t("data") /\ r.start = n
    BY <1>1, <1>13 DEF n
  <2> DEFINE d == Stream!Data(SubSeq(piece, n + 1, k))
  <2>6. k >= n => Stream!PassThrough(t("data"), piece, k) = Trk("data", o, f, n, h \o d, m)
    BY TrkPasses
  <2>2. n <= k => /\ h \o d \in Seq(Evt)
                  /\ (h \o d) \o Stream!Data(<<b>>) = h \o Stream!Data(SubSeq(piece, n + 1, k + 1))
    <3> DEFINE j == k + 1
    <3>1. SUFFICES ASSUME n <= k
                   PROVE  /\ h \o d \in Seq(Evt)
                          /\ (h \o d) \o Stream!Data(<<b>>) = h \o Stream!Data(SubSeq(piece, n + 1, k + 1))
      OBVIOUS
    <3>2. j \in 1 .. Len(piece) /\ n + 1 \in 1 .. j /\ j - 1 = k
      BY <1>1, <1>2, <3>1
    <3> HIDE DEF j
    <3>3. /\ h \o Stream!Data(SubSeq(piece, n + 1, j - 1)) \in Seq(Evt)
          /\ (h \o Stream!Data(SubSeq(piece, n + 1, j - 1))) \o Stream!Data(<<piece[j]>>)
               = h \o Stream!Data(SubSeq(piece, n + 1, j))
      BY <1>1, <3>2, DataMore
    <3>4. QED
      BY <3>2, <3>3 DEF j, b
  <2>3. CASE b = "IAC"
    <3>1. Stream!ProcessByte(r, piece, k) = Stream!Goto(Stream!PassThrough(r, piece, k), "iac")
      BY <1>13, <2>3 DEF Stream!ProcessByte, b
    <3>2. CASE n <= k
      <4>1. Stream!PassThrough(r, piece, k) = Trk("data", o, f, n, h \o d, m)
        BY <1>1, <1>2, <2>1, <2>6, <3>2
      <4>2. Stream!ProcessByte(r, piece, k) = Trk("iac", o, f, n, h \o d, m)
        BY <3>1, <4>1, TrkMoves
      <4>3. Fol => s = At("data", o, f, h \o d)
        BY <1>1, <1>2, <1>4, <1>13, <3>2
      <4> HIDE DEF d
      <4>4. Fol => Hears(s, b) = At("iac", o, f, h \o d)
        BY <2>3, <4>3, AtIs DEF Hears
      <4>5. QED
        BY <1>1, <1>7, <2>2, <3>2, <4>2, <4>4 DEF Where
    <3>3. CASE ~(n <= k)
      <4>1. ~(k >= r.start)
        BY <1>1, <1>2, <2>1, <3>3
      <4>2. QED
        BY <1>2, <1>5, <3>1, <4>1, Misreads
    <3>4. QED
      BY <3>2, <3>3
  <2>4. CASE b # "IAC"
    <3>1. Stream!ProcessByte(r, piece, k) = t("data")
      BY <1>13, <2>1, <2>4 DEF Stream!ProcessByte, b
    <3>2. Fol => Follows(t("data"), piece, k + 1, Hears(s, b))
      <4>1. SUFFICES ASSUME Fol PROVE Follows(t("data"), piece, k + 1, Hears(s, b))
        OBVIOUS
      <4>2. CASE n <= k /\ s = At("data", o, f, h \o d)
        <5>1. Hears(s, b) = At("data", o, f, (h \o d) \o Stream!Data(<<b>>))
          <6> HIDE DEF d
          <6>1. QED
            BY <2>4, <4>2, AtIs DEF Hears
        <5>2. Hears(s, b) = At("data", o, f, h \o Stream!Data(SubSeq(piece, n + 1, k + 1)))
          BY <2>2, <4>2, <5>1
        <5> DEFINE q == t("data")
        <5>3. /\ q.state = "data" /\ q.telopt = o /\ q.buffer = f /\ q.start = n
              /\ q.heard = h /\ n <= k + 1
          BY <1>1, <1>2, <4>2, TrkIs
        <5> HIDE DEF q
        <5>4. Follows(q, piece, k + 1, Hears(s, b))
          BY <5>2, <5>3 DEF Follows
        <5>5. QED
          BY <5>4 DEF q
      <4>3. CASE n = k + 1 /\ s = At("skip", o, f, h)
        <5>1. Hears(s, b) = At("data", o, f, h)
          BY <4>3, AtIs DEF Hears
        <5>2. QED
          BY <1>1, <1>2, <4>3, <5>1, FollowsAt
      <4>4. QED
        BY <1>4, <1>13, <4>1, <4>2, <4>3
    <3>3. QED
      BY <1>1, <1>6, <3>1, <3>2 DEF Where
  <2>5. QED
    BY <2>3, <2>4
<1>14. CASE r.state = "iac"
  <2>1. Stream!ProcessByte(r, piece, k) = Stream!IacByte(t("iac"), b, k)
    BY <1>1, <1>14 DEF Stream!ProcessByte, b
  <2>2. Fol => Hears(s, b) = HearsIac(o, f, h, b)
    BY <1>3, <1>14, AtIs DEF Hears
  <2>3. QED
    BY <1>1, <1>11, <2>1, <2>2 DEF Where
<1>15. CASE r.state = "negotiate"
  <2>1. Stream!ProcessByte(r, piece, k) = Stream!Resume(Stream!Raise(t("negotiate"), Stream!Event("negotiate", <<b>>)), k)
    BY <1>1, <1>15 DEF Stream!ProcessByte, b
  <2>2. Stream!ProcessByte(r, piece, k) = Trk("data", o, f, k + 1, h \o Stream!Event("negotiate", <<b>>), m)
    BY <2>1, TrkMoves
  <2>3. Fol => Hears(s, b) = At("data", o, f, h \o Stream!Event("negotiate", <<b>>))
    BY <1>3, <1>15, AtIs DEF Hears
  <2>4. h \o Stream!Event("negotiate", <<b>>) \in Seq(Evt)
    BY <1>1, <1>10
  <2>5. QED
    BY <1>1, <1>8, <2>2, <2>3, <2>4
<1>16. CASE r.state = "sb"
  <2>1. Stream!ProcessByte(r, piece, k) = Stream!SbByte(t("sb"), b)
    BY <1>1, <1>16 DEF Stream!ProcessByte, b
  <2>2. Stream!ProcessByte(r, piece, k) = Trk("sbData", b, <<>>, n, h, m)
    BY <2>1, TrkSelects
  <2>3. Fol => Hears(s, b) = At("sbData", b, <<>>, h)
    BY <1>3, <1>16, AtIs DEF Hears
  <2>4. <<>> \in Seq(Byte)
    OBVIOUS
  <2>5. QED
    BY <1>1, <1>2, <1>7, <2>2, <2>3, <2>4 DEF Where
<1>17. CASE r.state = "sbData"
  <2>1. Stream!ProcessByte(r, piece, k) = Stream!SbDataByte(t("sbData"), b, k)
    BY <1>1, <1>17 DEF Stream!ProcessByte, b
  <2>2. Fol => Hears(s, b) = HearsSbData(o, f, h, b)
    BY <1>3, <1>17, AtIs DEF Hears
  <2>3. CASE b = "IAC"
    <3>1. Stream!SbDataByte(t("sbData"), b, k) = Trk("sbDataIac", o, f, n, h, m)
      BY <2>3, TrkMoves DEF Stream!SbDataByte
    <3>2. HearsSbData(o, f, h, b) = At("sbDataIac", o, f, h)
      BY <2>3 DEF HearsSbData
    <3>3. QED
      BY <1>1, <1>7, <2>1, <2>2, <3>1, <3>2 DEF Where
  <2>4. CASE b = "WILL" /\ o = "COMPRESS"
    <3>1. Stream!SbDataByte(t("sbData"), b, k) = Trk("data", o, f, (k + 1) + 1, h, m)
      BY <2>4, TrkMoves, TrkIs DEF Stream!SbDataByte
    <3>2. HearsSbData(o, f, h, b) = At("skip", o, f, h)
      BY <2>4 DEF HearsSbData
    <3>3. QED
      BY <1>9, <2>1, <2>2, <3>1, <3>2
  <2>5. CASE b # "IAC" /\ ~(b = "WILL" /\ o = "COMPRESS")
    <3>1. Stream!SbDataByte(t("sbData"), b, k) = Stream!BufferByte(t("sbData"), b, k)
      BY <2>5, TrkIs DEF Stream!SbDataByte
    <3>2. HearsSbData(o, f, h, b) = At("sbData", o, Append(f, b), h)
      BY <2>5 DEF HearsSbData
    <3>3. QED
      BY <1>12, <2>1, <2>2, <3>1, <3>2 DEF Where
  <2>6. QED
    BY <2>3, <2>4, <2>5
<1>18. CASE r.state = "sbDataIac"
  <2> DEFINE a == h \o Stream!Event("sub", f)
  <2>1. Stream!ProcessByte(r, piece, k) = Stream!SbDataIacByte(t("sbDataIac"), b, k)
    BY <1>1, <1>18 DEF Stream!ProcessByte, b
  <2>2. Fol => Hears(s, b) = HearsSbDataIac(o, f, h, b)
    BY <1>3, <1>18, AtIs DEF Hears
  <2>3. Stream!Resume(Stream!Raise(t("sbDataIac"), Stream!Event("sub", t("sbDataIac").buffer)), k)
          = Trk("data", o, f, k + 1, a, m)
    BY TrkIs, TrkMoves
  <2>4. a \in Seq(Evt)
    BY <1>1, <1>10
  <2>5. CASE b = "SE"
    <3>1. Stream!SbDataIacByte(t("sbDataIac"), b, k) = Trk("data", o, f, k + 1, a, m)
      BY <2>3, <2>5 DEF Stream!SbDataIacByte
    <3>2. HearsSbDataIac(o, f, h, b) = At("data", o, f, a)
      BY <2>5 DEF HearsSbDataIac
    <3>3. QED
      BY <1>1, <1>8, <2>1, <2>2, <2>4, <3>1, <3>2
  <2>6. CASE b = "IAC"
    <3>1. Stream!SbDataIacByte(t("sbDataIac"), b, k) = Stream!BufferByte(t("sbDataIac"), b, k)
      BY <2>6 DEF Stream!SbDataIacByte
    <3>2. HearsSbDataIac(o, f, h, b) = At("sbData", o, Append(f, b), h)
      BY <2>6 DEF HearsSbDataIac
    <3>3. QED
      BY <1>12, <2>1, <2>2, <3>1, <3>2 DEF Where
  <2>7. CASE b # "SE" /\ b # "IAC"
    <3>1. Stream!SbDataIacByte(t("sbDataIac"), b, k) = Stream!IacByte(Trk("data", o, f, k + 1, a, m), b, k)
      BY <2>3, <2>7 DEF Stream!SbDataIacByte
    <3>2. HearsSbDataIac(o, f, h, b) = HearsIac(o, f, a, b)
      BY <2>7 DEF HearsSbDataIac
    <3>3. k + 1 \in Nat /\ "data" \in Where
      BY <1>2 DEF Where
    <3> HIDE DEF a
    <3>4. QED
      BY <1>11, <2>1, <2>2, <2>4, <3>1, <3>2, <3>3
  <2>8. QED
    BY <2>5, <2>6, <2>7
<1>19. QED
  BY <1>1, <1>13, <1>14, <1>15, <1>16, <1>17, <1>18 DEF Where

Now(r) == At(r.state, r.telopt, r.buffer, r.heard)

(* The trackers over a piece.                                              *)
LEMMA TrackersAre ==
  ASSUME NEW r \in Tracker, NEW piece \in Seq(Byte)
  PROVE  /\ Stream!Trackers(r, piece) \in [0 .. Len(piece) -> Tracker]
         /\ Stream!Trackers(r, piece)[0] = r
         /\ \A k \in 1 .. Len(piece) :
              Stream!Trackers(r, piece)[k] = Stream!ProcessByte(Stream!Trackers(r, piece)[k - 1], piece, k - 1)
<1> DEFINE n == Len(piece)
           F == [q \in (1 .. n) \X Tracker |-> Stream!ProcessByte(q[2], piece, q[1] - 1)]
           Rule(g) == g = [k \in 0 .. n |-> IF k = 0 THEN r ELSE Stream!ProcessByte(g[k - 1], piece, k - 1)]
<1>1. n \in Nat
  BY LenProperties
<1>2. ASSUME NEW k \in 1 .. n, NEW q \in Tracker PROVE Stream!ProcessByte(q, piece, k - 1) \in Tracker
  <2>1. k - 1 \in 0 .. Len(piece) - 1
    OBVIOUS
  <2>2. QED
    BY <2>1, ByteFollows
<1> HIDE DEF n
<1>3. F \in [(1 .. n) \X Tracker -> Tracker]
  <2>1. ASSUME NEW q \in (1 .. n) \X Tracker PROVE Stream!ProcessByte(q[2], piece, q[1] - 1) \in Tracker
    <3>1. q[1] \in 1 .. n /\ q[2] \in Tracker
      OBVIOUS
    <3>2. QED
      BY <1>2, <3>1
  <2>2. QED
    BY <2>1
<1>4. \A k \in 1 .. n, q \in Tracker : F[<<k, q>>] = Stream!ProcessByte(q, piece, k - 1)
  OBVIOUS
<1> HIDE DEF F
<1>5. \E f : Iterates(f, n, Tracker, r, F)
  BY <1>1, <1>3, Recursion
<1>6. PICK f \in [0 .. n -> Tracker] :
        f[0] = r /\ \A k \in 1 .. n : f[k] = F[<<k, f[k - 1]>>]
  BY <1>5 DEF Iterates
<1>7. ASSUME NEW k \in 1 .. n PROVE f[k] = Stream!ProcessByte(f[k - 1], piece, k - 1)
  <2>1. k \in 0 .. n /\ k # 0 /\ k - 1 \in 0 .. n
    BY <1>1
  <2>2. f[k - 1] \in Tracker
    BY <2>1
  <2>3. f[k] = F[<<k, f[k - 1]>>]
    BY <1>6, <2>1
  <2>4. QED
    BY <1>4, <2>2, <2>3
<1>8. Rule(f)
  <2> DEFINE g == [k \in 0 .. n |-> IF k = 0 THEN r ELSE Stream!ProcessByte(f[k - 1], piece, k - 1)]
  <2>1. ASSUME NEW k \in 0 .. n PROVE f[k] = g[k]
    <3>1. k = 0 \/ k \in 1 .. n
      BY <1>1
    <3>2. QED
      BY <1>6, <1>7, <3>1
  <2>2. g = [k \in 0 .. n |-> g[k]]
    OBVIOUS
  <2> HIDE DEF g
  <2>3. f = g
    BY <2>1, <2>2
  <2>4. QED
    BY <2>3 DEF g
<1>9. ASSUME NEW g, Rule(g)
      PROVE  /\ g \in [0 .. n -> Tracker] /\ g[0] = r
             /\ \A k \in 1 .. n : g[k] = Stream!ProcessByte(g[k - 1], piece, k - 1)
  <2>0. \A k \in 0 .. n : g[k] = IF k = 0 THEN r ELSE Stream!ProcessByte(g[k - 1], piece, k - 1)
    BY <1>9, Zenon
  <2>1. g[0] = r /\ \A k \in 1 .. n : g[k] = Stream!ProcessByte(g[k - 1], piece, k - 1)
    <3>1. 0 \in 0 .. n /\ \A k \in 1 .. n : k \in 0 .. n /\ k # 0
      BY <1>1
    <3>2. QED
      BY <2>0, <3>1, Zenon
  <2> DEFINE H == {k \in Nat : k <= n => g[k] \in Tracker}
  <2>2. 0 \in H
    BY <2>1
  <2>3. ASSUME NEW k \in Nat, k \in H PROVE k + 1 \in H
    <3>1. SUFFICES ASSUME k + 1 <= n PROVE g[k + 1] \in Tracker
      OBVIOUS
    <3> DEFINE i == k + 1
    <3>2. k <= n /\ i \in 1 .. n /\ i - 1 = k
      BY <1>1, <3>1
    <3>3. g[k] \in Tracker
      BY <2>3, <3>2
    <3> HIDE DEF i
    <3>4. g[i] = Stream!ProcessByte(g[i - 1], piece, i - 1)
      BY <2>1, <3>2, Zenon
    <3>5. g[i] \in Tracker
      BY <1>2, <3>2, <3>3, <3>4
    <3>6. QED
      BY <3>5 DEF i
  <2> HIDE DEF H
  <2>4. \A k \in Nat : k \in H
    BY <2>2, <2>3, Induction
  <2>5. \A k \in 0 .. n : g[k] \in Tracker
    BY <1>1, <2>4 DEF H
  <2>6. g = [k \in 0 .. n |-> g[k]]
    BY <1>9
  <2> HIDE DEF Rule
  <2>7. g \in [0 .. n -> Tracker]
    BY <2>5, <2>6
  <2>8. QED
    BY <2>1, <2>7
<1>10. Rule(CHOOSE g : Rule(g))
  <2> HIDE DEF Rule
  <2>1. QED
    BY <1>8
<1>11. Stream!Trackers(r, piece) = CHOOSE g : Rule(g)
  BY DEF Stream!Trackers, n
<1> HIDE DEF Rule
<1>12. QED
  BY <1>9, <1>10, <1>11 DEF n

(* A piece handed to the tracker is read as it is said.                    *)
LEMMA ProcessRead ==
  ASSUME NEW r \in Tracker, NEW piece \in Seq(Byte), NEW s, NEW e,
         ReadAs(piece, s, e), s = Now(r)
  PROVE  /\ [Stream!Process(r, piece) EXCEPT !.start = 0] \in Tracker
         /\ ~[Stream!Process(r, piece) EXCEPT !.start = 0].misread =>
              ~r.misread /\ e = Now([Stream!Process(r, piece) EXCEPT !.start = 0])
<1> DEFINE n == Len(piece)
           r0 == [r EXCEPT !.start = 0]
           t == Stream!Trackers(r0, piece)
           end == t[n]
<1>1. /\ r0 \in Tracker /\ r0.state = r.state /\ r0.telopt = r.telopt
      /\ r0.buffer = r.buffer /\ r0.heard = r.heard /\ r0.misread = r.misread /\ r0.start = 0
  BY DEF Tracker
<1>2. n \in Nat /\ 0 \in 0 .. Len(piece)
  OBVIOUS
<1> HIDE DEF r0
<1>3. Follows(r0, piece, 0, s)
  <2>1. s = At(r0.state, r0.telopt, r0.buffer, r0.heard)
    BY <1>1 DEF Now
  <2>2. /\ r0 = Trk(r0.state, r0.telopt, r0.buffer, 0, r0.heard, r0.misread)
        /\ r0.state \in Where /\ r0.heard \in Seq(Evt)
    BY <1>1, TrackerIs
  <2> DEFINE a == r0.state
             o == r0.telopt
             f == r0.buffer
             h == r0.heard
             m == r0.misread
  <2>3. /\ r0 = Trk(a, o, f, 0, h, m) /\ a \in Where /\ h \in Seq(Evt)
        /\ s = At(a, o, f, h)
    BY <2>1, <2>2
  <2> HIDE DEF a, o, f, h, m
  <2>4. Follows(Trk(a, o, f, 0, h, m), piece, 0, At(a, o, f, h))
    BY <1>2, <2>3, FollowsAt
  <2>5. QED
    BY <2>3, <2>4
<1>4. /\ t \in [0 .. n -> Tracker] /\ t[0] = r0
      /\ \A k \in 1 .. n : t[k] = Stream!ProcessByte(t[k - 1], piece, k - 1)
  BY <1>1, TrackersAre
<1>5. PICK u : Reads(u, piece, s, e)
  BY DEF ReadAs
<1>6. /\ u[0] = s /\ u[n] = e
      /\ \A k \in 1 .. n : u[k] = Hears(u[k - 1], piece[k])
  BY <1>5 DEF Reads
<1>13. Stream!Process(r, piece) = IF end.state = "data" THEN Stream!PassThrough(end, piece, n) ELSE end
  BY DEF Stream!Process, r0
<1> HIDE DEF t
<1> DEFINE G(k) == ~t[k].misread => ~r.misread /\ Follows(t[k], piece, k, u[k])
           H == {k \in Nat : k <= n => G(k)}
<1>7. 0 \in H
  BY <1>1, <1>3, <1>4, <1>6
<1>8. ASSUME NEW k \in Nat, k \in H PROVE k + 1 \in H
  <2>1. SUFFICES ASSUME k + 1 <= n PROVE G(k + 1)
    <3> HIDE DEF G
    <3>1. QED
      OBVIOUS
  <2>2. G(k)
    <3> HIDE DEF G
    <3>1. k <= n
      BY <1>2, <2>1
    <3>2. QED
      BY <1>8, <3>1
  <2> DEFINE i == k + 1
  <2>3. k \in 0 .. n - 1 /\ i \in 1 .. n /\ i - 1 = k /\ k \in 0 .. n /\ i = k + 1
    BY <1>2, <2>1
  <2> HIDE DEF i
  <2>4. t[i] = Stream!ProcessByte(t[k], piece, k) /\ u[i] = Hears(u[k], piece[k + 1])
    BY <1>4, <1>6, <2>3
  <2>5. t[k] \in Tracker
    BY <1>4, <2>3
  <2>6. ~t[i].misread => /\ ~t[k].misread
                         /\ Follows(t[k], piece, k, u[k]) => Follows(t[i], piece, k + 1, u[i])
    <3> DEFINE a == t[k]
               w == u[k]
               c == Stream!ProcessByte(a, piece, k)
    <3>1. a \in Tracker /\ k \in 0 .. Len(piece) - 1
      BY <2>3, <2>5
    <3> HIDE DEF a, w, c
    <3>2. ~c.misread => /\ ~a.misread
                        /\ Follows(a, piece, k, w) => Follows(c, piece, k + 1, Hears(w, piece[k + 1]))
      BY <3>1, ByteFollows DEF c
    <3>3. t[i] = c /\ u[i] = Hears(w, piece[k + 1])
      BY <2>4 DEF a, w, c
    <3>4. QED
      BY <3>2, <3>3 DEF a, w
  <2>7. G(i)
    BY <2>2, <2>3, <2>6
  <2>8. QED
    BY <2>3, <2>7
<1> HIDE DEF H
<1>9. n \in H
  BY <1>2, <1>7, <1>8, Induction
<1>10. ~end.misread => ~r.misread /\ Follows(end, piece, n, e)
  <2>1. G(n)
    <3> HIDE DEF G
    <3>1. QED
      BY <1>2, <1>9 DEF H
  <2>2. QED
    BY <1>6, <2>1
<1>11. end \in Tracker
  BY <1>2, <1>4
<1> DEFINE p == Stream!Process(r, piece)
           q == [p EXCEPT !.start = 0]
<1>12. ASSUME NEW x \in Tracker
       PROVE  /\ [x EXCEPT !.start = 0] \in Tracker /\ [x EXCEPT !.start = 0].misread = x.misread
              /\ Now([x EXCEPT !.start = 0]) = Now(x)
  BY DEF Tracker, Now
<1> HIDE DEF end, n
<1>14. CASE end.state # "data"
  <2>1. p = end
    BY <1>13, <1>14
  <2>2. Follows(end, piece, n, e) => e = Now(end)
    BY <1>14 DEF Follows, Now
  <2> HIDE DEF p
  <2>3. q \in Tracker /\ q.misread = end.misread /\ Now(q) = Now(end)
    BY <1>11, <1>12, <2>1
  <2> HIDE DEF q
  <2>4. QED
    BY <1>10, <2>2, <2>3 DEF q, p
<1>15. CASE end.state = "data" /\ end.start <= n
  <2> DEFINE o == end.telopt
             f == end.buffer
             z == end.start
             h == end.heard
             m == end.misread
             d == Stream!Data(SubSeq(piece, z + 1, n))
  <2>1. /\ end = Trk("data", o, f, z, h, m) /\ o \in Byte /\ f \in Seq(Byte)
        /\ z \in Nat /\ h \in Seq(Evt) /\ m \in BOOLEAN
    BY <1>11, <1>15, TrackerIs
  <2>2. Follows(end, piece, n, e) => e = At("data", o, f, h \o d)
    BY <1>2, <1>15, <2>1 DEF Follows
  <2>3. p = Stream!PassThrough(end, piece, n)
    BY <1>13, <1>15
  <2>4. z <= n /\ n >= z /\ n \in Nat
    BY <1>2, <1>15, <2>1 DEF n
  <2>5. SubSeq(piece, z + 1, n) \in Seq(Byte)
    <3>1. \A i \in z + 1 .. n : piece[i] \in Byte
      BY <2>1, <2>4, ElementOfSeq DEF n
    <3>2. z + 1 \in Int /\ n \in Int
      BY <2>1, <2>4
    <3>3. QED
      BY <3>1, <3>2, SubSeqProperties
  <2>6. h \o d \in Seq(Evt)
    <3>1. d \in Seq(Evt)
      BY <2>5, DataIs
    <3> HIDE DEF d
    <3>2. QED
      BY <2>1, <3>1
  <2> HIDE DEF o, f, z, h, m
  <2>7. Stream!PassThrough(Trk("data", o, f, z, h, m), piece, n) = Trk("data", o, f, z, h \o d, m)
    BY <2>4, TrkPasses
  <2> HIDE DEF d
  <2>8. p = Trk("data", o, f, z, h \o d, m)
    BY <2>1, <2>3, <2>7
  <2>9. p \in Tracker /\ p.misread = m /\ Now(p) = At("data", o, f, h \o d)
    <3> HIDE DEF p
    <3>1. "data" \in Where
      BY DEF Where
    <3>2. p \in Tracker
      BY <2>1, <2>6, <2>8, <3>1, TrkTracker
    <3>3. p.misread = m
      BY <2>8 DEF Trk
    <3>4. Now(p) = At("data", o, f, h \o d)
      BY <2>8, TrkIs DEF Now
    <3>5. QED
      BY <3>2, <3>3, <3>4
  <2>10. end.misread = m
    BY DEF m
  <2> HIDE DEF p
  <2>11. q \in Tracker /\ q.misread = m /\ Now(q) = At("data", o, f, h \o d)
    BY <1>12, <2>9
  <2> HIDE DEF q
  <2>12. QED
    BY <1>10, <2>2, <2>10, <2>11 DEF q, p
<1>16. CASE end.state = "data" /\ ~(end.start <= n)
  <2>1. p = Stream!PassThrough(end, piece, n) /\ ~(n >= end.start)
    <3>1. n \in Nat /\ end.start \in Nat
      BY <1>2, <1>11, TrackerIs DEF n
    <3>2. QED
      BY <1>13, <1>16, <3>1
  <2>2. p = [end EXCEPT !.misread = TRUE]
    BY <2>1 DEF Stream!PassThrough
  <2>3. p \in Tracker /\ p.misread
    <3> HIDE DEF p
    <3>1. QED
      BY <1>11, <2>2 DEF Tracker
  <2> HIDE DEF p
  <2>4. q \in Tracker /\ q.misread
    BY <1>12, <2>3
  <2> HIDE DEF q
  <2>5. QED
    BY <2>4 DEF q, p
<1>17. QED
  BY <1>14, <1>15, <1>16

(* What a receiver at rest makes of bytes: these events, and rest again.   *)
Says(bytes, events) ==
  /\ bytes \in Seq(Byte) /\ events \in Seq(Evt)
  /\ \A o \in Byte, f \in Seq(Byte), h \in Seq(Evt) :
       \E p \in Byte, g \in Seq(Byte) :
         ReadAs(bytes, At("data", o, f, h), At("data", p, g, h \o events))

LEMMA Joins ==
  ASSUME NEW a \in Byte, NEW b \in Byte, NEW c \in Byte
  PROVE  <<a>> \o <<b>> = <<a, b>> /\ <<a, b>> \o <<c>> = <<a, b, c>>
<1>1. /\ <<a>> \in Seq(Byte) /\ Len(<<a>>) = 1 /\ <<a>>[1] = a
      /\ <<b>> \in Seq(Byte) /\ Len(<<b>>) = 1 /\ <<b>>[1] = b
      /\ <<c>> \in Seq(Byte) /\ Len(<<c>>) = 1 /\ <<c>>[1] = c
      /\ <<a, b>> \in Seq(Byte) /\ Len(<<a, b>>) = 2 /\ <<a, b>>[1] = a /\ <<a, b>>[2] = b
      /\ <<a, b, c>> \in Seq(Byte) /\ Len(<<a, b, c>>) = 3
      /\ <<a, b, c>>[1] = a /\ <<a, b, c>>[2] = b /\ <<a, b, c>>[3] = c
  OBVIOUS
<1> DEFINE u == <<a>>
           v == <<b>>
           w == <<c>>
           x == <<a, b>>
           y == <<a, b, c>>
<1>2. /\ u \in Seq(Byte) /\ Len(u) = 1 /\ u[1] = a
      /\ v \in Seq(Byte) /\ Len(v) = 1 /\ v[1] = b
      /\ w \in Seq(Byte) /\ Len(w) = 1 /\ w[1] = c
      /\ x \in Seq(Byte) /\ Len(x) = 2 /\ x[1] = a /\ x[2] = b
      /\ y \in Seq(Byte) /\ Len(y) = 3 /\ y[1] = a /\ y[2] = b /\ y[3] = c
  BY <1>1
<1> HIDE DEF u, v, w, x, y
<1>3. u \o v = x
  <2>1. /\ u \o v \in Seq(Byte) /\ Len(u \o v) = 2
        /\ \A i \in 1 .. 2 : (u \o v)[i] = IF i <= 1 THEN u[i] ELSE v[i - 1]
    BY <1>2, ConcatProperties
  <2>2. (u \o v)[1] = a /\ (u \o v)[2] = b
    BY <1>2, <2>1
  <2>3. \A i \in 1 .. 2 : i = 1 \/ i = 2
    OBVIOUS
  <2>4. \A i \in 1 .. 2 : (u \o v)[i] = x[i]
    BY <1>2, <2>2, <2>3
  <2>5. QED
    BY <1>2, <2>1, <2>4, SeqEqual
<1>4. x \o w = y
  <2>1. /\ x \o w \in Seq(Byte) /\ Len(x \o w) = 3
        /\ \A i \in 1 .. 3 : (x \o w)[i] = IF i <= 2 THEN x[i] ELSE w[i - 2]
    <3>1. x \in Seq(Byte) /\ w \in Seq(Byte) /\ Len(x) = 2 /\ Len(w) = 1
      BY <1>2
    <3>2. /\ x \o w \in Seq(Byte) /\ Len(x \o w) = Len(x) + Len(w)
          /\ \A i \in 1 .. Len(x) + Len(w) :
               (x \o w)[i] = IF i <= Len(x) THEN x[i] ELSE w[i - Len(x)]
      BY <3>1, ConcatProperties
    <3>3. QED
      BY <3>1, <3>2
  <2>2. (x \o w)[1] = a /\ (x \o w)[2] = b /\ (x \o w)[3] = c
    BY <1>2, <2>1
  <2>3. \A i \in 1 .. 3 : i = 1 \/ i = 2 \/ i = 3
    OBVIOUS
  <2> DEFINE z == x \o w
  <2>6. z[1] = y[1] /\ z[2] = y[2] /\ z[3] = y[3]
    BY <1>2, <2>2
  <2> HIDE DEF z
  <2>4. \A i \in 1 .. 3 : z[i] = y[i]
    BY <2>3, <2>6
  <2>5. QED
    BY <1>2, <2>1, <2>4, SeqEqual DEF z
<1>5. QED
  BY <1>3, <1>4 DEF u, v, w, x, y

LEMMA ReadMore ==
  ASSUME NEW w \in Seq(Byte), NEW s, NEW e \in Ideal, ReadAs(w, s, e), NEW b \in Byte
  PROVE  w \o <<b>> \in Seq(Byte) /\ ReadAs(w \o <<b>>, s, Hears(e, b))
<1>1. <<b>> \in Seq(Byte)
  OBVIOUS
<1>2. ReadAs(<<b>>, e, Hears(e, b))
  BY ReadOne
<1>3. w \o <<b>> \in Seq(Byte)
  BY <1>1
<1>4. QED
  BY <1>1, <1>2, <1>3, ReadBoth

(* The bytes that are no data: what a receiver at rest makes of the first  *)
(* of them.                                                                *)
LEMMA CommandsRead ==
  ASSUME NEW o \in Byte, NEW f \in Seq(Byte), NEW h \in Seq(Evt)
  PROVE  /\ <<"IAC", "NOP">> \in Seq(Byte)
         /\ ReadAs(<<"IAC", "NOP">>, At("data", o, f, h),
                   At("data", o, f, h \o Stream!Event("iac", <<"NOP">>)))
         /\ <<"IAC", "SE">> \in Seq(Byte)
         /\ ReadAs(<<"IAC", "SE">>, At("data", o, f, h),
                   At("data", o, f, h \o Stream!Event("iac", <<"SE">>)))
         /\ <<"IAC", "WILL", "OPT">> \in Seq(Byte)
         /\ ReadAs(<<"IAC", "WILL", "OPT">>, At("data", o, f, h),
                   At("data", o, f, h \o Stream!Event("negotiate", <<"OPT">>)))
         /\ \A b \in Byte : /\ <<"IAC", "SB", b>> \in Seq(Byte)
                            /\ ReadAs(<<"IAC", "SB", b>>, At("data", o, f, h),
                                      At("sbData", b, <<>>, h))
<1>1. {"IAC", "NOP", "SE", "WILL", "OPT", "SB"} \subseteq Byte /\ <<>> \in Seq(Byte)
  BY DEF Byte
<1>2. \A a \in {"data", "iac", "negotiate", "sb"} : At(a, o, f, h) \in Ideal
  BY AtIdeal
<1>3. <<"IAC">> \in Seq(Byte) /\ ReadAs(<<"IAC">>, At("data", o, f, h), At("iac", o, f, h))
  <2>1. Hears(At("data", o, f, h), "IAC") = At("iac", o, f, h)
    BY AtIs DEF Hears
  <2>2. QED
    BY <1>1, <1>2, <2>1, ReadOne
<1>4. ASSUME NEW b \in Byte, NEW e, Hears(At("iac", o, f, h), b) = e
      PROVE  /\ <<"IAC", b>> \in Seq(Byte)
             /\ ReadAs(<<"IAC", b>>, At("data", o, f, h), e)
  <2>1. <<"IAC">> \o <<b>> = <<"IAC", b>>
    BY <1>1, Joins, ZenonT(60)
  <2>2. QED
    BY <1>2, <1>3, <1>4, <2>1, ReadMore
<1>5. /\ Hears(At("iac", o, f, h), "NOP") = At("data", o, f, h \o Stream!Event("iac", <<"NOP">>))
      /\ Hears(At("iac", o, f, h), "SE") = At("data", o, f, h \o Stream!Event("iac", <<"SE">>))
      /\ Hears(At("iac", o, f, h), "WILL") = At("negotiate", o, f, h)
      /\ Hears(At("iac", o, f, h), "SB") = At("sb", o, f, h)
  BY AtIs DEF Hears, HearsIac
<1>6. ASSUME NEW a \in {"negotiate", "sb"}, NEW c \in Byte, NEW b \in Byte,
             ReadAs(<<"IAC", c>>, At("data", o, f, h), At(a, o, f, h)),
             <<"IAC", c>> \in Seq(Byte), NEW e, Hears(At(a, o, f, h), b) = e
      PROVE  /\ <<"IAC", c, b>> \in Seq(Byte)
             /\ ReadAs(<<"IAC", c, b>>, At("data", o, f, h), e)
  <2>1. <<"IAC", c>> \o <<b>> = <<"IAC", c, b>>
    BY <1>1, Joins, ZenonT(60)
  <2>2. QED
    BY <1>2, <1>6, <2>1, ReadMore
<1>7. Hears(At("negotiate", o, f, h), "OPT") = At("data", o, f, h \o Stream!Event("negotiate", <<"OPT">>))
  BY AtIs DEF Hears
<1>8. /\ <<"IAC", "WILL", "OPT">> \in Seq(Byte)
      /\ ReadAs(<<"IAC", "WILL", "OPT">>, At("data", o, f, h),
                At("data", o, f, h \o Stream!Event("negotiate", <<"OPT">>)))
  BY <1>1, <1>4, <1>5, <1>6, <1>7
<1>9. ASSUME NEW b \in Byte
      PROVE  /\ <<"IAC", "SB", b>> \in Seq(Byte)
             /\ ReadAs(<<"IAC", "SB", b>>, At("data", o, f, h), At("sbData", b, <<>>, h))
  <2>1. Hears(At("sb", o, f, h), b) = At("sbData", b, <<>>, h)
    BY AtIs DEF Hears
  <2>2. QED
    BY <1>1, <1>4, <1>5, <1>6, <2>1
<1>10. /\ <<"IAC", "NOP">> \in Seq(Byte)
       /\ ReadAs(<<"IAC", "NOP">>, At("data", o, f, h),
                 At("data", o, f, h \o Stream!Event("iac", <<"NOP">>)))
       /\ <<"IAC", "SE">> \in Seq(Byte)
       /\ ReadAs(<<"IAC", "SE">>, At("data", o, f, h),
                 At("data", o, f, h \o Stream!Event("iac", <<"SE">>)))
  BY <1>1, <1>4, <1>5
<1>11. QED
  BY <1>8, <1>9, <1>10

(* The end of a subnegotiation, by IAC SE or by an answer in its midst.    *)
LEMMA EndsRead ==
  ASSUME NEW o \in Byte, NEW f \in Seq(Byte), NEW h \in Seq(Evt)
  PROVE  /\ ReadAs(<<"IAC", "SE">>, At("sbData", o, f, h),
                   At("data", o, f, h \o Stream!Event("sub", f)))
         /\ ReadAs(<<"IAC", "WILL", "OPT">>, At("sbData", o, f, h),
                   At("data", o, f, (h \o Stream!Event("sub", f)) \o Stream!Event("negotiate", <<"OPT">>)))
<1> DEFINE a == h \o Stream!Event("sub", f)
<1>1. {"IAC", "SE", "WILL", "OPT"} \subseteq Byte
  BY DEF Byte
<1>2. a \in Seq(Evt)
  <2>1. Stream!Event("sub", f) \in Seq(Evt)
    BY EventsAre
  <2>2. QED
    BY <2>1
<1>3. /\ Hears(At("sbData", o, f, h), "IAC") = At("sbDataIac", o, f, h)
      /\ Hears(At("sbDataIac", o, f, h), "SE") = At("data", o, f, a)
      /\ Hears(At("sbDataIac", o, f, h), "WILL") = At("negotiate", o, f, a)
      /\ Hears(At("negotiate", o, f, a), "OPT") = At("data", o, f, a \o Stream!Event("negotiate", <<"OPT">>))
  BY AtIs DEF Hears, HearsSbData, HearsSbDataIac, HearsIac
<1> HIDE DEF a
<1>4. /\ At("sbData", o, f, h) \in Ideal /\ At("sbDataIac", o, f, h) \in Ideal
      /\ At("negotiate", o, f, a) \in Ideal
  BY <1>2, AtIdeal
<1>5. /\ <<"IAC">> \in Seq(Byte)
      /\ ReadAs(<<"IAC">>, At("sbData", o, f, h), At("sbDataIac", o, f, h))
  BY <1>1, <1>3, <1>4, ReadOne
<1>6. <<"IAC">> \o <<"SE">> = <<"IAC", "SE">> /\ <<"IAC">> \o <<"WILL">> = <<"IAC", "WILL">>
      /\ <<"IAC", "WILL">> \o <<"OPT">> = <<"IAC", "WILL", "OPT">>
  BY <1>1, Joins, ZenonT(60)
<1>7. /\ ReadAs(<<"IAC", "SE">>, At("sbData", o, f, h), At("data", o, f, a))
      /\ <<"IAC", "WILL">> \in Seq(Byte)
      /\ ReadAs(<<"IAC", "WILL">>, At("sbData", o, f, h), At("negotiate", o, f, a))
  BY <1>1, <1>3, <1>4, <1>5, <1>6, ReadMore
<1>8. ReadAs(<<"IAC", "WILL", "OPT">>, At("sbData", o, f, h),
             At("data", o, f, a \o Stream!Event("negotiate", <<"OPT">>)))
  BY <1>1, <1>3, <1>4, <1>6, <1>7, ReadMore
<1>9. QED
  BY <1>7, <1>8 DEF a

LEMMA JoinsFive ==
  ASSUME NEW a \in Byte, NEW b \in Byte, NEW c \in Byte, NEW d \in Byte, NEW e \in Byte
  PROVE  (<<a, b, c>> \o <<d>>) \o <<e>> = <<a, b, c, d, e>>
<1> DEFINE u == <<a, b, c>>
           v == <<d>>
           w == <<e>>
           y == <<a, b, c, d, e>>
<1>1. /\ u \in Seq(Byte) /\ Len(u) = 3 /\ u[1] = a /\ u[2] = b /\ u[3] = c
      /\ v \in Seq(Byte) /\ Len(v) = 1 /\ v[1] = d
      /\ w \in Seq(Byte) /\ Len(w) = 1 /\ w[1] = e
      /\ y \in Seq(Byte) /\ Len(y) = 5
      /\ y[1] = a /\ y[2] = b /\ y[3] = c /\ y[4] = d /\ y[5] = e
  OBVIOUS
<1> HIDE DEF u, v, w, y
<1> DEFINE x == u \o v
           z == x \o w
<1>2. /\ x \in Seq(Byte) /\ Len(x) = 4
      /\ \A i \in 1 .. 4 : x[i] = IF i <= 3 THEN u[i] ELSE v[i - 3]
  <2>1. u \in Seq(Byte) /\ v \in Seq(Byte) /\ Len(u) = 3 /\ Len(v) = 1
    BY <1>1
  <2>2. /\ x \in Seq(Byte) /\ Len(x) = Len(u) + Len(v)
        /\ \A i \in 1 .. Len(u) + Len(v) : x[i] = IF i <= Len(u) THEN u[i] ELSE v[i - Len(u)]
    BY <2>1, ConcatProperties
  <2> HIDE DEF x
  <2>3. QED
    BY <2>1, <2>2
<1>3. x[1] = a /\ x[2] = b /\ x[3] = c /\ x[4] = d
  <2> HIDE DEF x
  <2>1. QED
    BY <1>1, <1>2
<1> HIDE DEF x
<1>4. /\ z \in Seq(Byte) /\ Len(z) = 5
      /\ \A i \in 1 .. 5 : z[i] = IF i <= 4 THEN x[i] ELSE w[i - 4]
  <2>1. x \in Seq(Byte) /\ w \in Seq(Byte) /\ Len(x) = 4 /\ Len(w) = 1
    BY <1>1, <1>2
  <2>2. /\ z \in Seq(Byte) /\ Len(z) = Len(x) + Len(w)
        /\ \A i \in 1 .. Len(x) + Len(w) : z[i] = IF i <= Len(x) THEN x[i] ELSE w[i - Len(x)]
    BY <2>1, ConcatProperties
  <2> HIDE DEF z
  <2>3. QED
    BY <2>1, <2>2
<1> HIDE DEF z
<1>5. z[1] = a /\ z[2] = b /\ z[3] = c /\ z[4] = d /\ z[5] = e
  BY <1>1, <1>3, <1>4
<1>6. \A i \in 1 .. 5 : i = 1 \/ i = 2 \/ i = 3 \/ i = 4 \/ i = 5
  OBVIOUS
<1>7. \A i \in 1 .. 5 : z[i] = y[i]
  BY <1>1, <1>5, <1>6
<1>8. z = y
  BY <1>1, <1>4, <1>7, SeqEqual
<1>9. QED
  BY <1>8 DEF u, v, w, x, y, z

LEMMA ReadSome ==
  ASSUME NEW w \in Seq(Byte), NEW s \in Ideal
  PROVE  \E e : ReadAs(w, s, e)
<1> DEFINE n == Len(w)
           F == [q \in (1 .. n) \X Ideal |-> Hears(q[2], w[q[1]])]
<1>1. n \in Nat /\ \A k \in 1 .. n : w[k] \in Byte
  BY LenProperties, ElementOfSeq
<1> HIDE DEF n
<1>2. F \in [(1 .. n) \X Ideal -> Ideal]
  <2>1. ASSUME NEW q \in (1 .. n) \X Ideal PROVE Hears(q[2], w[q[1]]) \in Ideal
    <3>1. w[q[1]] \in Byte /\ q[2] \in Ideal
      BY <1>1
    <3>2. QED
      BY <3>1, HearsOn
  <2>2. QED
    BY <2>1
<1>3. \A k \in 1 .. n, q \in Ideal : F[<<k, q>>] = Hears(q, w[k])
  OBVIOUS
<1> HIDE DEF F
<1>4. PICK t : Iterates(t, n, Ideal, s, F)
  BY <1>1, <1>2, Recursion
<1>5. t \in [0 .. n -> Ideal] /\ t[0] = s /\ \A k \in 1 .. n : t[k] = F[<<k, t[k - 1]>>]
  BY <1>4 DEF Iterates
<1>6. ASSUME NEW k \in 1 .. n PROVE t[k] = Hears(t[k - 1], w[k])
  <2>1. k - 1 \in 0 .. n
    BY <1>1
  <2>2. t[k - 1] \in Ideal /\ t[k] = F[<<k, t[k - 1]>>]
    BY <1>5, <2>1
  <2>3. QED
    BY <1>3, <2>2
<1>7. Reads(t, w, s, t[n])
  BY <1>1, <1>5, <1>6 DEF Reads, n
<1>8. QED
  BY <1>7 DEF ReadAs

LEMMA EventsAssociate ==
  \A a \in Seq(Evt) : \A b \in Seq(Evt) : \A d \in Seq(Evt) :
    /\ (a \o b) \o d \in Seq(Evt)
    /\ \A h \in Seq(Evt) : ((h \o a) \o b) \o d = h \o ((a \o b) \o d)
<1> DEFINE S == Evt
<1> HIDE DEF S
<1>1. \A a \in Seq(S) : \A b \in Seq(S) : \A d \in Seq(S) :
        /\ (a \o b) \o d \in Seq(S)
        /\ \A h \in Seq(S) : ((h \o a) \o b) \o d = h \o ((a \o b) \o d)
  <2>1. SUFFICES ASSUME NEW a \in Seq(S), NEW b \in Seq(S), NEW d \in Seq(S)
                 PROVE  /\ (a \o b) \o d \in Seq(S)
                        /\ \A h \in Seq(S) : ((h \o a) \o b) \o d = h \o ((a \o b) \o d)
    OBVIOUS
  <2>2. ASSUME NEW h \in Seq(S) PROVE ((h \o a) \o b) \o d = h \o ((a \o b) \o d)
    <3>1. (h \o a) \o b = h \o (a \o b)
      OBVIOUS
    <3>2. ASSUME NEW w \in Seq(S) PROVE (h \o w) \o d = h \o (w \o d)
      BY ConcatAssociative, SMTT(30)
    <3>3. a \o b \in Seq(S)
      OBVIOUS
    <3>4. QED
      BY <3>1, <3>2, <3>3, Zenon
  <2>3. (a \o b) \o d \in Seq(S)
    OBVIOUS
  <2>4. QED
    BY <2>2, <2>3, Zenon
<1>2. QED
  BY <1>1 DEF S

LEMMA ReadPart ==
  ASSUME NEW v \in Seq(Byte), NEW w \in Seq(Byte), NEW s, NEW m, NEW e,
         ReadAs(v, s, m), ReadAs(w, m, e)
  PROVE  v \o w \in Seq(Byte) /\ ReadAs(v \o w, s, e)
BY ReadBoth

(* What each call of the sending application says.                         *)
LEMMA CallsSay ==
  /\ Says(<<"IAC", "NOP">>, Stream!Event("iac", <<"NOP">>))
  /\ Says(<<"IAC", "WILL", "OPT">>, Stream!Event("negotiate", <<"OPT">>))
  /\ Says(<<"IAC", "SB", "COMPRESS", "WILL", "SE">>, <<>>)
  /\ \A text \in Seq(Byte) : Says(Stream!Escape(text), Stream!Data(text))
  /\ \A text \in Seq({"x", "CR", "LF"}) : Says(Stream!Translate(text), Stream!Data(Stream!Translate(text)))
<1>1. {"NOP", "SE", "WILL", "OPT", "COMPRESS", "IAC", "SB"} \subseteq Byte /\ <<>> \in Seq(Byte)
  BY DEF Byte
<1>2. /\ Stream!Event("iac", <<"NOP">>) \in Seq(Evt) /\ Stream!Event("negotiate", <<"OPT">>) \in Seq(Evt)
  BY <1>1, EventsAre
<1>3. Says(<<"IAC", "NOP">>, Stream!Event("iac", <<"NOP">>))
  <2>1. <<"IAC", "NOP">> \in Seq(Byte)
    BY <1>1
  <2>2. QED
    BY <1>2, <2>1, CommandsRead DEF Says
<1>4. Says(<<"IAC", "WILL", "OPT">>, Stream!Event("negotiate", <<"OPT">>))
  <2>1. <<"IAC", "WILL", "OPT">> \in Seq(Byte)
    BY <1>1
  <2>2. QED
    BY <1>2, <2>1, CommandsRead DEF Says
<1>5. Says(<<"IAC", "SB", "COMPRESS", "WILL", "SE">>, <<>>)
  <2> DEFINE c == <<"IAC", "SB", "COMPRESS">>
             w == <<"IAC", "SB", "COMPRESS", "WILL", "SE">>
  <2>1. (c \o <<"WILL">>) \o <<"SE">> = w
    BY <1>1, JoinsFive
  <2> HIDE DEF w
  <2>2. ASSUME NEW o \in Byte, NEW f \in Seq(Byte), NEW h \in Seq(Evt)
        PROVE  /\ w \in Seq(Byte)
               /\ ReadAs(w, At("data", o, f, h), At("data", "COMPRESS", <<>>, h))
    <3> DEFINE s == At("data", o, f, h)
    <3>1. c \in Seq(Byte) /\ ReadAs(c, s, At("sbData", "COMPRESS", <<>>, h))
      BY <1>1, CommandsRead
    <3> HIDE DEF c, s
    <3>2. /\ Hears(At("sbData", "COMPRESS", <<>>, h), "WILL") = At("skip", "COMPRESS", <<>>, h)
          /\ Hears(At("skip", "COMPRESS", <<>>, h), "SE") = At("data", "COMPRESS", <<>>, h)
      BY AtIs DEF Hears, HearsSbData
    <3>3. At("sbData", "COMPRESS", <<>>, h) \in Ideal /\ At("skip", "COMPRESS", <<>>, h) \in Ideal
      BY <1>1, AtIdeal
    <3>4. c \o <<"WILL">> \in Seq(Byte) /\ ReadAs(c \o <<"WILL">>, s, At("skip", "COMPRESS", <<>>, h))
      BY <1>1, <3>1, <3>2, <3>3, ReadMore
    <3>5. QED
      BY <1>1, <2>1, <3>2, <3>3, <3>4, ReadMore, ZenonT(60) DEF s
  <2>3. \A h \in Seq(Evt) : h \o <<>> = h
    OBVIOUS
  <2>4. w \in Seq(Byte)
    <3>1. "x" \in Byte /\ <<>> \in Seq(Evt)
      BY DEF Byte
    <3>2. QED
      BY <1>1, <2>2, <3>1
  <2>5. ASSUME NEW o \in Byte, NEW f \in Seq(Byte), NEW h \in Seq(Evt)
        PROVE  ReadAs(w, At("data", o, f, h), At("data", "COMPRESS", <<>>, h \o <<>>))
    BY <2>2, <2>3
  <2>6. <<>> \in Seq(Evt)
    OBVIOUS
  <2>7. Says(w, <<>>)
    BY <1>1, <2>4, <2>5, <2>6 DEF Says
  <2>8. QED
    BY <2>7 DEF w
<1>6. ASSUME NEW text \in Seq(Byte) PROVE Says(Stream!Escape(text), Stream!Data(text))
  <2>1. Stream!Escape(text) \in Seq(Byte) /\ Stream!Data(text) \in Seq(Evt)
    <3>1. "x" \in Byte /\ <<>> \in Seq(Evt)
      BY DEF Byte
    <3>2. QED
      BY <1>1, <3>1, EscapeRead, DataIs
  <2>2. ASSUME NEW o \in Byte, NEW f \in Seq(Byte), NEW h \in Seq(Evt)
        PROVE  ReadAs(Stream!Escape(text), At("data", o, f, h), At("data", o, f, h \o Stream!Data(text)))
    BY EscapeRead
  <2>3. QED
    BY <2>1, <2>2 DEF Says
<1>7. ASSUME NEW text \in Seq({"x", "CR", "LF"})
      PROVE  Says(Stream!Translate(text), Stream!Data(Stream!Translate(text)))
  <2> DEFINE w == Stream!Translate(text)
  <2>1. w \in Seq(Byte) /\ \A k \in 1 .. Len(w) : w[k] # "IAC"
    BY TranslateIs
  <2> HIDE DEF w
  <2>2. Stream!Data(w) \in Seq(Evt)
    BY <2>1, DataIs
  <2>3. ASSUME NEW o \in Byte, NEW f \in Seq(Byte), NEW h \in Seq(Evt)
        PROVE  ReadAs(w, At("data", o, f, h), At("data", o, f, h \o Stream!Data(w)))
    BY <2>1, PlainRead
  <2>4. Says(w, Stream!Data(w))
    BY <2>1, <2>2, <2>3 DEF Says
  <2>5. QED
    BY <2>4 DEF w
<1>8. QED
  BY <1>3, <1>4, <1>5, <1>6, <1>7

(* A subnegotiation, whole and cut short.                                  *)
LEMMA SubsSay ==
  ASSUME NEW text \in Seq(Byte)
  PROVE  /\ Says(<<"IAC", "SB", "OPT">> \o Stream!Escape(text) \o <<"IAC", "SE">>, Stream!Event("sub", text))
         /\ Says(<<"IAC", "SB", "OPT">> \o Stream!Escape(text)
                   \o <<"IAC", "WILL", "OPT">> \o <<"IAC", "SE">>,
                 Stream!Event("sub", text) \o Stream!Event("negotiate", <<"OPT">>)
                   \o Stream!Event("iac", <<"SE">>))
<1> DEFINE c == <<"IAC", "SB", "OPT">>
           t == Stream!Escape(text)
           x == <<"IAC", "SE">>
           y == <<"IAC", "WILL", "OPT">>
           a == Stream!Event("sub", text)
           b == Stream!Event("negotiate", <<"OPT">>)
           d == Stream!Event("iac", <<"SE">>)
<1>1. "OPT" \in Byte /\ "SE" \in Byte /\ "OPT" # "COMPRESS" /\ <<>> \in Seq(Byte) /\ <<>> \in Seq(Evt)
  BY DEF Byte
<1>2. a \in Seq(Evt) /\ b \in Seq(Evt) /\ d \in Seq(Evt)
  BY <1>1, EventsAre
<1>3. /\ c \in Seq(Byte) /\ x \in Seq(Byte) /\ y \in Seq(Byte) /\ t \in Seq(Byte)
  BY <1>1, CommandsRead, EscapeRead
<1>4. ASSUME NEW o \in Byte, NEW f \in Seq(Byte), NEW h \in Seq(Evt)
      PROVE  /\ ReadAs(c, At("data", o, f, h), At("sbData", "OPT", <<>>, h))
             /\ ReadAs(t, At("sbData", "OPT", <<>>, h), At("sbData", "OPT", text, h))
             /\ ReadAs(x, At("sbData", "OPT", text, h), At("data", "OPT", text, h \o a))
             /\ ReadAs(y, At("sbData", "OPT", text, h), At("data", "OPT", text, (h \o a) \o b))
             /\ ReadAs(x, At("data", "OPT", text, (h \o a) \o b),
                       At("data", "OPT", text, ((h \o a) \o b) \o d))
  <2>1. ReadAs(c, At("data", o, f, h), At("sbData", "OPT", <<>>, h))
    BY <1>1, CommandsRead
  <2>2. ReadAs(t, At("sbData", "OPT", <<>>, h), At("sbData", "OPT", text, h))
    <3>1. <<>> \o text = text
      OBVIOUS
    <3>2. QED
      BY <1>1, <3>1, EscapeRead
  <2>3. /\ ReadAs(x, At("sbData", "OPT", text, h), At("data", "OPT", text, h \o a))
        /\ ReadAs(y, At("sbData", "OPT", text, h), At("data", "OPT", text, (h \o a) \o b))
    BY <1>1, EndsRead
  <2>4. ReadAs(x, At("data", "OPT", text, (h \o a) \o b),
               At("data", "OPT", text, ((h \o a) \o b) \o d))
    <3> DEFINE g == (h \o a) \o b
    <3> HIDE DEF a, b
    <3>1. g \in Seq(Evt)
      BY <1>2
    <3> HIDE DEF g
    <3>2. ReadAs(x, At("data", "OPT", text, g), At("data", "OPT", text, g \o d))
      BY <1>1, <3>1, CommandsRead
    <3>3. QED
      BY <3>2 DEF g
  <2>5. QED
    BY <2>1, <2>2, <2>3, <2>4
<1> HIDE DEF a, b, c, d, t, x, y
<1>5. (a \o b) \o d \in Seq(Evt)
      /\ \A h \in Seq(Evt) : ((h \o a) \o b) \o d = h \o ((a \o b) \o d)
  BY <1>2, EventsAssociate, ZenonT(60)
<1>6. Says((c \o t) \o x, a)
  <2>1. (c \o t) \o x \in Seq(Byte)
    BY <1>3
  <2>2. ASSUME NEW o \in Byte, NEW f \in Seq(Byte), NEW h \in Seq(Evt)
        PROVE  ReadAs((c \o t) \o x, At("data", o, f, h), At("data", "OPT", text, h \o a))
    <3> DEFINE u == c \o t
               e == At("data", "OPT", text, h \o a)
    <3>1. u \in Seq(Byte) /\ ReadAs(u, At("data", o, f, h), At("sbData", "OPT", text, h))
      BY <1>3, <1>4, ReadPart
    <3>2. x \in Seq(Byte) /\ ReadAs(x, At("sbData", "OPT", text, h), e)
      BY <1>3, <1>4
    <3> HIDE DEF u, e
    <3>3. ReadAs(u \o x, At("data", o, f, h), e)
      BY <3>1, <3>2, ReadPart
    <3>4. QED
      BY <3>3 DEF u, e
  <2>3. QED
    BY <1>1, <1>2, <2>1, <2>2 DEF Says
<1>7. Says(((c \o t) \o y) \o x, (a \o b) \o d)
  <2> DEFINE u == c \o t
             v == u \o y
  <2>0. u \in Seq(Byte)
    BY <1>3
  <2>6. v \in Seq(Byte)
    <3> HIDE DEF u
    <3>1. QED
      BY <1>3, <2>0
  <2>1. v \o x \in Seq(Byte) /\ (a \o b) \o d \in Seq(Evt)
    <3>1. v \o x \in Seq(Byte)
      <4> HIDE DEF v
      <4>1. QED
        BY <1>3, <2>6
    <3>2. QED
      BY <1>1, <1>5, <3>1
  <2>2. ASSUME NEW o \in Byte, NEW f \in Seq(Byte), NEW h \in Seq(Evt)
        PROVE  ReadAs(v \o x, At("data", o, f, h),
                      At("data", "OPT", text, h \o ((a \o b) \o d)))
    <3> DEFINE s == At("data", o, f, h)
               m == At("sbData", "OPT", text, h)
               e == At("data", "OPT", text, (h \o a) \o b)
               z == At("data", "OPT", text, ((h \o a) \o b) \o d)
    <3>1. /\ ReadAs(c, s, At("sbData", "OPT", <<>>, h)) /\ ReadAs(t, At("sbData", "OPT", <<>>, h), m)
          /\ ReadAs(y, m, e) /\ ReadAs(x, e, z)
      BY <1>4
    <3>2. z = At("data", "OPT", text, h \o ((a \o b) \o d))
      BY <1>5
    <3> HIDE DEF s, m, e, z
    <3>3. ReadAs(u, s, m)
      BY <1>3, <3>1, ReadPart
    <3> HIDE DEF u
    <3>4. ReadAs(v, s, e)
      BY <1>3, <2>0, <3>1, <3>3, ReadPart
    <3> HIDE DEF v
    <3>5. ReadAs(v \o x, s, z)
      BY <1>3, <2>6, <3>1, <3>4, ReadPart
    <3>6. QED
      BY <3>2, <3>5 DEF s
  <2> DEFINE w == ((c \o t) \o y) \o x
             e == (a \o b) \o d
  <2>3. w \in Seq(Byte) /\ e \in Seq(Evt)
    BY <2>1
  <2>4. \A o \in Byte, f \in Seq(Byte), h \in Seq(Evt) :
          ReadAs(w, At("data", o, f, h), At("data", "OPT", text, h \o e))
    BY <2>2
  <2> HIDE DEF w, e
  <2>5. Says(w, e)
    BY <1>1, <2>3, <2>4 DEF Says
  <2>7. QED
    BY <2>5 DEF w, e
<1>8. QED
  BY <1>6, <1>7 DEF a, b, c, d, t, x, y

----------------------------------------------------------------------------
(* What the bytes still on the line add is what has been said and not yet  *)
(* heard.                                                                  *)
StreamInv ==
  /\ line \in Seq(Byte) /\ said \in Seq(Evt) /\ rx \in Tracker
  /\ ~rx.misread =>
       \E o \in Byte, f \in Seq(Byte) : ReadAs(line, Now(rx), At("data", o, f, said))

(* At first nothing is said and nothing is on the line.                    *)
LEMMA InitFaithful == Stream!StreamInit => StreamInv
<1> SUFFICES ASSUME Stream!StreamInit PROVE StreamInv
  OBVIOUS
<1>1. /\ "OPT" \in Byte /\ <<>> \in Seq(Byte) /\ <<>> \in Seq(Evt)
  BY DEF Byte
<1>2. rx = [state |-> "data", telopt |-> "OPT", buffer |-> <<>>,
            start |-> 0, heard |-> <<>>, misread |-> FALSE]
  BY DEF Stream!StreamInit
<1>3. rx \in Tracker
  BY <1>1, <1>2 DEF Tracker
<1>4. Now(rx) = At("data", "OPT", <<>>, <<>>)
  BY <1>2 DEF Now
<1>5. ReadAs(line, Now(rx), At("data", "OPT", <<>>, said))
  <2>1. At("data", "OPT", <<>>, <<>>) \in Ideal
    BY <1>1, AtIdeal
  <2>2. line = <<>> /\ said = <<>>
    BY DEF Stream!StreamInit
  <2>3. QED
    BY <1>4, <2>1, <2>2, ReadNothing
<1>6. QED
  BY <1>1, <1>3, <1>5 DEF Stream!StreamInit, StreamInv

(* A call adds to the line what adds to the events what it said.           *)
LEMMA CallFaithful ==
  ASSUME StreamInv, NEW bytes, NEW events, Says(bytes, events), Stream!Call(bytes, events)
  PROVE  StreamInv'
<1>1. bytes \in Seq(Byte) /\ events \in Seq(Evt) /\ line \in Seq(Byte) /\ said \in Seq(Evt)
  BY DEF Says, StreamInv
<1>2. line' = line \o bytes /\ said' = said \o events /\ rx' = rx
  BY DEF Stream!Call
<1>3. line' \in Seq(Byte) /\ said' \in Seq(Evt)
  BY <1>1, <1>2
<1>4. ~rx.misread =>
        \E o \in Byte, f \in Seq(Byte) : ReadAs(line', Now(rx), At("data", o, f, said'))
  <2>1. SUFFICES ASSUME ~rx.misread
                 PROVE  \E o \in Byte, f \in Seq(Byte) : ReadAs(line', Now(rx), At("data", o, f, said'))
    OBVIOUS
  <2>2. PICK o \in Byte, f \in Seq(Byte) : ReadAs(line, Now(rx), At("data", o, f, said))
    BY <2>1 DEF StreamInv
  <2>3. PICK p \in Byte, g \in Seq(Byte) :
          ReadAs(bytes, At("data", o, f, said), At("data", p, g, said \o events))
    BY <1>1 DEF Says
  <2>4. ReadAs(line \o bytes, Now(rx), At("data", p, g, said \o events))
    BY <1>1, <2>2, <2>3, ReadBoth
  <2>5. QED
    BY <1>2, <2>4
<1>5. QED
  BY <1>2, <1>3, <1>4 DEF StreamInv, Now

(* A piece leaves the line, and the ideal receiver is where the tracker is *)
(* when it ends.                                                           *)
LEMMA RecvFaithful ==
  ASSUME StreamInv, NEW n \in 1 .. Len(line), Stream!TelnetRecv(n)
  PROVE  StreamInv'
<1> DEFINE v == SubSeq(line, 1, n)
           z == SubSeq(line, n + 1, Len(line))
           q == [Stream!Process(rx, v) EXCEPT !.start = 0]
<1>1. rx' = q /\ line' = z /\ said' = said
  BY DEF Stream!TelnetRecv
<1>2. line \in Seq(Byte) /\ said \in Seq(Evt) /\ rx \in Tracker
  BY DEF StreamInv
<1>3. v \in Seq(Byte) /\ z \in Seq(Byte)
  BY <1>2
<1>4. ASSUME NEW e, ReadAs(line, Now(rx), e)
      PROVE  q \in Tracker /\ (~q.misread => ~rx.misread /\ ReadAs(z, Now(q), e))
  <2>1. PICK m \in Ideal : ReadAs(v, Now(rx), m) /\ ReadAs(z, m, e)
    BY <1>2, <1>4, ReadPieces
  <2> HIDE DEF v, z
  <2>2. q \in Tracker /\ (~q.misread => ~rx.misread /\ m = Now(q))
    BY <1>2, <1>3, <2>1, ProcessRead
  <2> HIDE DEF q
  <2>3. QED
    BY <2>1, <2>2
<1>5. Now(rx) \in Ideal
  BY <1>2, TrackerIs, AtIdeal DEF Now, Where
<1>6. \E e : ReadAs(line, Now(rx), e)
  BY <1>2, <1>5, ReadSome
<1>7. q \in Tracker /\ (~q.misread => ~rx.misread)
  BY <1>4, <1>6
<1>8. ~q.misread => \E o \in Byte, f \in Seq(Byte) : ReadAs(z, Now(q), At("data", o, f, said))
  BY <1>4, <1>7 DEF StreamInv
<1> HIDE DEF q, z
<1>9. QED
  BY <1>1, <1>2, <1>3, <1>7, <1>8 DEF StreamInv, Now

(* What is assumed of the constants: texts have a length.                  *)
StreamParameters == MaxData \in Nat

LEMMA TextsAre ==
  ASSUME StreamParameters
  PROVE  Stream!Texts \subseteq Seq(Byte) /\ Stream!Lines \subseteq Seq({"x", "CR", "LF"})
<1>1. {"x", "IAC"} \subseteq Byte
  BY DEF Byte
<1>2. ASSUME NEW text \in Stream!Texts PROVE text \in Seq(Byte)
  <2>1. PICK n \in 0 .. MaxData : text \in [1 .. n -> {"x", "IAC"}]
    BY DEF Stream!Texts
  <2>2. n \in Nat
    BY DEF StreamParameters
  <2>3. \A i \in 1 .. n : text[i] \in Byte
    BY <1>1, <2>1
  <2>4. text \in [1 .. n -> Byte]
    BY <2>1, <2>3
  <2>5. QED
    BY <2>2, <2>4
<1>3. ASSUME NEW text \in Stream!Lines PROVE text \in Seq({"x", "CR", "LF"})
  <2>1. PICK n \in 1 .. MaxData : text \in [1 .. n -> {"x", "CR", "LF"}]
    BY DEF Stream!Lines
  <2>2. n \in Nat
    BY DEF StreamParameters
  <2>3. QED
    BY <2>1, <2>2
<1>4. QED
  BY <1>2, <1>3

(* Every step of the two ends keeps the invariant.                         *)
LEMMA StreamStep ==
  ASSUME StreamParameters, StreamInv, [Stream!StreamNext]_(Stream!streamVars)
  PROVE  StreamInv'
<1>1. ASSUME NEW text \in Stream!Texts, Stream!TelnetSend(text) PROVE StreamInv'
  <2>1. Says(Stream!Escape(text), Stream!Data(text))
    BY TextsAre, CallsSay
  <2>2. QED
    BY <1>1, <2>1, CallFaithful DEF Stream!TelnetSend
<1>2. ASSUME NEW text \in Stream!Texts, Stream!TelnetSubnegotiation(text) PROVE StreamInv'
  <2>1. text \in Seq(Byte)
    BY TextsAre
  <2>2. QED
    BY <1>2, <2>1, SubsSay, CallFaithful DEF Stream!TelnetSubnegotiation
<1>3. ASSUME NEW text \in Stream!Texts, Stream!SubnegotiationCutShort(text) PROVE StreamInv'
  <2>1. text \in Seq(Byte)
    BY TextsAre
  <2>2. QED
    BY <1>3, <2>1, SubsSay, CallFaithful DEF Stream!SubnegotiationCutShort
<1>4. ASSUME NEW text \in Stream!Lines, Stream!TelnetPrintf(text) PROVE StreamInv'
  <2>1. Says(Stream!Translate(text), Stream!Data(Stream!Translate(text)))
    BY TextsAre, CallsSay
  <2>2. QED
    BY <1>4, <2>1, CallFaithful DEF Stream!TelnetPrintf
<1>5. CASE Stream!TelnetIac
  BY <1>5, CallsSay, CallFaithful DEF Stream!TelnetIac
<1>6. CASE Stream!SendNegotiate
  BY <1>6, CallsSay, CallFaithful DEF Stream!SendNegotiate
<1>7. CASE Stream!MccpV1
  BY <1>7, CallsSay, CallFaithful DEF Stream!MccpV1
<1>8. ASSUME NEW n \in 1 .. Len(line), Stream!TelnetRecv(n) PROVE StreamInv'
  BY <1>8, RecvFaithful
<1>9. CASE UNCHANGED Stream!streamVars
  BY <1>9 DEF Stream!streamVars, StreamInv, Now
<1>10. QED
  BY <1>1, <1>2, <1>3, <1>4, <1>5, <1>6, <1>7, <1>8, <1>9 DEF Stream!StreamNext

(* What the ideal receiver adds is a tail, and an empty line adds nothing. *)
LEMMA InvFaithful == StreamInv => StreamFaithful
<1> SUFFICES ASSUME StreamInv, ~rx.misread
             PROVE  Stream!IsPrefix(rx.heard, said) /\ (line = <<>> => rx.heard = said)
  BY DEF StreamFaithful, Stream!StreamFaithful
<1>1. line \in Seq(Byte) /\ said \in Seq(Evt) /\ rx \in Tracker
  BY DEF StreamInv
<1>2. PICK o \in Byte, f \in Seq(Byte) : ReadAs(line, Now(rx), At("data", o, f, said))
  BY DEF StreamInv
<1>3. Now(rx).heard = rx.heard /\ At("data", o, f, said).heard = said
  BY AtIs DEF Now
<1>4. PICK d \in Seq(Evt) : said = rx.heard \o d
  <2> DEFINE s == Now(rx)
             e == At("data", o, f, said)
  <2>1. line \in Seq(Byte) /\ ReadAs(line, s, e) /\ s.heard = rx.heard /\ e.heard = said
    BY <1>1, <1>2, <1>3
  <2> HIDE DEF s, e
  <2>4. line \in Seq(Byte) /\ ReadAs(line, s, e)
    BY <2>1
  <2>2. \E d \in Seq(Evt) : e.heard = s.heard \o d
    BY <2>4, ReadAdds, ZenonT(60)
  <2>3. QED
    BY <2>1, <2>2
<1>5. rx.heard \in Seq(Evt)
  BY <1>1, TrackerIs
<1>6. Stream!IsPrefix(rx.heard, said)
  BY <1>4, <1>5 DEF Stream!IsPrefix
<1>7. ASSUME line = <<>> PROVE rx.heard = said
  <2>1. PICK t : Reads(t, line, Now(rx), At("data", o, f, said))
    BY <1>2 DEF ReadAs
  <2>2. Now(rx) = At("data", o, f, said)
    BY <1>7, <2>1 DEF Reads
  <2>3. QED
    BY <1>3, <2>2
<1>8. QED
  BY <1>6, <1>7

(* For every size of text and of the receiver's buffer, and whatever the   *)
(* connection makes one piece: the events a telnet receiver raises are the *)
(* first ones of what was said, and all of them once everything has come,  *)
(* but for the two inputs that StreamFaithful names (telnetc.c).           *)
THEOREM StreamsAreHeard ==
  StreamParameters => (StreamSpec => []StreamFaithful)
<1> SUFFICES ASSUME StreamParameters
             PROVE  StreamSpec => []StreamFaithful
  OBVIOUS
<1>1. Stream!StreamInit => StreamInv
  BY InitFaithful
<1>2. StreamInv /\ [Stream!StreamNext]_(Stream!streamVars) => StreamInv'
  BY StreamStep
<1>3. StreamInv => StreamFaithful
  BY InvFaithful
<1>4. QED
  BY <1>1, <1>2, <1>3, PTL DEF StreamSpec

----------------------------------------------------------------------------
(* A session of the FTP daemon (FtpServer).  First the paths: what         *)
(* pathignore marks, node after node, then that a path from the root is    *)
(* clean once it is stripped, and that one clean path after another is     *)
(* below the first.  Then the login, the data connection and what the file *)
(* system is handed, action after action.                                  *)
(* The nodes of a path, of which the model names two.                      *)
Node == STRING \cup {Ftp!Empty, Ftp!Entry}
Path == Seq(Node)
Dots == {Ftp!Empty, ".", ".."}

(* A path without dots, from the root.                                     *)
Clean(path) ==
  /\ path \in Path /\ Len(path) >= 1 /\ path[1] = Ftp!Empty
  /\ \A k \in 2 .. Len(path) : path[k] \notin Dots

(* What the nodes that are ignored are made of, node after node.           *)
LEMMA IgnoredGrows ==
  ASSUME NEW p \in Path
  PROVE  \E g \in [0 .. Len(p) -> SUBSET (1 .. Len(p))] :
           /\ g[0] = {} /\ Ftp!Ignored(p) = g[Len(p)]
           /\ \A k \in 1 .. Len(p) : g[k] = Ftp!Marked(p, g[k - 1], k)
<1> DEFINE n == Len(p)
           S == SUBSET (1 .. n)
           F == [q \in (1 .. n) \X S |-> Ftp!Marked(p, q[2], q[1])]
           Rule(g) == g = [i \in 0 .. n |-> IF i = 0 THEN {} ELSE Ftp!Marked(p, g[i - 1], i)]
<1>1. n \in Nat /\ {} \in S
  OBVIOUS
<1>2. ASSUME NEW k \in 1 .. n, NEW m \in S PROVE Ftp!Marked(p, m, k) \in S
  <2> DEFINE kept == 1 .. (k - 1) \ m
             last == {j \in kept : \A l \in kept : l <= j}
             add == CASE p[k] = Ftp!Empty -> {k} \ {1}
                      [] p[k] = ".."  -> {k} \cup {j \in last : p[j] # Ftp!Empty}
                      [] p[k] = "."   -> {k}
                      [] OTHER        -> {}
  <2>1. last \in S /\ {k} \in S
    OBVIOUS
  <2> HIDE DEF last
  <2>2. add \in S
    BY <2>1
  <2>3. Ftp!Marked(p, m, k) = m \cup add
    BY DEF Ftp!Marked, last
  <2> HIDE DEF add
  <2>4. QED
    BY <2>2, <2>3
<1> HIDE DEF n, S
<1>3. F \in [(1 .. n) \X S -> S] /\ \A k \in 1 .. n, m \in S : F[<<k, m>>] = Ftp!Marked(p, m, k)
  BY <1>2
<1> HIDE DEF F
<1>4. \E f : Iterates(f, n, S, {}, F)
  BY <1>1, <1>3, Recursion
<1>5. PICK f \in [0 .. n -> S] :
        f[0] = {} /\ \A k \in 1 .. n : f[k] = F[<<k, f[k - 1]>>]
  BY <1>4 DEF Iterates
<1>6. ASSUME NEW k \in 1 .. n PROVE f[k] = Ftp!Marked(p, f[k - 1], k)
  <2>1. k - 1 \in 0 .. n
    BY <1>1
  <2>2. f[k - 1] \in S
    BY <2>1
  <2>3. QED
    BY <1>3, <1>5, <2>2
<1>7. Rule(f)
  <2> DEFINE g == [i \in 0 .. n |-> IF i = 0 THEN {} ELSE Ftp!Marked(p, f[i - 1], i)]
  <2>1. ASSUME NEW i \in 0 .. n PROVE f[i] = g[i]
    <3>1. i = 0 \/ i \in 1 .. n
      BY <1>1
    <3>2. QED
      BY <1>5, <1>6, <3>1
  <2>2. g = [i \in 0 .. n |-> g[i]]
    OBVIOUS
  <2> HIDE DEF g
  <2>3. f = g
    BY <2>1, <2>2
  <2>4. QED
    BY <2>3 DEF g
<1>8. ASSUME NEW g, Rule(g)
      PROVE  /\ g \in [0 .. n -> S] /\ g[0] = {}
             /\ \A k \in 1 .. n : g[k] = Ftp!Marked(p, g[k - 1], k)
  <2>0. \A i \in 0 .. n : g[i] = IF i = 0 THEN {} ELSE Ftp!Marked(p, g[i - 1], i)
    BY <1>8, Zenon
  <2>1. g[0] = {} /\ \A k \in 1 .. n : g[k] = Ftp!Marked(p, g[k - 1], k)
    <3>1. 0 \in 0 .. n /\ \A k \in 1 .. n : k \in 0 .. n /\ k # 0
      BY <1>1
    <3>2. QED
      BY <2>0, <3>1, Zenon
  <2> DEFINE H == {k \in Nat : k <= n => g[k] \in S}
  <2>2. 0 \in H
    BY <1>1, <2>1
  <2>3. ASSUME NEW k \in Nat, k \in H PROVE k + 1 \in H
    <3>1. SUFFICES ASSUME k + 1 <= n PROVE g[k + 1] \in S
      OBVIOUS
    <3>2. k <= n /\ k + 1 \in 1 .. n /\ (k + 1) - 1 = k
      BY <1>1, <3>1
    <3>3. g[k] \in S
      BY <2>3, <3>2
    <3>4. g[k + 1] = Ftp!Marked(p, g[k], k + 1)
      BY <2>1, <3>2
    <3>5. QED
      BY <1>2, <3>2, <3>3, <3>4
  <2> HIDE DEF H
  <2>4. \A k \in Nat : k \in H
    BY <2>2, <2>3, Induction
  <2>5. \A k \in 0 .. n : g[k] \in S
    BY <1>1, <2>4 DEF H
  <2>6. QED
    BY <1>8, <2>1, <2>5
<1>9. Rule(CHOOSE g : Rule(g))
  <2> HIDE DEF Rule
  <2>1. QED
    BY <1>7
<1>10. Ftp!Ignored(p) = (CHOOSE g : Rule(g))[n]
  BY DEF Ftp!Ignored, n
<1> HIDE DEF Rule
<1>11. QED
  BY <1>8, <1>9, <1>10 DEF n, S

(* So of the nodes that are kept.                                          *)
LEMMA StripGrows ==
  ASSUME NEW p \in Path
  PROVE  \E g \in [0 .. Len(p) -> Path] :
           /\ g[0] = <<>> /\ Ftp!Strip(p) = g[Len(p)]
           /\ \A k \in 1 .. Len(p) :
                g[k] = IF k \in Ftp!Ignored(p) THEN g[k - 1] ELSE Append(g[k - 1], p[k])
<1> DEFINE n == Len(p)
           S == Path
           ignored == Ftp!Ignored(p)
           More(v, k) == IF k \in ignored THEN v ELSE Append(v, p[k])
           F == [q \in (1 .. n) \X S |-> More(q[2], q[1])]
           Rule(g) == g = [i \in 0 .. n |->
                             IF i = 0 THEN <<>>
                             ELSE IF i \in ignored THEN g[i - 1] ELSE Append(g[i - 1], p[i])]
<1>1. n \in Nat /\ <<>> \in S
  BY DEF Path
<1>2. ASSUME NEW k \in 1 .. n, NEW v \in S PROVE More(v, k) \in S
  <2>1. p[k] \in Node
    BY ElementOfSeq DEF Path
  <2>2. Append(v, p[k]) \in S
    BY <2>1 DEF Path
  <2> HIDE DEF S
  <2>3. QED
    BY <2>2
<1> HIDE DEF n, S, ignored
<1>3. F \in [(1 .. n) \X S -> S] /\ \A k \in 1 .. n, v \in S : F[<<k, v>>] = More(v, k)
  <2> HIDE DEF More
  <2>1. QED
    BY <1>2
<1> HIDE DEF F
<1>4. \E f : Iterates(f, n, S, <<>>, F)
  <2> DEFINE base == <<>>
  <2>1. base \in S
    BY <1>1
  <2> HIDE DEF base
  <2>2. \E f : Iterates(f, n, S, base, F)
    BY <1>1, <1>3, <2>1, Recursion
  <2>3. QED
    BY <2>2 DEF base
<1>5. PICK f \in [0 .. n -> S] :
        f[0] = <<>> /\ \A k \in 1 .. n : f[k] = F[<<k, f[k - 1]>>]
  BY <1>4 DEF Iterates
<1>6. ASSUME NEW k \in 1 .. n PROVE f[k] = More(f[k - 1], k)
  <2> HIDE DEF More
  <2>1. k - 1 \in 0 .. n
    BY <1>1
  <2>2. f[k - 1] \in S
    BY <2>1
  <2>3. QED
    BY <1>3, <1>5, <2>2
<1>7. Rule(f)
  <2> DEFINE g == [i \in 0 .. n |->
                     IF i = 0 THEN <<>>
                     ELSE IF i \in ignored THEN f[i - 1] ELSE Append(f[i - 1], p[i])]
  <2>1. ASSUME NEW i \in 0 .. n PROVE f[i] = g[i]
    <3>1. i = 0 \/ (i \in 1 .. n /\ i # 0)
      BY <1>1
    <3>2. CASE i = 0
      BY <1>5, <3>2
    <3>3. CASE i \in 1 .. n /\ i # 0
      <4>1. f[i] = More(f[i - 1], i)
        BY <1>6, <3>3
      <4>2. g[i] = More(f[i - 1], i)
        BY <3>3
      <4> HIDE DEF g, More
      <4>3. QED
        BY <4>1, <4>2
    <3>4. QED
      BY <3>1, <3>2, <3>3
  <2>2. g = [i \in 0 .. n |-> g[i]]
    OBVIOUS
  <2> HIDE DEF g
  <2>3. f = g
    BY <2>1, <2>2
  <2>4. QED
    BY <2>3 DEF g
<1>8. ASSUME NEW g, Rule(g)
      PROVE  /\ g \in [0 .. n -> S] /\ g[0] = <<>>
             /\ \A k \in 1 .. n : g[k] = More(g[k - 1], k)
  <2>0. \A i \in 0 .. n : g[i] = IF i = 0 THEN <<>>
                                 ELSE IF i \in ignored THEN g[i - 1] ELSE Append(g[i - 1], p[i])
    BY <1>8, Zenon
  <2>1. g[0] = <<>> /\ \A k \in 1 .. n : g[k] = More(g[k - 1], k)
    <3>1. 0 \in 0 .. n /\ \A k \in 1 .. n : k \in 0 .. n /\ k # 0
      BY <1>1
    <3>2. QED
      BY <2>0, <3>1, Zenon
  <2> DEFINE H == {k \in Nat : k <= n => g[k] \in S}
  <2>2. 0 \in H
    <3>1. g[0] \in S
      BY <1>1, <2>1
    <3>2. QED
      BY <3>1
  <2>3. ASSUME NEW k \in Nat, k \in H PROVE k + 1 \in H
    <3> HIDE DEF More
    <3>1. SUFFICES ASSUME k + 1 <= n PROVE g[k + 1] \in S
      OBVIOUS
    <3>2. k <= n /\ k + 1 \in 1 .. n /\ (k + 1) - 1 = k
      BY <1>1, <3>1
    <3>3. g[k] \in S
      BY <2>3, <3>2
    <3>4. g[k + 1] = More(g[k], k + 1)
      BY <2>1, <3>2
    <3>5. QED
      BY <1>2, <3>2, <3>3, <3>4
  <2> HIDE DEF H
  <2>4. \A k \in Nat : k \in H
    BY <2>2, <2>3, Induction
  <2>5. \A k \in 0 .. n : g[k] \in S
    BY <1>1, <2>4 DEF H
  <2> HIDE DEF More
  <2>6. QED
    BY <1>8, <2>1, <2>5
<1>9. Rule(CHOOSE g : Rule(g))
  <2> HIDE DEF Rule
  <2>1. QED
    BY <1>7
<1>10. Ftp!Strip(p) = (CHOOSE g : Rule(g))[n]
  BY DEF Ftp!Strip, n, ignored
<1> HIDE DEF Rule
<1>11. QED
  BY <1>8, <1>9, <1>10 DEF n, S, ignored

LEMMA EmptyIs == Ftp!Empty \in Node /\ Ftp!Empty # "." /\ Ftp!Empty # ".."
<1>1. Ftp!Empty \in Node
  BY DEF Node
<1>2. Ftp!Empty # "."
  BY Zenon DEF Ftp!Empty
<1>3. Ftp!Empty # ".."
  BY Zenon DEF Ftp!Empty
<1>4. QED
  BY <1>1, <1>2, <1>3

LEMMA AppendIs ==
  ASSUME NEW v \in Path, NEW e \in Node
  PROVE  /\ Append(v, e) \in Path /\ Len(v) \in Nat /\ Len(Append(v, e)) = Len(v) + 1
         /\ \A k \in 1 .. Len(v) : Append(v, e)[k] = v[k]
         /\ Append(v, e)[Len(v) + 1] = e
<1>1. v \in Seq(Node)
  BY DEF Path
<1>2. /\ Append(v, e) \in Seq(Node) /\ Len(Append(v, e)) = Len(v) + 1
      /\ \A k \in 1 .. Len(v) : Append(v, e)[k] = v[k]
      /\ Append(v, e)[Len(v) + 1] = e
  BY <1>1, AppendProperties
<1>3. Len(v) \in Nat
  BY <1>1
<1>4. QED
  BY <1>2, <1>3, Zenon DEF Path

(* What pathignore marks at one node.                                      *)
LEMMA MarkedIs ==
  ASSUME NEW p \in Path, NEW k \in 1 .. Len(p), NEW m \in SUBSET (1 .. Len(p))
  PROVE  /\ m \subseteq Ftp!Marked(p, m, k)
         /\ p[k] \in Dots /\ k # 1 => k \in Ftp!Marked(p, m, k)
         /\ p[1] = Ftp!Empty /\ 1 \notin m => 1 \notin Ftp!Marked(p, m, k)
         /\ p[k] \notin Dots => Ftp!Marked(p, m, k) = m
         /\ p[k] = Ftp!Empty => Ftp!Marked(p, m, k) = m \cup ({k} \ {1})
<1> DEFINE kept == 1 .. (k - 1) \ m
           last == {j \in kept : \A l \in kept : l <= j}
           back == {j \in last : p[j] # Ftp!Empty}
           add == CASE p[k] = Ftp!Empty -> {k} \ {1}
                    [] p[k] = ".."  -> {k} \cup back
                    [] p[k] = "."   -> {k}
                    [] OTHER        -> {}
<1>1. Ftp!Marked(p, m, k) = m \cup add
  BY DEF Ftp!Marked
<1>0. Ftp!Empty # "." /\ Ftp!Empty # ".."
  BY EmptyIs
<1>2. p[1] = Ftp!Empty => 1 \notin back
  OBVIOUS
<1> HIDE DEF back
<1>3. p[k] = Ftp!Empty => add = {k} \ {1}
  BY <1>0
<1>4. p[k] = ".." => add = {k} \cup back
  BY <1>0
<1>5. p[k] = "." => add = {k}
  BY <1>0
<1>6. p[k] \notin Dots => add = {}
  BY DEF Dots
<1> HIDE DEF add
<1>7. QED
  BY <1>1, <1>2, <1>3, <1>4, <1>5, <1>6 DEF Dots

(* Of a path from the root everything is marked that has dots, but not the *)
(* root.                                                                   *)
LEMMA DotsIgnored ==
  ASSUME NEW p \in Path, Len(p) >= 1, p[1] = Ftp!Empty
  PROVE  /\ 1 \notin Ftp!Ignored(p)
         /\ \A k \in 2 .. Len(p) : p[k] \in Dots => k \in Ftp!Ignored(p)
<1>1. PICK g \in [0 .. Len(p) -> SUBSET (1 .. Len(p))] :
        /\ g[0] = {} /\ Ftp!Ignored(p) = g[Len(p)]
        /\ \A k \in 1 .. Len(p) : g[k] = Ftp!Marked(p, g[k - 1], k)
  BY IgnoredGrows
<1> DEFINE n == Len(p)
           Swept(i) == /\ 1 \notin g[i]
                      /\ \A k \in 2 .. n : k <= i /\ p[k] \in Dots => k \in g[i]
           H == {i \in Nat : i <= n => Swept(i)}
<1>2. n \in Nat
  OBVIOUS
<1>3. 0 \in H
  BY <1>1
<1>4. ASSUME NEW i \in Nat, i \in H PROVE i + 1 \in H
  <2>1. SUFFICES ASSUME i + 1 <= n PROVE Swept(i + 1)
    OBVIOUS
  <2> DEFINE j == i + 1
             m == g[i]
  <2>2. j \in 1 .. n /\ j - 1 = i /\ i \in 0 .. n
    BY <1>2, <2>1
  <2>3. m \in SUBSET (1 .. n) /\ g[j] = Ftp!Marked(p, m, j)
    BY <1>1, <2>2
  <2>4. Swept(i)
    BY <1>4, <2>2
  <2>5. /\ m \subseteq Ftp!Marked(p, m, j)
        /\ p[j] \in Dots /\ j # 1 => j \in Ftp!Marked(p, m, j)
        /\ p[1] = Ftp!Empty /\ 1 \notin m => 1 \notin Ftp!Marked(p, m, j)
    BY <2>2, <2>3, MarkedIs
  <2>6. \A k \in 2 .. n : k <= j => k <= i \/ (k = j /\ j # 1)
    BY <2>2
  <2>7. 1 \notin g[j] /\ \A k \in 2 .. n : k <= j /\ p[k] \in Dots => k \in g[j]
    BY <2>3, <2>4, <2>5, <2>6
  <2>8. QED
    BY <2>7
<1> HIDE DEF H
<1>5. n \in H
  BY <1>2, <1>3, <1>4, Induction
<1>6. Swept(n)
  BY <1>5 DEF H
<1>7. QED
  BY <1>1, <1>2, <1>6

(* Such a path is clean once it is stripped.                               *)
LEMMA StripCleans ==
  ASSUME NEW p \in Path, Len(p) >= 1, p[1] = Ftp!Empty
  PROVE  Clean(Ftp!Strip(p))
<1> DEFINE n == Len(p)
           ignored == Ftp!Ignored(p)
<1>2. n \in Nat /\ n >= 1
  BY DEF Path
<1> HIDE DEF n
<1>1. PICK g \in [0 .. n -> Path] :
        /\ g[0] = <<>> /\ Ftp!Strip(p) = g[n]
        /\ \A k \in 1 .. n :
             g[k] = IF k \in ignored THEN g[k - 1] ELSE Append(g[k - 1], p[k])
  BY StripGrows, Zenon DEF n
<1> DEFINE H == {i \in Nat : 1 <= i /\ i <= n => Clean(g[i])}
<1>3. 1 \notin ignored /\ \A k \in 2 .. n : p[k] \in Dots => k \in ignored
  BY DotsIgnored, Zenon DEF n
<1>4. 0 \in H
  OBVIOUS
<1>5. ASSUME NEW i \in Nat, i \in H PROVE i + 1 \in H
  <2> DEFINE j == i + 1
             v == g[i]
  <2>1. SUFFICES ASSUME j <= n PROVE Clean(g[j])
    OBVIOUS
  <2>2. j \in 1 .. n /\ j - 1 = i /\ i \in 0 .. n
    BY <1>2, <2>1
  <2>3. v \in Path /\ g[j] = IF j \in ignored THEN v ELSE Append(v, p[j])
    BY <1>1, <2>2
  <2>4. p[j] \in Node
    BY <2>2, ElementOfSeq DEF Path, n
  <2>5. CASE i = 0
    <3>1. v = <<>> /\ j = 1
      BY <1>1, <2>5
    <3>2. g[j] = <<Ftp!Empty>>
      BY <1>3, <2>3, <3>1
    <3>3. QED
      BY <3>2 DEF Clean, Path
  <2>6. CASE i # 0 /\ j \in ignored
    BY <1>5, <2>2, <2>3, <2>6
  <2>7. CASE i # 0 /\ j \notin ignored
    <3>1. Clean(v) /\ j \in 2 .. n /\ p[j] \notin Dots
      BY <1>3, <1>5, <2>2, <2>7
    <3>2. g[j] = Append(v, p[j])
      BY <2>3, <2>7
    <3> DEFINE e == p[j]
    <3> HIDE DEF v, e
    <3>3. v \in Path /\ Clean(v) /\ e \in Node /\ e \notin Dots
      BY <2>3, <2>4, <3>1 DEF e
    <3>4. Clean(Append(v, e))
      <4>1. /\ Append(v, e) \in Path /\ Len(v) \in Nat /\ Len(Append(v, e)) = Len(v) + 1
            /\ \A k \in 1 .. Len(v) : Append(v, e)[k] = v[k]
            /\ Append(v, e)[Len(v) + 1] = e
        BY <3>3, AppendIs
      <4> DEFINE w == Append(v, e)
      <4>2. /\ w \in Path /\ Len(w) = Len(v) + 1 /\ \A k \in 1 .. Len(v) : w[k] = v[k]
            /\ w[Len(v) + 1] = e
        BY <4>1
      <4> HIDE DEF w
      <4>3. Len(v) \in Nat /\ Len(v) >= 1 /\ v[1] = Ftp!Empty
        BY <3>3, <4>1 DEF Clean
      <4>4. Len(w) >= 1 /\ w[1] = Ftp!Empty
        BY <4>2, <4>3
      <4>5. ASSUME NEW k \in 2 .. Len(w) PROVE w[k] \notin Dots
        <5>1. k = Len(v) + 1 \/ k \in 2 .. Len(v)
          BY <4>2, <4>3
        <5>2. k \in 2 .. Len(v) => w[k] = v[k] /\ v[k] \notin Dots
          BY <3>3, <4>2, <4>3 DEF Clean
        <5>3. QED
          BY <3>3, <4>2, <5>1, <5>2
      <4>6. Clean(w)
        BY <4>2, <4>4, <4>5 DEF Clean
      <4>7. QED
        BY <4>6 DEF w
    <3>5. QED
      BY <3>2, <3>4 DEF e
  <2>8. QED
    BY <2>5, <2>6, <2>7
<1> HIDE DEF H
<1>6. n \in H
  BY <1>2, <1>4, <1>5, Induction
<1>7. Clean(g[n])
  BY <1>2, <1>6 DEF H
<1>8. QED
  BY <1>1, <1>7

(* A clean path below another one.                                         *)
Below(home, path) ==
  /\ home \in Path /\ path \in Path /\ Len(home) <= Len(path)
  /\ \A k \in 1 .. Len(home) : path[k] = home[k]

(* Of one clean path after another, only the root of the second is marked. *)
LEMMA RootIgnored ==
  ASSUME NEW home, Clean(home), NEW work, Clean(work)
  PROVE  Ftp!Ignored(home \o work) = {Len(home) + 1}
<1> DEFINE p == home \o work
           n == Len(p)
           h == Len(home)
           w == Len(work)
<1>1. /\ p \in Path /\ h \in Nat /\ w \in Nat /\ n = h + w /\ h >= 1 /\ w >= 1 /\ n \in Nat
      /\ \A k \in 1 .. n : p[k] = IF k <= h THEN home[k] ELSE work[k - h]
  BY DEF Clean, Path
<1>2. /\ p[1] = Ftp!Empty /\ p[h + 1] = Ftp!Empty
      /\ \A k \in 1 .. n : k # 1 /\ k # h + 1 => p[k] \notin Dots
  BY <1>1 DEF Clean
<1> HIDE DEF p
<1>3. PICK g \in [0 .. Len(p) -> SUBSET (1 .. Len(p))] :
        /\ g[0] = {} /\ Ftp!Ignored(p) = g[Len(p)]
        /\ \A k \in 1 .. Len(p) : g[k] = Ftp!Marked(p, g[k - 1], k)
  BY <1>1, IgnoredGrows
<1> DEFINE Marking(i) == IF i <= h THEN {} ELSE {h + 1}
           H == {i \in Nat : i <= n => g[i] = Marking(i)}
<1>4. 0 \in H
  BY <1>1, <1>3
<1>5. ASSUME NEW i \in Nat, i \in H PROVE i + 1 \in H
  <2> DEFINE j == i + 1
             m == g[i]
  <2>1. SUFFICES ASSUME j <= n PROVE g[j] = Marking(j)
    OBVIOUS
  <2>2. j \in 1 .. n /\ j - 1 = i /\ i \in 0 .. n
    BY <1>1, <2>1
  <2>3. m \in SUBSET (1 .. n) /\ g[j] = Ftp!Marked(p, m, j)
    BY <1>3, <2>2
  <2>4. m = Marking(i)
    BY <1>5, <2>2
  <2> HIDE DEF m, j
  <2>5. /\ p[j] \notin Dots => Ftp!Marked(p, m, j) = m
        /\ p[j] = Ftp!Empty => Ftp!Marked(p, m, j) = m \cup ({j} \ {1})
    BY <1>1, <2>2, <2>3, MarkedIs, Zenon DEF n
  <2> USE DEF j
  <2>6. CASE j = 1
    <3>1. {j} \ {1} = {} /\ j <= h /\ i <= h
      BY <1>1, <2>6
    <3>2. p[j] = Ftp!Empty
      BY <1>2, <2>6
    <3>3. g[j] = m
      BY <2>3, <2>5, <3>1, <3>2
    <3>4. QED
      BY <2>4, <3>1, <3>3
  <2>7. CASE j = h + 1
    <3>1. j # 1 /\ i <= h /\ ~(j <= h)
      BY <1>1, <2>7
    <3>2. g[j] = m \cup {j} /\ m = {}
      BY <1>2, <2>3, <2>4, <2>5, <2>7, <3>1
    <3>3. QED
      BY <2>7, <3>1, <3>2
  <2>8. CASE j # 1 /\ j # h + 1
    <3>1. g[j] = m
      BY <1>2, <2>2, <2>3, <2>5, <2>8
    <3>2. j <= h <=> i <= h
      BY <1>1, <2>8
    <3>3. QED
      BY <2>4, <3>1, <3>2
  <2>9. QED
    BY <2>6, <2>7, <2>8
<1> HIDE DEF H
<1>6. n \in H
  BY <1>1, <1>4, <1>5, Induction
<1>7. g[n] = Marking(n)
  BY <1>1, <1>6 DEF H
<1>8. ~(n <= h)
  BY <1>1
<1>9. Ftp!Ignored(p) = {h + 1}
  BY <1>3, <1>7, <1>8
<1>10. QED
  BY <1>9 DEF p

(* What the file system is handed is below the home.                       *)
LEMMA StripStays ==
  ASSUME NEW home, Clean(home), NEW work, Clean(work)
  PROVE  Below(home, Ftp!Strip(home \o work))
<1> DEFINE p == home \o work
           n == Len(p)
           h == Len(home)
           ignored == Ftp!Ignored(p)
<1>1. /\ p \in Path /\ h \in Nat /\ h <= n /\ h >= 1 /\ n \in Nat /\ home \in Path
      /\ \A k \in 1 .. h : p[k] = home[k]
  BY DEF Clean, Path
<1>2. ignored = {h + 1}
  BY RootIgnored
<1>8. ~(n <= h)
  BY DEF Clean, Path
<1> HIDE DEF p, n, ignored
<1>3. PICK g \in [0 .. n -> Path] :
        /\ g[0] = <<>> /\ Ftp!Strip(p) = g[n]
        /\ \A k \in 1 .. n :
             g[k] = IF k \in ignored THEN g[k - 1] ELSE Append(g[k - 1], p[k])
  BY <1>1, StripGrows, Zenon DEF n, ignored
<1> DEFINE Holds(v, i) == IF i <= h THEN Len(v) = i /\ \A k \in 1 .. i : v[k] = home[k]
                         ELSE Below(home, v)
           H == {i \in Nat : i <= n => Holds(g[i], i)}
<1>4. 0 \in H
  BY <1>1, <1>3
<1>5. ASSUME NEW i \in Nat, i \in H PROVE i + 1 \in H
  <2> DEFINE j == i + 1
             v == g[i]
             e == p[j]
  <2>1. SUFFICES ASSUME j <= n PROVE Holds(g[j], j)
    OBVIOUS
  <2>2. j \in 1 .. n /\ j - 1 = i /\ i \in 0 .. n
    BY <1>1, <2>1
  <2>3. v \in Path /\ g[j] = IF j \in ignored THEN v ELSE Append(v, p[j])
    BY <1>3, <2>2
  <2>4. Holds(v, i)
    BY <1>5, <2>2
  <2>5. e \in Node
    BY <1>1, <2>2, ElementOfSeq DEF Path, n
  <2>6. j <= h => e = home[j]
    BY <1>1, <2>2
  <2> HIDE DEF v, e
  <2>7. /\ Append(v, e) \in Path /\ Len(v) \in Nat /\ Len(Append(v, e)) = Len(v) + 1
        /\ \A k \in 1 .. Len(v) : Append(v, e)[k] = v[k]
        /\ Append(v, e)[Len(v) + 1] = e
    BY <2>3, <2>5, AppendIs
  <2>8. CASE j <= h
    <3>1. i <= h /\ j # h + 1
      BY <1>1, <2>8
    <3>2. g[j] = Append(v, e) /\ Len(v) = i /\ \A k \in 1 .. i : v[k] = home[k]
      BY <1>2, <2>3, <2>4, <3>1 DEF e
    <3>3. Len(g[j]) = j /\ \A k \in 1 .. j : g[j][k] = home[k]
      BY <2>6, <2>7, <2>8, <3>2
    <3>4. QED
      BY <2>8, <3>3
  <2>9. CASE j = h + 1
    <3>1. i = h /\ i <= h /\ ~(j <= h)
      BY <1>1, <2>9
    <3>2. g[j] = v /\ Len(v) = h /\ \A k \in 1 .. h : v[k] = home[k]
      BY <1>2, <2>3, <2>4, <2>9, <3>1
    <3>3. Below(home, g[j])
      BY <1>1, <2>3, <3>2 DEF Below
    <3>4. QED
      BY <3>1, <3>3
  <2>10. CASE ~(j <= h) /\ j # h + 1
    <3>1. ~(i <= h)
      BY <1>1, <2>10
    <3>2. g[j] = Append(v, e) /\ Below(home, v)
      BY <1>2, <2>3, <2>4, <2>10, <3>1 DEF e
    <3>3. Below(home, g[j])
      BY <1>1, <2>7, <3>2 DEF Below
    <3>4. QED
      BY <2>10, <3>3
  <2>11. QED
    BY <2>8, <2>9, <2>10
<1> HIDE DEF H
<1>6. n \in H
  BY <1>1, <1>4, <1>5, Induction
<1>7. Holds(g[n], n)
  BY <1>1, <1>6 DEF H
<1>9. Below(home, Ftp!Strip(p))
  BY <1>3, <1>7, <1>8
<1>10. QED
  BY <1>9 DEF p

FtpSpec == Ftp!FtpInit /\ [][Ftp!FtpNext]_(Ftp!ftpVars)

(* $HOME and the homes of the accounts are clean paths, as the daemon's    *)
(* configuration has them.                                                 *)
FtpParameters ==
  /\ FtpParams \subseteq Path
  /\ Clean(FtpEnvHome)
  /\ \A u \in DOMAIN FtpAccounts :
       FtpAccounts[u].admin \in BOOLEAN /\ Clean(FtpAccounts[u].home)

Names  == Ftp!Users \cup {Ftp!NoUser}
Logins == [user : Names, curr : BOOLEAN, home : Path, work : Path, from : Path]

(* The directory that is a user's.                                         *)
HomeOf(u) ==
  IF ~guarded THEN FtpEnvHome
  ELSE IF FtpAccounts[u].admin THEN Ftp!RootPath
  ELSE FtpAccounts[u].home

(* A session that resolves paths has clean directories; who is logged in   *)
(* is in the home that is his, and so is the name that is to be changed.   *)
LoginOk(l) ==
  /\ l \in Logins
  /\ l.work # Ftp!NoPath => Clean(l.work) /\ Clean(l.home)
  /\ ~guarded /\ l.work # Ftp!NoPath => l.home = FtpEnvHome
  /\ guarded /\ l.curr => l.user \in DOMAIN FtpAccounts /\ l.home = HomeOf(l.user)
  /\ l.from # Ftp!NoPath =>
       /\ guarded => l.user \in DOMAIN FtpAccounts
       /\ Below(HomeOf(l.user), l.from)

LoginInv == guarded \in BOOLEAN /\ LoginOk(login)

Streaming == {"opening", "creating", "seeking", "copying"}

(* The data socket is the only one that is open, and connected while a     *)
(* file is transferred; the file is open from there on.                    *)
ConnInv ==
  /\ ftpStep \in {"closed", "idle", "ending"} \cup Streaming
  /\ dataConn \in [sd : {"none", "listening", "connected"}, open : Nat]
  /\ dataConn.open = IF dataConn.sd = "none" THEN 0 ELSE 1
  /\ ftpStep = "closed" => dataConn.sd = "none"
  /\ ftpStep \in {"idle", "ending"} => dataConn.sd # "connected"
  /\ ftpStep \in Streaming => dataConn.sd = "connected"
  /\ ftpStep \notin {"seeking", "copying"} => ftpFd = "none"

(* What is transferred, and what is handed to the file system, is in the   *)
(* home of who is logged in.                                               *)
Rightly(paths) ==
  /\ guarded => login.curr
  /\ \A path \in paths : Below(HomeOf(login.user), path)

ActsInv ==
  /\ ftpStep \in Streaming => Rightly({ftpPath})
  /\ acted # {} => Rightly(acted)

FtpInv == LoginInv /\ ConnInv /\ ActsInv

LEMMA BelowPrefix ==
  ASSUME NEW home, NEW path, Below(home, path)
  PROVE  Ftp!IsPrefix(home, path)
<1>1. /\ home \in Path /\ path \in Path /\ Len(home) <= Len(path)
      /\ Len(home) \in Nat /\ Len(path) \in Nat
      /\ \A k \in 1 .. Len(home) : path[k] = home[k]
  BY DEF Below, Path
<1>2. SubSeq(home, 1, Len(home)) = SubSeq(path, 1, Len(home))
  BY <1>1 DEF Path
<1>3. QED
  BY <1>1, <1>2 DEF Ftp!IsPrefix

LEMMA RootClean == Clean(Ftp!RootPath)
<1>1. Ftp!Empty \in Node
  BY EmptyIs
<1> DEFINE r == Ftp!RootPath
<1>2. r \in Path /\ Len(r) = 1 /\ r[1] = Ftp!Empty
  BY <1>1 DEF Ftp!RootPath, Path
<1> HIDE DEF r
<1>3. Clean(r)
  BY <1>2 DEF Clean
<1>4. QED
  BY <1>3 DEF r

(* getpath: the client's path is clean, and the file system's is in the    *)
(* home.                                                                   *)
LEMMA PathsStay ==
  ASSUME FtpParameters, LoginInv, login.curr \/ ~guarded, Ftp!Resolves, NEW param \in FtpParams
  PROVE  /\ Clean(Ftp!WorkPath(param))
         /\ Ftp!AbsPath(param) \in Path
         /\ Below(HomeOf(login.user), Ftp!AbsPath(param))
<1> DEFINE work == Ftp!WorkPath(param)
<1>1. param \in Path /\ Clean(login.work) /\ Clean(login.home) /\ login.home = HomeOf(login.user)
  BY DEF FtpParameters, LoginInv, LoginOk, Ftp!Resolves, HomeOf
<1>2. Clean(work)
  <2>1. CASE param # Ftp!NoPath /\ Head(param) = Ftp!Empty
    <3>1. Len(param) >= 1 /\ param[1] = Ftp!Empty
      BY <1>1, <2>1 DEF Ftp!NoPath, Path
    <3>2. Clean(Ftp!Strip(param))
      BY <1>1, <3>1, StripCleans
    <3>3. QED
      BY <2>1, <3>2 DEF Ftp!WorkPath
  <2>2. CASE ~(param # Ftp!NoPath /\ Head(param) = Ftp!Empty)
    <3> DEFINE dir == login.work
               p == dir \o param
    <3>1. dir \in Path /\ Len(dir) >= 1 /\ dir[1] = Ftp!Empty
      BY <1>1 DEF Clean
    <3> HIDE DEF dir
    <3>2. p \in Path /\ Len(p) >= 1 /\ p[1] = Ftp!Empty
      BY <1>1, <3>1 DEF Path
    <3>3. Clean(Ftp!Strip(p))
      BY <3>2, StripCleans
    <3>4. QED
      BY <2>2, <3>3 DEF Ftp!WorkPath, dir
  <2>3. QED
    BY <2>1, <2>2
<1>3. Below(login.home, Ftp!AbsPath(param))
  BY <1>1, <1>2, StripStays DEF Ftp!AbsPath
<1>4. QED
  BY <1>1, <1>2, <1>3 DEF Below

LEMMA TouchedStays ==
  ASSUME FtpParameters, LoginInv, login.curr \/ ~guarded, NEW param \in FtpParams
  PROVE  Rightly(Ftp!Touched(param)) /\ Rightly(Ftp!Listed(param))
<1>1. guarded => login.curr
  BY DEF LoginInv
<1>2. ASSUME NEW p \in Ftp!Touched(param) PROVE Below(HomeOf(login.user), p)
  BY <1>2, PathsStay DEF Ftp!Touched
<1>3. ASSUME NEW p, Below(HomeOf(login.user), p)
      PROVE  Below(HomeOf(login.user), Append(p, Ftp!Entry))
  <2> DEFINE h == HomeOf(login.user)
             q == Append(p, Ftp!Entry)
  <2>1. h \in Path /\ p \in Path /\ Len(h) <= Len(p) /\ \A k \in 1 .. Len(h) : p[k] = h[k]
    BY <1>3 DEF Below
  <2> HIDE DEF h
  <2>2. Ftp!Entry \in Node
    BY DEF Node
  <2>3. q \in Path /\ Len(q) = Len(p) + 1 /\ Len(p) \in Nat /\ \A k \in 1 .. Len(p) : q[k] = p[k]
    BY <2>1, <2>2, AppendIs
  <2> HIDE DEF q
  <2>4. Len(h) \in Nat
    BY <2>1 DEF Path
  <2>5. Below(h, q)
    BY <2>1, <2>3, <2>4 DEF Below
  <2>6. QED
    BY <2>5 DEF h, q
<1>4. QED
  BY <1>1, <1>2, <1>3 DEF Rightly, Ftp!Listed

(* The data connection, from where it may stand.                           *)
LEMMA ConnIs ==
  ASSUME NEW d \in [sd : {"none", "listening", "connected"}, open : Nat],
         d.open = IF d.sd = "none" THEN 0 ELSE 1
  PROVE  LET none == [sd |-> "none", open |-> 0]
         IN  /\ Ftp!DataClose(d) = none
             /\ Ftp!DataOpen(d) = [sd |-> "connected", open |-> 1]
             /\ Ftp!DataClose(Ftp!DataOpen(d)) = none
             /\ Ftp!DataListen(Ftp!DataClose(d)) = [sd |-> "listening", open |-> 1]
             /\ Ftp!DataClose(Ftp!DataListen(Ftp!DataClose(d))) = none
<1> DEFINE none == [sd |-> "none", open |-> 0]
           joined == [sd |-> "connected", open |-> 1]
           lis  == [sd |-> "listening", open |-> 1]
<1>1. Ftp!DataClose(d) = none
  <2>1. CASE d.sd = "none"
    <3>1. d = none
      BY <2>1
    <3>2. QED
      BY <2>1, <3>1 DEF Ftp!DataClose
  <2>2. CASE d.sd # "none"
    BY <2>2 DEF Ftp!DataClose
  <2>3. QED
    BY <2>1, <2>2
<1>2. Ftp!DataOpen(d) = joined
  <2>1. CASE d.sd = "none"
    BY <2>1 DEF Ftp!DataOpen
  <2>2. CASE d.sd # "none"
    <3> DEFINE accepted == [d EXCEPT !.open = @ + 1]
    <3>1. accepted.sd = d.sd /\ accepted.open = 2
      BY <2>2
    <3> HIDE DEF accepted
    <3>2. Ftp!DataClose(accepted) = [sd |-> "none", open |-> 1]
      BY <2>2, <3>1 DEF Ftp!DataClose
    <3>3. Ftp!DataOpen(d) = [Ftp!DataClose(accepted) EXCEPT !.sd = "connected"]
      BY <2>2 DEF Ftp!DataOpen, accepted
    <3>4. QED
      BY <3>2, <3>3
  <2>3. QED
    BY <2>1, <2>2
<1>3. Ftp!DataClose(joined) = none /\ Ftp!DataClose(lis) = none
  BY DEF Ftp!DataClose
<1>4. Ftp!DataListen(none) = lis
  BY DEF Ftp!DataListen
<1>5. QED
  BY <1>1, <1>2, <1>3, <1>4

(* account_login, of whoever the accounts admit.                           *)
LEMMA AdmittedOk ==
  ASSUME FtpParameters, guarded \in BOOLEAN, NEW l, LoginOk(l), NEW admitted \in BOOLEAN,
         admitted => guarded /\ l.user \in DOMAIN FtpAccounts
  PROVE  LoginOk(Ftp!LoginAs(l, admitted))
<1>1. l \in Logins
  BY DEF LoginOk
<1>2. CASE ~admitted
  <2> DEFINE m == [l EXCEPT !.curr = FALSE]
  <2>1. /\ m \in Logins /\ m.user = l.user /\ m.curr = FALSE /\ m.home = l.home
        /\ m.work = l.work /\ m.from = l.from
    BY <1>1 DEF Logins
  <2> HIDE DEF m
  <2>2. LoginOk(m)
    BY <2>1 DEF LoginOk
  <2>3. QED
    BY <1>2, <2>2 DEF Ftp!LoginAs, m
<1>3. CASE admitted
  <2> DEFINE a == FtpAccounts[l.user]
             home == IF a.admin THEN Ftp!RootPath ELSE a.home
             work == IF a.admin THEN a.home ELSE Ftp!RootPath
             m == [l EXCEPT !.curr = TRUE, !.home = home, !.work = work]
  <2>1. Clean(a.home) /\ Clean(Ftp!RootPath) /\ a.admin \in BOOLEAN
    BY <1>3, RootClean DEF FtpParameters
  <2>2. Clean(home) /\ Clean(work) /\ home = HomeOf(l.user)
    BY <1>3, <2>1 DEF HomeOf
  <2>3. Ftp!LoginAs(l, admitted) = m
    BY <1>3 DEF Ftp!LoginAs
  <2> HIDE DEF home, work
  <2>4. home \in Path /\ work \in Path
    BY <2>2 DEF Clean
  <2>5. /\ m \in Logins /\ m.user = l.user /\ m.home = home /\ m.work = work /\ m.from = l.from
    BY <1>1, <2>4 DEF Logins
  <2> HIDE DEF m
  <2>6. LoginOk(m)
    BY <1>3, <2>2, <2>5 DEF LoginOk
  <2>7. QED
    BY <2>3, <2>6
<1>4. QED
  BY <1>2, <1>3

LEMMA NewLoginOk == LoginOk(Ftp!NewLogin)
<1>1. Ftp!NewLogin \in Logins
  BY DEF Ftp!NewLogin, Logins, Names, Ftp!NoPath, Path
<1>2. Ftp!NewLogin.work = Ftp!NoPath /\ Ftp!NewLogin.from = Ftp!NoPath /\ Ftp!NewLogin.curr = FALSE
  BY DEF Ftp!NewLogin
<1>3. QED
  BY <1>1, <1>2 DEF LoginOk

LEMMA LoginKept ==
  ASSUME guarded \in BOOLEAN, guarded' = guarded, LoginOk(login')
  PROVE  LoginInv'
  BY DEF LoginInv, LoginOk, HomeOf

LEMMA UserLogin ==
  ASSUME FtpParameters, LoginInv, NEW u \in Ftp!Users, Ftp!User(u)
  PROVE  LoginInv'
<1> DEFINE new == Ftp!Anew(u)
           m == [new EXCEPT !.curr = FALSE, !.home = FtpEnvHome, !.work = Ftp!RootPath]
           admitted == u \in DOMAIN FtpAccounts /\ ~FtpAccounts[u].password
<1>1. guarded \in BOOLEAN /\ guarded' = guarded /\ login \in Logins /\ LoginOk(login)
  BY DEF LoginInv, LoginOk, Ftp!User, Ftp!Command
<1>2. Ftp!NoPath \in Path
  BY DEF Ftp!NoPath, Path
<1>3. /\ new \in Logins /\ new.user = u /\ new.from = Ftp!NoPath /\ new.curr = login.curr
      /\ new.home = login.home /\ new.work = login.work
  BY <1>1, <1>2 DEF Ftp!Anew, Logins, Names
<1>4. login' = IF guarded THEN Ftp!LoginAs(new, admitted) ELSE m
  BY DEF Ftp!User
<1> HIDE DEF new
<1>5. CASE guarded
  <2> DEFINE old == [new EXCEPT !.curr = FALSE]
  <2>1. /\ old \in Logins /\ old.user = u /\ old.from = Ftp!NoPath /\ old.curr = FALSE
        /\ old.home = login.home /\ old.work = login.work
    BY <1>3 DEF Logins
  <2>2. Ftp!LoginAs(new, admitted) = Ftp!LoginAs(old, admitted)
    <3>1. CASE admitted
      <4>1. Ftp!LoginAs(new, TRUE) = Ftp!LoginAs(old, TRUE)
        BY <1>3, <2>1 DEF Ftp!LoginAs, Logins
      <4>2. QED
        BY <3>1, <4>1
    <3>2. CASE ~admitted
      <4>1. Ftp!LoginAs(new, FALSE) = Ftp!LoginAs(old, FALSE)
        BY <1>3 DEF Ftp!LoginAs, Logins
      <4>2. QED
        BY <3>2, <4>1
    <3>3. QED
      BY <3>1, <3>2
  <2> HIDE DEF old
  <2>3. LoginOk(old)
    BY <1>1, <1>5, <2>1 DEF LoginOk
  <2>4. admitted \in BOOLEAN /\ (admitted => old.user \in DOMAIN FtpAccounts)
    BY <2>1
  <2> HIDE DEF admitted
  <2>5. LoginOk(Ftp!LoginAs(old, admitted))
    BY <1>1, <1>5, <2>3, <2>4, AdmittedOk
  <2>6. QED
    BY <1>1, <1>4, <1>5, <2>2, <2>5, LoginKept
<1>6. CASE ~guarded
  <2>1. Clean(FtpEnvHome) /\ Clean(Ftp!RootPath)
    BY RootClean DEF FtpParameters
  <2>2. FtpEnvHome \in Path /\ Ftp!RootPath \in Path
    BY <2>1 DEF Clean
  <2>3. /\ m \in Logins /\ m.from = Ftp!NoPath /\ m.curr = FALSE
        /\ m.home = FtpEnvHome /\ m.work = Ftp!RootPath
    BY <1>3, <2>2 DEF Logins
  <2> HIDE DEF m
  <2>4. LoginOk(m)
    BY <1>6, <2>1, <2>3 DEF LoginOk
  <2>5. QED
    BY <1>1, <1>4, <1>6, <2>4, LoginKept
<1>7. QED
  BY <1>1, <1>5, <1>6

LEMMA PassLogin ==
  ASSUME FtpParameters, LoginInv, NEW right \in BOOLEAN, Ftp!Pass(right)
  PROVE  LoginInv'
<1> DEFINE admitted == guarded /\ right /\ login.user \in DOMAIN FtpAccounts
<1>1. guarded \in BOOLEAN /\ guarded' = guarded /\ LoginOk(login)
  BY DEF LoginInv, Ftp!Pass, Ftp!Command
<1>2. login' = IF login.user = Ftp!NoUser THEN login ELSE Ftp!LoginAs(login, admitted)
  BY DEF Ftp!Pass
<1>3. admitted \in BOOLEAN /\ (admitted => guarded /\ login.user \in DOMAIN FtpAccounts)
  BY <1>1
<1> HIDE DEF admitted
<1>4. LoginOk(Ftp!LoginAs(login, admitted))
  BY <1>1, <1>3, AdmittedOk
<1>5. LoginOk(login')
  BY <1>1, <1>2, <1>4
<1>6. QED
  BY <1>1, <1>5, LoginKept

LEMMA ChangeDirLogin ==
  ASSUME FtpParameters, LoginInv, NEW param \in FtpParams, Ftp!ChangeDir(param)
  PROVE  LoginInv'
<1> DEFINE work == Ftp!WorkPath(param)
           m == [login EXCEPT !.work = work]
<1>1. /\ guarded \in BOOLEAN /\ guarded' = guarded /\ LoginOk(login) /\ login \in Logins
      /\ login.curr \/ ~guarded
  BY DEF LoginInv, LoginOk, Ftp!ChangeDir, Ftp!LoggedIn, Ftp!Command
<1>2. login' = login \/ (Ftp!Resolves /\ login' = m)
  BY DEF Ftp!ChangeDir
<1>3. CASE Ftp!Resolves /\ login' = m
  <2>1. Clean(work)
    BY <1>1, <1>3, PathsStay
  <2> HIDE DEF work
  <2>2. work \in Path
    BY <2>1 DEF Clean
  <2>3. /\ m \in Logins /\ m.user = login.user /\ m.curr = login.curr /\ m.home = login.home
        /\ m.work = work /\ m.from = login.from
    BY <1>1, <2>2 DEF Logins
  <2> HIDE DEF m
  <2>4. LoginOk(m)
    BY <1>1, <1>3, <2>1, <2>3 DEF LoginOk, Ftp!Resolves
  <2>5. QED
    BY <1>1, <1>3, <2>4, LoginKept
<1>4. QED
  BY <1>1, <1>2, <1>3, LoginKept

LEMMA RnfrLogin ==
  ASSUME FtpParameters, LoginInv, NEW param \in FtpParams, Ftp!Rnfr(param)
  PROVE  LoginInv'
<1>1. /\ guarded \in BOOLEAN /\ guarded' = guarded /\ LoginOk(login) /\ login \in Logins
      /\ login.curr \/ ~guarded
  BY DEF LoginInv, LoginOk, Ftp!Rnfr, Ftp!LoggedIn, Ftp!Command
<1>2. PICK from : /\ login' = [login EXCEPT !.from = from]
                  /\ from = Ftp!NoPath \/ (Ftp!Resolves /\ from = Ftp!AbsPath(param))
  BY DEF Ftp!Rnfr
<1>3. from \in Path /\ (from # Ftp!NoPath => Below(HomeOf(login.user), from))
  <2>1. Ftp!NoPath \in Path
    BY DEF Ftp!NoPath, Path
  <2>2. QED
    BY <1>1, <1>2, <2>1, PathsStay
<1> DEFINE m == [login EXCEPT !.from = from]
<1>4. /\ m \in Logins /\ m.user = login.user /\ m.curr = login.curr /\ m.home = login.home
      /\ m.work = login.work /\ m.from = from
  BY <1>1, <1>3 DEF Logins
<1>5. login' = m
  BY <1>2
<1> HIDE DEF m
<1>6. LoginOk(m)
  BY <1>1, <1>3, <1>4 DEF LoginOk
<1>7. QED
  BY <1>1, <1>5, <1>6, LoginKept

LEMMA LoginStep ==
  ASSUME FtpParameters, LoginInv, Ftp!FtpNext
  PROVE  LoginInv'
<1>1. guarded \in BOOLEAN /\ LoginOk(login)
  BY DEF LoginInv
<1>2. ASSUME UNCHANGED <<guarded, login>> PROVE LoginInv'
  BY <1>1, <1>2, LoginKept
<1>3. ASSUME NEW param \in FtpParams,
             \/ Ftp!Delete(param) \/ Ftp!Visit(param) \/ Ftp!Rnto(param)
             \/ Ftp!List(param) \/ Ftp!Stream(param)
      PROVE  LoginInv'
  BY <1>2, <1>3 DEF Ftp!Delete, Ftp!Visit, Ftp!Rnto, Ftp!List, Ftp!Stream, Ftp!LoggedIn, Ftp!Command
<1>4. CASE \/ Ftp!Answer \/ Ftp!Leave \/ Ftp!Port \/ Ftp!Eprt \/ Ftp!Pasv \/ Ftp!Rest
           \/ Ftp!OpenFile \/ Ftp!Seek \/ Ftp!Copy \/ Ftp!StartSession
  BY <1>2, <1>4 DEF Ftp!Answer, Ftp!Leave, Ftp!Port, Ftp!Eprt, Ftp!Pasv, Ftp!Rest, Ftp!OpenFile,
                    Ftp!Seek, Ftp!Copy, Ftp!StartSession, Ftp!LoggedIn, Ftp!Command
<1>5. CASE Ftp!EndSession
  <2>1. guarded' = guarded /\ login' = Ftp!NewLogin
    BY <1>5 DEF Ftp!EndSession
  <2>2. QED
    BY <1>1, <2>1, NewLoginOk, LoginKept
<1>6. QED
  BY <1>3, <1>4, <1>5, UserLogin, PassLogin, ChangeDirLogin, RnfrLogin DEF Ftp!FtpNext

LEMMA ConnStep ==
  ASSUME ConnInv, Ftp!FtpNext
  PROVE  ConnInv'
<1> DEFINE none == [sd |-> "none", open |-> 0]
           joined == [sd |-> "connected", open |-> 1]
           lis  == [sd |-> "listening", open |-> 1]
<1>1. dataConn \in [sd : {"none", "listening", "connected"}, open : Nat]
      /\ dataConn.open = IF dataConn.sd = "none" THEN 0 ELSE 1
  BY DEF ConnInv
<1>2. /\ Ftp!DataClose(dataConn) = none
      /\ Ftp!DataOpen(dataConn) = joined
      /\ Ftp!DataClose(Ftp!DataOpen(dataConn)) = none
      /\ Ftp!DataListen(Ftp!DataClose(dataConn)) = lis
      /\ Ftp!DataClose(Ftp!DataListen(Ftp!DataClose(dataConn))) = none
  BY <1>1, ConnIs
<1>3. ASSUME ftpStep \in {"idle", "ending", "closed"}, ftpStep' \in {"idle", "ending"},
             ftpFd' = ftpFd, dataConn' \in {dataConn, none, lis}
      PROVE  ConnInv'
  <2>1. ftpStep' \notin Streaming /\ ftpStep \notin Streaming
    BY <1>3 DEF Streaming
  <2>2. dataConn.sd # "connected" /\ ftpFd = "none"
    BY <1>3, <2>1 DEF ConnInv
  <2>3. /\ dataConn' \in [sd : {"none", "listening", "connected"}, open : Nat]
        /\ dataConn'.open = IF dataConn'.sd = "none" THEN 0 ELSE 1
        /\ dataConn'.sd # "connected"
    BY <1>1, <1>3, <2>2
  <2>4. QED
    BY <1>3, <2>1, <2>2, <2>3 DEF ConnInv
<1>4. ASSUME Ftp!Command PROVE ftpStep = "idle" /\ ftpFd' = ftpFd
  BY <1>4 DEF Ftp!Command
<1>5. ASSUME NEW u \in Ftp!Users, Ftp!User(u) PROVE ConnInv'
  BY <1>3, <1>4, <1>5 DEF Ftp!User, Ftp!Reply
<1>6. ASSUME NEW right \in BOOLEAN, Ftp!Pass(right) PROVE ConnInv'
  BY <1>3, <1>4, <1>6 DEF Ftp!Pass, Ftp!Reply
<1>7. ASSUME NEW param \in FtpParams,
             \/ Ftp!ChangeDir(param) \/ Ftp!Delete(param) \/ Ftp!Visit(param)
             \/ Ftp!Rnfr(param) \/ Ftp!Rnto(param)
      PROVE  ConnInv'
  BY <1>3, <1>4, <1>7
  DEF Ftp!ChangeDir, Ftp!Delete, Ftp!Visit, Ftp!Rnfr, Ftp!Rnto, Ftp!Reply, Ftp!LoggedIn
<1>8. ASSUME NEW param \in FtpParams, Ftp!List(param) PROVE ConnInv'
  BY <1>2, <1>3, <1>4, <1>8 DEF Ftp!List, Ftp!Reply, Ftp!LoggedIn
<1>9. ASSUME NEW param \in FtpParams, Ftp!Stream(param) PROVE ConnInv'
  <2>1. ftpStep = "idle" /\ ftpFd' = ftpFd
    BY <1>9 DEF Ftp!Stream
  <2>2. CASE dataConn' = joined /\ ftpStep' \in {"opening", "creating"}
    <3>1. ftpFd = "none"
      BY <2>1 DEF ConnInv
    <3>2. QED
      BY <2>1, <2>2, <3>1 DEF ConnInv, Streaming
  <2>3. CASE dataConn' \in {none, dataConn} /\ ftpStep' = "ending"
    BY <1>3, <2>1, <2>3
  <2>4. QED
    BY <1>2, <1>9, <2>2, <2>3 DEF Ftp!Stream
<1>10. CASE Ftp!Answer \/ Ftp!Leave \/ Ftp!Port \/ Ftp!Rest
  BY <1>2, <1>3, <1>4, <1>10 DEF Ftp!Answer, Ftp!Leave, Ftp!Port, Ftp!Rest, Ftp!Reply, Ftp!LoggedIn
<1>11. CASE Ftp!Eprt \/ Ftp!Pasv
  BY <1>2, <1>3, <1>4, <1>11 DEF Ftp!Eprt, Ftp!Pasv, Ftp!Reply, Ftp!LoggedIn
<1>12. ASSUME NEW outcome \in {"idle", "ending"}, Ftp!EndStream(outcome) PROVE ConnInv'
  <2>1. /\ ftpFd' = "none" /\ dataConn' = none
        /\ ftpStep' \in {"idle", "ending"} /\ ftpStep' \notin Streaming
    BY <1>2, <1>12 DEF Ftp!EndStream, Streaming
  <2>2. QED
    BY <2>1 DEF ConnInv
<1>13. ASSUME ftpStep \in Streaming, ftpStep' \in {"seeking", "copying"}, dataConn' = dataConn
       PROVE  ConnInv'
  BY <1>13 DEF ConnInv, Streaming
<1>14. CASE Ftp!OpenFile
  BY <1>12, <1>13, <1>14 DEF Ftp!OpenFile, Streaming
<1>15. CASE Ftp!Seek \/ Ftp!Copy
  BY <1>12, <1>13, <1>15 DEF Ftp!Seek, Ftp!Copy, Streaming
<1>16. CASE Ftp!EndSession
  <2>1. ftpFd' = "none" /\ dataConn' = none /\ ftpStep' = "closed" /\ ftpStep' \notin Streaming
    BY <1>2, <1>16 DEF Ftp!EndSession, Streaming
  <2>2. QED
    BY <2>1 DEF ConnInv
<1>17. CASE Ftp!StartSession
  BY <1>3, <1>17 DEF Ftp!StartSession, Ftp!Reply
<1>18. QED
  BY <1>5, <1>6, <1>7, <1>8, <1>9, <1>10, <1>11, <1>14, <1>15, <1>16, <1>17 DEF Ftp!FtpNext

(* What is handed out and transferred rightly is so after the step, if     *)
(* nobody logs in or out.                                                  *)
LEMMA RightlyKept ==
  ASSUME NEW paths, NEW path, Rightly(paths), ftpStep' \in Streaming => Rightly({path}),
         acted' \in {{}, paths}, ftpPath' = path,
         guarded' = guarded, login'.user = login.user, login'.curr = login.curr
  PROVE  ActsInv'
<1>1. HomeOf(login.user)' = HomeOf(login.user)
  BY DEF HomeOf
<1>2. ftpStep' \in Streaming => Rightly({ftpPath})'
  BY <1>1 DEF Rightly
<1>3. acted' # {} => Rightly(acted)'
  BY <1>1 DEF Rightly
<1>4. QED
  BY <1>2, <1>3 DEF ActsInv

(* Fewer paths are no worse.                                               *)
LEMMA RightlyLess ==
  ASSUME NEW paths, NEW less, Rightly(paths), less \subseteq paths
  PROVE  Rightly(less)
  BY DEF Rightly

LEMMA ActsStep ==
  ASSUME FtpParameters, LoginInv, ConnInv, ActsInv, Ftp!FtpNext
  PROVE  ActsInv'
<1>1. ASSUME acted' = {}, ftpStep' \in {"idle", "ending", "closed"} PROVE ActsInv'
  BY <1>1 DEF ActsInv, Streaming
<1>2. ASSUME NEW paths, Rightly(paths), acted' \in {{}, paths}, ftpStep' \in {"idle", "ending"},
             guarded' = guarded, login'.user = login.user, login'.curr = login.curr
      PROVE  ActsInv'
  <2>1. ftpStep' \notin Streaming
    BY <1>2 DEF Streaming
  <2>2. QED
    BY <1>2, <2>1, RightlyKept
<1>3. login \in Logins
  BY DEF LoginInv, LoginOk
<1>4. ASSUME NEW u \in Ftp!Users, Ftp!User(u) PROVE ActsInv'
  BY <1>1, <1>4 DEF Ftp!User, Ftp!Reply
<1>5. ASSUME NEW right \in BOOLEAN, Ftp!Pass(right) PROVE ActsInv'
  BY <1>1, <1>5 DEF Ftp!Pass, Ftp!Reply
<1>6. CASE Ftp!Answer \/ Ftp!Leave \/ Ftp!Port \/ Ftp!Eprt \/ Ftp!Rest \/ Ftp!EndSession
  BY <1>1, <1>6 DEF Ftp!Answer, Ftp!Leave, Ftp!Port, Ftp!Eprt, Ftp!Rest, Ftp!EndSession, Ftp!Reply
<1>7. CASE Ftp!Pasv
  BY <1>1, <1>7 DEF Ftp!Pasv, Ftp!Reply
<1>8. ASSUME NEW param \in FtpParams, Ftp!LoggedIn
      PROVE  /\ guarded' = guarded /\ (login.curr \/ ~guarded)
             /\ Rightly(Ftp!Touched(param)) /\ Rightly(Ftp!Listed(param))
  <2>1. guarded' = guarded /\ (login.curr \/ ~guarded)
    BY <1>8 DEF Ftp!LoggedIn, Ftp!Command
  <2>2. QED
    BY <2>1, TouchedStays
<1>9. ASSUME NEW param \in FtpParams, Ftp!ChangeDir(param) PROVE ActsInv'
  <2>1. Ftp!LoggedIn /\ acted' = Ftp!Touched(param) /\ ftpStep' \in {"idle", "ending"}
    BY <1>9 DEF Ftp!ChangeDir, Ftp!Reply
  <2>2. login' = login \/ login' = [login EXCEPT !.work = Ftp!WorkPath(param)]
    BY <1>9 DEF Ftp!ChangeDir
  <2>3. login'.user = login.user /\ login'.curr = login.curr
    BY <1>3, <2>2 DEF Logins
  <2>4. QED
    BY <1>2, <1>8, <2>1, <2>3
<1>10. ASSUME NEW param \in FtpParams, Ftp!Rnfr(param) PROVE ActsInv'
  <2>1. Ftp!LoggedIn /\ acted' = Ftp!Touched(param) /\ ftpStep' \in {"idle", "ending"}
    BY <1>10 DEF Ftp!Rnfr, Ftp!Reply
  <2>2. \E from : login' = [login EXCEPT !.from = from]
    BY <1>10 DEF Ftp!Rnfr
  <2>3. login'.user = login.user /\ login'.curr = login.curr
    BY <1>3, <2>2 DEF Logins
  <2>4. QED
    BY <1>2, <1>8, <2>1, <2>3
<1>11. ASSUME NEW param \in FtpParams, Ftp!Delete(param) PROVE ActsInv'
  <2> DEFINE less == Ftp!Touched(param) \ {login.home}
  <2>1. Ftp!LoggedIn /\ acted' \in {{}, less} /\ ftpStep' \in {"idle", "ending"} /\ login' = login
    BY <1>11 DEF Ftp!Delete, Ftp!Reply
  <2>2. Rightly(less)
    BY <1>8, <2>1, RightlyLess
  <2> HIDE DEF less
  <2>3. QED
    BY <1>2, <1>8, <2>1, <2>2
<1>12. ASSUME NEW param \in FtpParams, Ftp!Visit(param) PROVE ActsInv'
  <2>1. /\ Ftp!LoggedIn /\ acted' = Ftp!Touched(param)
        /\ ftpStep' \in {"idle", "ending"} /\ login' = login
    BY <1>12 DEF Ftp!Visit, Ftp!Reply
  <2>2. QED
    BY <1>2, <1>8, <2>1
<1>13. ASSUME NEW param \in FtpParams, Ftp!Rnto(param) PROVE ActsInv'
  <2> DEFINE both == {login.from, Ftp!AbsPath(param)}
  <2>1. /\ Ftp!LoggedIn /\ ftpStep' \in {"idle", "ending"} /\ login' = login
        /\ acted' = {} \/ (acted' = both /\ login.from # Ftp!NoPath /\ Ftp!Resolves)
    BY <1>13 DEF Ftp!Rnto, Ftp!Reply
  <2>2. CASE acted' = {}
    BY <1>1, <2>1, <2>2
  <2>3. CASE acted' = both /\ login.from # Ftp!NoPath /\ Ftp!Resolves
    <3>1. Below(HomeOf(login.user), login.from) /\ (guarded => login.curr)
      BY <1>8, <2>1, <2>3 DEF LoginInv, LoginOk
    <3>2. Below(HomeOf(login.user), Ftp!AbsPath(param))
      BY <1>8, <2>1, <2>3, PathsStay
    <3>3. Rightly(both)
      BY <3>1, <3>2 DEF Rightly
    <3> HIDE DEF both
    <3>4. QED
      BY <1>2, <1>8, <2>1, <2>3, <3>3
  <2>4. QED
    BY <2>1, <2>2, <2>3
<1>14. ASSUME NEW param \in FtpParams, Ftp!List(param) PROVE ActsInv'
  <2>1. /\ Ftp!LoggedIn /\ acted' \in {{}, Ftp!Touched(param), Ftp!Listed(param)}
        /\ ftpStep' \in {"idle", "ending"} /\ login' = login
    BY <1>14 DEF Ftp!List, Ftp!Reply
  <2>2. QED
    BY <1>2, <1>8, <2>1
<1>15. ASSUME NEW param \in FtpParams, Ftp!Stream(param) PROVE ActsInv'
  <2>1. /\ login.curr \/ ~guarded
        /\ acted' = {} /\ guarded' = guarded /\ login' = login
        /\ ftpStep' = "ending" \/ (Ftp!Resolves /\ ftpPath' = Ftp!AbsPath(param))
    BY <1>15 DEF Ftp!Stream
  <2>2. CASE ftpStep' = "ending"
    BY <1>1, <2>1, <2>2
  <2>3. CASE Ftp!Resolves /\ ftpPath' = Ftp!AbsPath(param)
    <3>1. Rightly({Ftp!AbsPath(param)}) /\ Rightly({})
      BY <2>1, <2>3, PathsStay DEF Rightly, LoginInv
    <3>2. QED
      BY <2>1, <2>3, <3>1, RightlyKept
  <2>4. QED
    BY <2>1, <2>2, <2>3
<1>16. ASSUME ftpStep \in Streaming, acted' \in {{}, {ftpPath}}, UNCHANGED <<guarded, login>>,
              ftpStep' \in {"idle", "ending"} \/ ftpPath' = ftpPath
       PROVE  ActsInv'
  <2>1. Rightly({ftpPath})
    BY <1>16 DEF ActsInv
  <2>2. CASE ftpStep' \in {"idle", "ending"}
    BY <1>2, <1>16, <2>1, <2>2
  <2>3. CASE ftpPath' = ftpPath
    BY <1>16, <2>1, <2>3, RightlyKept
  <2>4. QED
    BY <1>16, <2>2, <2>3
<1>17. CASE Ftp!OpenFile
  BY <1>16, <1>17 DEF Ftp!OpenFile, Ftp!EndStream, Streaming
<1>18. CASE Ftp!Seek
  BY <1>16, <1>18 DEF Ftp!Seek, Ftp!EndStream, Streaming
<1>19. CASE Ftp!Copy
  BY <1>16, <1>19 DEF Ftp!Copy, Ftp!EndStream, Streaming
<1>20. CASE Ftp!StartSession
  <2>1. /\ acted' = acted /\ guarded' = guarded /\ login' = login /\ ftpStep' \in {"idle", "ending"}
    BY <1>20 DEF Ftp!StartSession, Ftp!Reply
  <2>2. CASE acted = {}
    BY <1>1, <2>1, <2>2
  <2>3. CASE acted # {}
    BY <1>2, <2>1, <2>3 DEF ActsInv
  <2>4. QED
    BY <2>2, <2>3
<1>21. QED
  BY <1>4, <1>5, <1>6, <1>7, <1>9, <1>10, <1>11, <1>12, <1>13, <1>14, <1>15, <1>17, <1>18, <1>19,
     <1>20 DEF Ftp!FtpNext

LEMMA FtpStarts == Ftp!FtpInit => FtpInv
<1> SUFFICES ASSUME Ftp!FtpInit PROVE FtpInv
  OBVIOUS
<1>1. LoginInv
  BY NewLoginOk DEF Ftp!FtpInit, LoginInv
<1>2. ConnInv
  BY DEF Ftp!FtpInit, ConnInv, Streaming
<1>3. ActsInv
  BY DEF Ftp!FtpInit, ActsInv, Streaming
<1>4. QED
  BY <1>1, <1>2, <1>3 DEF FtpInv

LEMMA FtpStep ==
  ASSUME FtpParameters
  PROVE  FtpInv /\ [Ftp!FtpNext]_(Ftp!ftpVars) => FtpInv'
<1> SUFFICES ASSUME FtpInv, [Ftp!FtpNext]_(Ftp!ftpVars) PROVE FtpInv'
  OBVIOUS
<1>1. CASE Ftp!FtpNext
  BY <1>1, LoginStep, ConnStep, ActsStep DEF FtpInv
<1>2. CASE UNCHANGED Ftp!ftpVars
  <2>1. LoginInv'
    BY <1>2, LoginKept DEF Ftp!ftpVars, FtpInv, LoginInv
  <2>2. ConnInv'
    BY <1>2 DEF Ftp!ftpVars, FtpInv, ConnInv
  <2>3. ActsInv'
    BY <1>2 DEF Ftp!ftpVars, FtpInv, ActsInv, Rightly, HomeOf
  <2>4. QED
    BY <2>1, <2>2, <2>3 DEF FtpInv
<1>3. QED
  BY <1>1, <1>2

LEMMA FtpSound == FtpInv => SessionSound
<1> SUFFICES ASSUME FtpInv PROVE SessionSound
  OBVIOUS
<1>1. Ftp!ActsInHome
  <2>1. SUFFICES ASSUME acted # {}
                 PROVE  /\ guarded => login.curr
                        /\ \A path \in acted : Ftp!IsPrefix(Ftp!RightfulHome, path)
    BY DEF Ftp!ActsInHome
  <2>2. (guarded => login.curr) /\ \A path \in acted : Below(HomeOf(login.user), path)
    BY <2>1 DEF FtpInv, ActsInv, Rightly
  <2>3. Ftp!RightfulHome = HomeOf(login.user)
    BY DEF Ftp!RightfulHome, HomeOf
  <2>4. QED
    BY <2>2, <2>3, BelowPrefix
<1>2. Ftp!DescriptorsReturned
  BY DEF FtpInv, ConnInv, Ftp!DescriptorsReturned, Streaming
<1>3. QED
  BY <1>1, <1>2 DEF SessionSound, Ftp!SessionSound

(* Whatever accounts, homes and paths there are: no file operation of an   *)
(* FTP session leaves the home of the user who is then logged in, or comes *)
(* without a login, and no data socket or file is lost (ftpd.c).           *)
THEOREM SessionsAreSound ==
  FtpParameters => (FtpSpec => []SessionSound)
<1> SUFFICES ASSUME FtpParameters
             PROVE  FtpSpec => []SessionSound
  OBVIOUS
<1>1. Ftp!FtpInit => FtpInv
  BY FtpStarts
<1>2. FtpInv /\ [Ftp!FtpNext]_(Ftp!ftpVars) => FtpInv'
  BY FtpStep
<1>3. FtpInv => SessionSound
  BY FtpSound
<1>4. QED
  BY <1>1, <1>2, <1>3, PTL DEF FtpSpec

----------------------------------------------------------------------------
(* The telnet daemons (Telnetd): what each knows of its configuration, and *)
(* what descriptors it has.                                                *)

TelnetdVars == <<starter, common, telnetds, telnets, connected>>
TelnetdSpec == Telnetds!TelnetdInit /\ [][Telnetds!TelnetdNext]_TelnetdVars

(* No daemon is started with port 0, and no two with the same port and     *)
(* program; the names of connections are no other names of descriptors.    *)
TelnetConfig == [port : Nat \ {0}, entry : STRING]

TelnetdParameters ==
  /\ TelnetConfigs \in Seq(TelnetConfig)
  /\ \A i, j \in DOMAIN TelnetConfigs : i # j => TelnetConfigs[i] # TelnetConfigs[j]
  /\ Connections \in Seq(STRING)
  /\ \A i \in DOMAIN Connections : Connections[i] \notin {"none", "console"}

Bare == [i \in 0 .. 3 |-> "none"]
StdioIs(name) == [i \in 0 .. 3 |-> IF i <= 2 THEN name ELSE "none"]

Configs == {TelnetConfigs[i] : i \in DOMAIN TelnetConfigs} \cup {Telnetds!NoConfig}
Daemon ==
  [state : {"new", "open", "accept", "ended"},
   config : Configs,
   fds : {Bare} \cup {StdioIs(name) : name \in STRING \cup {"console"}}]

Starter == [state : {"start", "wait"}, next : Nat \ {0}, pid : Nat, silent : BOOLEAN]

(* A daemon that has been started has the configuration of an earlier      *)
(* start, or of this one; one that is new finds that of this one.          *)
ConfigsHandedOver ==
  /\ \A d \in DOMAIN telnetds : telnetds[d].state # "new" =>
       \E j \in DOMAIN TelnetConfigs :
         /\ telnetds[d].config = TelnetConfigs[j] /\ j <= starter.next
         /\ j = starter.next =>
              starter.state = "wait" /\ \A e \in DOMAIN telnetds : telnetds[e].state # "new"
  /\ \A d \in DOMAIN telnetds : telnetds[d].state = "new" =>
       /\ telnetds[d].config = Telnetds!NoConfig
       /\ starter.state = "wait" /\ starter.next \in DOMAIN TelnetConfigs
       /\ common = [sem |-> 0, daemon |-> TelnetConfigs[starter.next]]
       /\ \A e \in DOMAIN telnetds : telnetds[e].state = "new" => e = d
  /\ \A d, e \in DOMAIN telnetds :
       d # e /\ telnetds[d].state # "new" /\ telnetds[e].state # "new" =>
         telnetds[d].config # telnetds[e].config

DescriptorsInOrder ==
  \A d \in DOMAIN telnetds :
    /\ telnetds[d].state \in {"new", "open"} => telnetds[d].fds = StdioIs("console")
    /\ telnetds[d].state = "accept" => telnetds[d].fds \in {Bare, StdioIs("console")}

SessionsMade ==
  \A s \in telnets :
    /\ s.by \in DOMAIN telnetds /\ telnetds[s.by].state # "new"
    /\ s.entry = telnetds[s.by].config.entry /\ s.fds = StdioIs(s.conn)

TelnetdInv ==
  /\ starter \in Starter
  /\ common \in [sem : Nat, daemon : Configs]
  /\ telnetds \in Seq(Daemon) /\ connected \in 0 .. Len(Connections)
  /\ ConfigsHandedOver
  /\ DescriptorsInOrder
  /\ SessionsMade

LEMMA StdioIsIt ==
  ASSUME NEW f, NEW name, f = [i \in DOMAIN f |-> f[i]], DOMAIN f = 0 .. 3,
         \A i \in 0 .. 3 : f[i] = IF i <= 2 THEN name ELSE "none"
  PROVE  f = StdioIs(name)
  BY DEF StdioIs

(* The driver of a connection becomes all of the standard descriptors.     *)
LEMMA StdioTaken ==
  ASSUME NEW fds \in {Bare, StdioIs("console")}, NEW name
  PROVE  /\ Telnetds!StdioOf(fds, name) = StdioIs(name)
         /\ Telnetds!CloseStdio(fds) = Bare
         /\ Telnetds!CloseStdio(StdioIs(name)) = Bare
         /\ Telnetds!Console = StdioIs("console")
<1> DEFINE free == Telnetds!LowestFree(fds)
           duped == [fds EXCEPT ![0] = name, ![1] = name, ![2] = name, ![free] = name]
<1>1. free = IF fds = Bare THEN 0 ELSE 3
  <2>1. CASE fds = Bare
    <3>1. fds[0] = "none"
      BY <2>1 DEF Bare
    <3>2. \A i \in 0 .. 3 : (fds[i] = "none" /\ \A j \in 0 .. i - 1 : fds[j] # "none") <=> i = 0
      BY <3>1
    <3>3. \E i \in 0 .. 3 : fds[i] = "none" /\ \A j \in 0 .. i - 1 : fds[j] # "none"
      BY <3>2
    <3>4. free \in 0 .. 3 /\ fds[free] = "none" /\ \A j \in 0 .. free - 1 : fds[j] # "none"
      BY <3>3, Zenon DEF Telnetds!LowestFree, Telnetds!Fd
    <3>5. QED
      BY <2>1, <3>2, <3>4
  <2>2. CASE fds # Bare
    <3>1. fds[3] = "none" /\ \A i \in 0 .. 2 : fds[i] = "console"
      BY <2>2 DEF StdioIs
    <3>2. \A i \in 0 .. 3 : (fds[i] = "none" /\ \A j \in 0 .. i - 1 : fds[j] # "none") <=> i = 3
      BY <3>1
    <3>3. \E i \in 0 .. 3 : fds[i] = "none" /\ \A j \in 0 .. i - 1 : fds[j] # "none"
      BY <3>2
    <3>4. free \in 0 .. 3 /\ fds[free] = "none" /\ \A j \in 0 .. free - 1 : fds[j] # "none"
      BY <3>3, Zenon DEF Telnetds!LowestFree, Telnetds!Fd
    <3>5. QED
      BY <2>2, <3>2, <3>4
  <2>3. QED
    BY <2>1, <2>2
<1>2. DOMAIN fds = 0 .. 3 /\ fds[3] = "none"
  BY DEF Bare, StdioIs
<1> HIDE DEF free
<1>3. Telnetds!StdioOf(fds, name) = IF free > 2 THEN [duped EXCEPT ![free] = "none"] ELSE duped
  BY DEF Telnetds!StdioOf, free
<1>4. Telnetds!StdioOf(fds, name) = StdioIs(name)
  <2>1. CASE free = 3
    <3>1. Telnetds!StdioOf(fds, name) =
            [[fds EXCEPT ![0] = name, ![1] = name, ![2] = name, ![3] = name] EXCEPT ![3] = "none"]
      BY <1>3, <2>1
    <3>2. DOMAIN Telnetds!StdioOf(fds, name) = 0 .. 3
      BY <1>2, <3>1
    <3>3. \A i \in 0 .. 3 : Telnetds!StdioOf(fds, name)[i] = IF i <= 2 THEN name ELSE "none"
      BY <1>2, <3>1
    <3>4. QED
      BY StdioIsIt, <3>1, <3>2, <3>3
  <2>2. CASE free = 0
    <3>1. Telnetds!StdioOf(fds, name) =
            [fds EXCEPT ![0] = name, ![1] = name, ![2] = name, ![0] = name]
      BY <1>3, <2>2
    <3>2. DOMAIN Telnetds!StdioOf(fds, name) = 0 .. 3
      BY <1>2, <3>1
    <3>3. \A i \in 0 .. 3 : Telnetds!StdioOf(fds, name)[i] = IF i <= 2 THEN name ELSE "none"
      BY <1>2, <3>1
    <3>4. QED
      BY StdioIsIt, <3>1, <3>2, <3>3
  <2>3. QED
    BY <1>1, <2>1, <2>2
<1>5. Telnetds!CloseStdio(fds) = Bare
  BY <1>2 DEF Telnetds!CloseStdio, Telnetds!Fd, Bare
<1>6. Telnetds!CloseStdio(StdioIs(name)) = Bare /\ Telnetds!Console = StdioIs("console")
  BY DEF Telnetds!CloseStdio, Telnetds!Console, Telnetds!Fd, Bare, StdioIs
<1>7. QED
  BY <1>4, <1>5, <1>6

LEMMA StarterIs ==
  ASSUME TelnetdInv
  PROVE  starter \in Starter /\ starter.next \in Nat /\ starter.next # 0
  BY DEF TelnetdInv, Starter

LEMMA StarterMoves ==
  ASSUME NEW s \in Starter, NEW st \in {"start", "wait"}, NEW pid \in Nat
  PROVE  /\ [s EXCEPT !.next = @ + 1, !.pid = pid] \in Starter
         /\ [s EXCEPT !.state = st, !.pid = pid] \in Starter
         /\ [s EXCEPT !.state = st, !.next = @ + 1] \in Starter
<1>1. s.next + 1 \in Nat \ {0}
  BY DEF Starter
<1>2. QED
  BY <1>1 DEF Starter

LEMMA TelnetdStarts ==
  ASSUME TelnetdParameters, Telnetds!TelnetdInit
  PROVE  TelnetdInv
<1>1. starter \in Starter
  BY DEF Telnetds!TelnetdInit, Starter
<1>2. common \in [sem : Nat, daemon : Configs] /\ telnetds \in Seq(Daemon) /\ connected \in 0 .. Len(Connections)
  BY DEF TelnetdParameters, Telnetds!TelnetdInit, Configs
<1>3. telnetds = <<>> /\ telnets = {}
  BY DEF Telnetds!TelnetdInit
<1>4. QED
  BY <1>1, <1>2, <1>3 DEF TelnetdInv, ConfigsHandedOver, DescriptorsInOrder, SessionsMade

(* A daemon that goes on, with the configuration that it has.              *)
LEMMA DaemonGoesOn ==
  ASSUME TelnetdInv, NEW d \in DOMAIN telnetds, telnetds[d].state # "new", NEW t \in Daemon,
         t.state # "new", t.config = telnetds[d].config,
         t.state = "open" => t.fds = StdioIs("console"),
         t.state = "accept" => t.fds \in {Bare, StdioIs("console")},
         telnetds' = [telnetds EXCEPT ![d] = t], UNCHANGED <<starter, common>>,
         connected' \in 0 .. Len(Connections),
         \A s \in telnets' :
           \/ s \in telnets
           \/ s.by = d /\ s.entry = t.config.entry /\ s.fds = StdioIs(s.conn)
  PROVE  TelnetdInv'
<1>1. /\ telnetds' \in Seq(Daemon) /\ DOMAIN telnetds' = DOMAIN telnetds
      /\ \A e \in DOMAIN telnetds : /\ telnetds'[e] = IF e = d THEN t ELSE telnetds[e]
                                    /\ telnetds'[e].config = telnetds[e].config
                                    /\ telnetds'[e].state = "new" <=> telnetds[e].state = "new"
  BY DEF TelnetdInv
<1>2. ConfigsHandedOver'
  BY <1>1 DEF TelnetdInv, ConfigsHandedOver
<1>3. DescriptorsInOrder'
  BY <1>1 DEF TelnetdInv, DescriptorsInOrder
<1>4. SessionsMade'
  BY <1>1 DEF TelnetdInv, SessionsMade
<1>5. QED
  BY <1>1, <1>2, <1>3, <1>4 DEF TelnetdInv

LEMMA TelnetdRests ==
  ASSUME TelnetdInv, UNCHANGED TelnetdVars
  PROVE  TelnetdInv'
  BY DEF TelnetdVars, TelnetdInv, ConfigsHandedOver, DescriptorsInOrder, SessionsMade

LEMMA StartKeeps ==
  ASSUME TelnetdParameters, TelnetdInv, NEW failure \in {"none", "malloc", "task_create"},
         Telnetds!TelnetdStart(failure)
  PROVE  TelnetdInv'
<1>1. /\ starter.state = "start" /\ starter.next \in DOMAIN TelnetConfigs
      /\ UNCHANGED <<telnets, connected>>
      /\ \A d \in DOMAIN telnetds : telnetds[d].state # "new"
  <2>1. starter.state = "start" /\ starter.next <= Len(TelnetConfigs) /\ UNCHANGED <<telnets, connected>>
    BY DEF Telnetds!TelnetdStart
  <2>2. starter.next \in DOMAIN TelnetConfigs
    BY <2>1, StarterIs DEF TelnetdParameters
  <2>3. \A d \in DOMAIN telnetds : telnetds[d].state # "new"
    BY <2>1 DEF TelnetdInv, ConfigsHandedOver
  <2>4. QED
    BY <2>1, <2>2, <2>3
<1>2. ASSUME starter' = [starter EXCEPT !.next = @ + 1, !.pid = 0], common' \in [sem : Nat, daemon : Configs],
             UNCHANGED telnetds
      PROVE  TelnetdInv'
  <2>0. /\ starter' \in Starter /\ starter'.state = "start"
        /\ starter.next \in Nat /\ starter'.next = starter.next + 1
    BY <1>1, <1>2, StarterIs, StarterMoves, Zenon DEF Starter
  <2>1. ConfigsHandedOver'
    <3>1. \A d \in DOMAIN telnetds : \E j \in DOMAIN TelnetConfigs :
            telnetds[d].config = TelnetConfigs[j] /\ j <= starter.next
      BY <1>1 DEF TelnetdInv, ConfigsHandedOver
    <3>2. \A j \in DOMAIN TelnetConfigs : j <= starter.next => j <= starter'.next /\ j # starter'.next
      BY <2>0 DEF TelnetdParameters
    <3>3. \A d, e \in DOMAIN telnetds : d # e => telnetds[d].config # telnetds[e].config
      BY <1>1 DEF TelnetdInv, ConfigsHandedOver
    <3>4. QED
      BY <1>1, <1>2, <3>1, <3>2, <3>3 DEF ConfigsHandedOver
  <2>2. DescriptorsInOrder' /\ SessionsMade'
    BY <1>1, <1>2 DEF TelnetdInv, DescriptorsInOrder, SessionsMade
  <2>3. QED
    BY <1>1, <1>2, <2>0, <2>1, <2>2 DEF TelnetdInv
<1>3. CASE failure = "none"
  <2> DEFINE t == [state |-> "new", config |-> Telnetds!NoConfig, fds |-> Telnetds!Console]
  <2>1. t \in Daemon /\ t.fds = StdioIs("console")
    BY StdioTaken DEF Daemon, Configs
  <2>2. /\ starter' = [starter EXCEPT !.state = "wait", !.pid = Len(telnetds) + 1]
        /\ common' = [sem |-> 0, daemon |-> TelnetConfigs[starter.next]]
        /\ telnetds' = Append(telnetds, t)
    BY <1>3 DEF Telnetds!TelnetdStart
  <2>3. t.state = "new" /\ t.config = Telnetds!NoConfig
    OBVIOUS
  <2> HIDE DEF t
  <2>4. /\ telnetds' \in Seq(Daemon) /\ Len(telnetds) + 1 \in Nat /\ DOMAIN telnetds \subseteq DOMAIN telnetds'
        /\ \A d \in DOMAIN telnetds' : \/ d \in DOMAIN telnetds /\ telnetds'[d] = telnetds[d]
                                       \/ d = Len(telnetds) + 1 /\ telnetds'[d] = t
        /\ \A d \in DOMAIN telnetds : telnetds'[d] = telnetds[d]
    BY <2>1, <2>2 DEF TelnetdInv
  <2>5. /\ starter' \in Starter
        /\ starter'.state = "wait" /\ starter'.next = starter.next
    BY <2>2, <2>4, StarterIs, StarterMoves, Zenon DEF Starter
  <2>6. ConfigsHandedOver'
    <3>1. ASSUME NEW d \in DOMAIN telnetds', telnetds'[d].state # "new"
          PROVE  /\ d \in DOMAIN telnetds /\ telnetds'[d] = telnetds[d]
                 /\ \E j \in DOMAIN TelnetConfigs :
                      telnetds[d].config = TelnetConfigs[j] /\ j <= starter.next /\ j # starter.next
      BY <1>1, <2>3, <2>4, <3>1 DEF TelnetdInv, ConfigsHandedOver
    <3>2. ASSUME NEW d \in DOMAIN telnetds', telnetds'[d].state = "new"
          PROVE  d = Len(telnetds) + 1 /\ telnetds'[d].config = Telnetds!NoConfig
      BY <1>1, <2>3, <2>4, <3>2
    <3>3. \A d, e \in DOMAIN telnetds' :
            d # e /\ telnetds'[d].state # "new" /\ telnetds'[e].state # "new" =>
              telnetds'[d].config # telnetds'[e].config
      BY <3>1 DEF TelnetdInv, ConfigsHandedOver
    <3>4. QED
      BY <1>1, <2>2, <2>5, <3>1, <3>2, <3>3 DEF ConfigsHandedOver
  <2>7. DescriptorsInOrder'
    BY <2>1, <2>3, <2>4 DEF TelnetdInv, DescriptorsInOrder
  <2>8. SessionsMade'
    BY <1>1, <2>4 DEF TelnetdInv, SessionsMade
  <2>9. QED
    BY <1>1, <2>2, <2>4, <2>5, <2>6, <2>7, <2>8 DEF TelnetdInv, Configs
<1>4. CASE failure = "malloc"
  BY <1>2, <1>4 DEF Telnetds!TelnetdStart, TelnetdInv
<1>5. CASE failure = "task_create"
  <2>1. /\ starter' = [starter EXCEPT !.next = @ + 1, !.pid = 0] /\ UNCHANGED telnetds
        /\ common' = [sem |-> 0, daemon |-> TelnetConfigs[starter.next]]
    BY <1>5 DEF Telnetds!TelnetdStart
  <2>2. QED
    BY <1>1, <1>2, <2>1 DEF Configs
<1>6. QED
  BY <1>3, <1>4, <1>5

LEMMA StartedKeeps ==
  ASSUME TelnetdParameters, TelnetdInv, Telnetds!Started
  PROVE  TelnetdInv'
<1>1. /\ starter' = [starter EXCEPT !.state = "start", !.next = @ + 1]
      /\ common' \in [sem : Nat, daemon : Configs] /\ UNCHANGED <<telnetds, telnets, connected>>
      /\ starter'.state = "start" /\ starter'.next = starter.next + 1 /\ starter.next \in Nat
      /\ starter' \in Starter
      /\ \A d \in DOMAIN telnetds : telnetds[d].state # "new"
  <2>1. /\ starter' = [starter EXCEPT !.state = "start", !.next = @ + 1]
        /\ common' = [common EXCEPT !.sem = @ - 1] /\ common.sem > 0
        /\ UNCHANGED <<telnetds, telnets, connected>>
    BY DEF Telnetds!Started
  <2>2. common' \in [sem : Nat, daemon : Configs]
    <3>1. common \in [sem : Nat, daemon : Configs]
      BY DEF TelnetdInv
    <3>2. common.sem - 1 \in Nat
      BY <2>1, <3>1
    <3>3. QED
      BY <2>1, <3>1, <3>2
  <2>3. /\ starter' \in Starter /\ starter'.state = "start"
        /\ starter'.next = starter.next + 1 /\ starter.next \in Nat
    BY <2>1, StarterIs, StarterMoves, Zenon DEF Starter
  <2>4. \A d \in DOMAIN telnetds : telnetds[d].state # "new"
    BY <2>1 DEF TelnetdInv, ConfigsHandedOver
  <2>5. QED
    BY <2>1, <2>2, <2>3, <2>4
<1>2. ConfigsHandedOver'
  <2>1. \A d \in DOMAIN telnetds : \E j \in DOMAIN TelnetConfigs :
          telnetds[d].config = TelnetConfigs[j] /\ j <= starter.next
    BY <1>1 DEF TelnetdInv, ConfigsHandedOver
  <2>2. \A j \in DOMAIN TelnetConfigs : j <= starter.next => j <= starter'.next /\ j # starter'.next
    BY <1>1 DEF TelnetdParameters
  <2>3. \A d, e \in DOMAIN telnetds : d # e => telnetds[d].config # telnetds[e].config
    BY <1>1 DEF TelnetdInv, ConfigsHandedOver
  <2>4. QED
    BY <1>1, <2>1, <2>2, <2>3 DEF ConfigsHandedOver
<1>3. DescriptorsInOrder' /\ SessionsMade'
  BY <1>1 DEF TelnetdInv, DescriptorsInOrder, SessionsMade
<1>4. QED
  BY <1>1, <1>2, <1>3 DEF TelnetdInv

LEMMA TakeConfigKeeps ==
  ASSUME TelnetdParameters, TelnetdInv, NEW d \in DOMAIN telnetds, Telnetds!TakeConfig(d)
  PROVE  TelnetdInv'
<1> DEFINE own == TelnetConfigs[starter.next]
<1>1. /\ telnetds[d].state = "new" /\ telnetds[d].fds = StdioIs("console")
      /\ starter.state = "wait" /\ starter.next \in DOMAIN TelnetConfigs
      /\ common = [sem |-> 0, daemon |-> own]
      /\ \A e \in DOMAIN telnetds : e # d => telnetds[e].state # "new"
  BY DEF Telnetds!TakeConfig, TelnetdInv, ConfigsHandedOver, DescriptorsInOrder
<1>2. /\ telnetds' = [telnetds EXCEPT ![d].state = "open", ![d].config = own]
      /\ common' \in [sem : Nat, daemon : Configs] /\ UNCHANGED <<starter, telnets, connected>>
  <2>1. telnetds' = [telnetds EXCEPT ![d].state = "open", ![d].config = own]
        /\ common' = [sem |-> 1, daemon |-> Telnetds!NoConfig] /\ UNCHANGED <<starter, telnets, connected>>
    BY <1>1 DEF Telnetds!TakeConfig
  <2>2. QED
    BY <2>1 DEF Configs
<1>3. own \in {TelnetConfigs[i] : i \in DOMAIN TelnetConfigs}
  BY <1>1
<1>4. starter.next \in Nat
  BY StarterIs
<1> HIDE DEF own
<1>5. /\ telnetds' \in Seq(Daemon) /\ DOMAIN telnetds' = DOMAIN telnetds
      /\ telnetds'[d].state = "open" /\ telnetds'[d].config = own
      /\ telnetds'[d].fds = telnetds[d].fds
      /\ \A e \in DOMAIN telnetds : e # d => telnetds'[e] = telnetds[e]
  <2> DEFINE t == [telnetds[d] EXCEPT !.state = "open", !.config = own]
  <2>1. telnetds \in Seq(Daemon) /\ telnetds[d] \in Daemon
    BY DEF TelnetdInv
  <2>2. own \in Configs
    BY <1>3 DEF Configs
  <2>3. t \in Daemon /\ t.state = "open" /\ t.config = own /\ t.fds = telnetds[d].fds
    BY <2>1, <2>2 DEF Daemon
  <2>4. telnetds' = [telnetds EXCEPT ![d] = t]
    BY <1>2
  <2> HIDE DEF t
  <2>5. QED
    BY <2>1, <2>3, <2>4
<1>6. ASSUME NEW e \in DOMAIN telnetds, e # d
      PROVE  /\ telnetds[e].state # "new"
             /\ \E j \in DOMAIN TelnetConfigs :
                  telnetds[e].config = TelnetConfigs[j] /\ j <= starter.next /\ j # starter.next
  BY <1>1, <1>6 DEF TelnetdInv, ConfigsHandedOver
<1>7. ConfigsHandedOver'
  <2>1. \A e \in DOMAIN telnetds : e # d => telnetds[e].config # own
    BY <1>1, <1>6 DEF own, TelnetdParameters
  <2>2. \A e \in DOMAIN telnetds' : telnetds'[e].state # "new"
    BY <1>5, <1>6
  <2>3. \A e \in DOMAIN telnetds' : \E j \in DOMAIN TelnetConfigs :
          telnetds'[e].config = TelnetConfigs[j] /\ j <= starter.next
    BY <1>1, <1>4, <1>5, <1>6 DEF own
  <2>4. \A e, f \in DOMAIN telnetds' : e # f => telnetds'[e].config # telnetds'[f].config
    BY <1>5, <1>6, <2>1 DEF TelnetdInv, ConfigsHandedOver
  <2>5. QED
    BY <1>1, <1>2, <2>2, <2>3, <2>4 DEF ConfigsHandedOver
<1>8. DescriptorsInOrder'
  BY <1>1, <1>5 DEF TelnetdInv, DescriptorsInOrder
<1>9. SessionsMade'
  BY <1>1, <1>2, <1>5 DEF TelnetdInv, SessionsMade
<1>10. QED
  BY <1>2, <1>5, <1>7, <1>8, <1>9 DEF TelnetdInv

LEMMA ListenKeeps ==
  ASSUME TelnetdInv, NEW d \in DOMAIN telnetds, NEW works, Telnetds!Listen(d, works)
  PROVE  TelnetdInv'
<1>1. telnetds[d] \in Daemon /\ telnetds[d].state = "open" /\ telnetds[d].fds = StdioIs("console")
  BY DEF Telnetds!Listen, TelnetdInv, DescriptorsInOrder
<1> DEFINE bare == Telnetds!CloseStdio(telnetds[d].fds)
           t == IF works THEN [telnetds[d] EXCEPT !.state = "accept",
                                 !.fds = IF starter.silent THEN bare ELSE @]
                ELSE [telnetds[d] EXCEPT !.state = "ended"]
<1>2. bare = Bare
  BY <1>1, StdioTaken
<1>3. telnetds' = [telnetds EXCEPT ![d] = t] /\ UNCHANGED <<starter, common, telnets, connected>>
  BY DEF Telnetds!Listen
<1> HIDE DEF bare
<1>4. t \in Daemon /\ t.state \in {"accept", "ended"} /\ t.config = telnetds[d].config
      /\ t.fds \in {Bare, StdioIs("console")}
  BY <1>1, <1>2 DEF Daemon
<1> HIDE DEF t
<1>5. connected' \in 0 .. Len(Connections)
  BY <1>3 DEF TelnetdInv
<1>6. QED
  BY <1>1, <1>3, <1>4, <1>5, DaemonGoesOn

LEMMA AcceptKeeps ==
  ASSUME TelnetdParameters, TelnetdInv, NEW d \in DOMAIN telnetds, 
         NEW failure \in {"none", "EINTR", "accept", "driver", "task_create"},
         Telnetds!Accept(d, failure)
  PROVE  TelnetdInv'
<1> DEFINE name  == Connections[connected + 1]
           stdio == Telnetds!StdioOf(telnetds[d].fds, name)
           comes == connected < Len(Connections) /\ connected' = connected + 1
           ended == [telnetds[d] EXCEPT !.state = "ended"]
           gone == [telnetds[d] EXCEPT !.state = "ended", !.fds = stdio]
           next  == [telnetds[d] EXCEPT !.fds = Telnetds!CloseStdio(stdio)]
           made  == [conn |-> name, entry |-> telnetds[d].config.entry, fds |-> stdio, by |-> d]
<1>1. /\ telnetds[d] \in Daemon /\ telnetds[d].state = "accept"
      /\ telnetds[d].fds \in {Bare, StdioIs("console")}
      /\ connected \in 0 .. Len(Connections) /\ Connections \in Seq(STRING)
  BY DEF Telnetds!Accept, TelnetdInv, DescriptorsInOrder, TelnetdParameters
<1>2. UNCHANGED <<starter, common>>
  BY DEF Telnetds!Accept
<1>3. comes => name \in STRING /\ connected' \in 0 .. Len(Connections)
  BY <1>1
<1>4. stdio = StdioIs(name) /\ Telnetds!CloseStdio(stdio) = Bare
  BY <1>1, StdioTaken
<1>5. \/ UNCHANGED <<telnetds, telnets, connected>>
      \/ telnetds' = [telnetds EXCEPT ![d] = ended] /\ UNCHANGED <<telnets, connected>>
      \/ telnetds' = [telnetds EXCEPT ![d] = ended] /\ comes /\ UNCHANGED telnets
      \/ telnetds' = [telnetds EXCEPT ![d] = gone] /\ comes /\ UNCHANGED telnets
      \/ telnetds' = [telnetds EXCEPT ![d] = next] /\ comes /\ telnets' = telnets \cup {made}
  BY DEF Telnetds!Accept
<1> HIDE DEF name, stdio
<1>6. /\ ended \in Daemon /\ ended.state = "ended" /\ ended.config = telnetds[d].config
      /\ comes => gone \in Daemon /\ gone.state = "ended" /\ gone.config = telnetds[d].config
      /\ comes => /\ next \in Daemon /\ next.state = "accept" /\ next.fds = Bare
                  /\ next.config = telnetds[d].config
  BY <1>1, <1>3, <1>4 DEF Daemon
<1>7. CASE UNCHANGED <<telnetds, telnets, connected>>
  <2>1. UNCHANGED TelnetdVars
    BY <1>2, <1>7 DEF TelnetdVars
  <2>2. QED
    BY <2>1, TelnetdRests
<1>8. CASE telnetds' = [telnetds EXCEPT ![d] = ended] /\ UNCHANGED <<telnets, connected>>
  <2> HIDE DEF ended
  <2>1. QED
    BY <1>1, <1>2, <1>6, <1>8, DaemonGoesOn
<1>9. CASE telnetds' = [telnetds EXCEPT ![d] = ended] /\ comes /\ UNCHANGED telnets
  <2> HIDE DEF ended, comes
  <2>1. QED
    BY <1>1, <1>2, <1>3, <1>6, <1>9, DaemonGoesOn
<1>10. CASE telnetds' = [telnetds EXCEPT ![d] = gone] /\ comes /\ UNCHANGED telnets
  <2> HIDE DEF gone, comes
  <2>1. QED
    BY <1>1, <1>2, <1>3, <1>6, <1>10, DaemonGoesOn
<1>11. CASE telnetds' = [telnetds EXCEPT ![d] = next] /\ comes /\ telnets' = telnets \cup {made}
  <2>1. made.by = d /\ made.entry = next.config.entry /\ made.fds = StdioIs(made.conn)
    BY <1>4, <1>6, <1>11
  <2>2. \A s \in telnets' :
          \/ s \in telnets
          \/ s.by = d /\ s.entry = next.config.entry /\ s.fds = StdioIs(s.conn)
    BY <1>11, <2>1
  <2> HIDE DEF next, comes, made
  <2>3. QED
    BY <1>1, <1>2, <1>3, <1>6, <1>11, <2>2, DaemonGoesOn
<1>12. QED
  BY <1>5, <1>7, <1>8, <1>9, <1>10, <1>11

LEMMA TelnetdStep ==
  ASSUME TelnetdParameters
  PROVE  TelnetdInv /\ [Telnetds!TelnetdNext]_TelnetdVars => TelnetdInv'
<1> SUFFICES ASSUME TelnetdInv, [Telnetds!TelnetdNext]_TelnetdVars PROVE TelnetdInv'
  OBVIOUS
<1>1. CASE Telnetds!TelnetdNext
  BY <1>1, StartKeeps, StartedKeeps, TakeConfigKeeps, ListenKeeps, AcceptKeeps
  DEF Telnetds!TelnetdNext
<1>2. CASE UNCHANGED TelnetdVars
  BY <1>2, TelnetdRests
<1>3. QED
  BY <1>1, <1>2

LEMMA SessionsAreOwn == TelnetdParameters /\ TelnetdInv => Telnetds!SessionsOwn
<1> SUFFICES ASSUME TelnetdParameters, TelnetdInv PROVE Telnetds!SessionsOwn
  OBVIOUS
<1>1. \A s \in telnets :
        /\ \A i \in 0 .. 2 : s.fds[i] = s.conn
        /\ s.fds[3] = "none" /\ s.entry = telnetds[s.by].config.entry
  <2>1. \A s \in telnets : s.fds = StdioIs(s.conn) /\ s.entry = telnetds[s.by].config.entry
    BY DEF TelnetdInv, SessionsMade
  <2>2. \A name : StdioIs(name)[3] = "none" /\ \A i \in 0 .. 2 : StdioIs(name)[i] = name
    BY DEF StdioIs
  <2>3. QED
    BY <2>1, <2>2
<1>2. \A i \in DOMAIN TelnetConfigs : TelnetConfigs[i] # Telnetds!NoConfig
  <2>1. \A i \in DOMAIN TelnetConfigs : TelnetConfigs[i] \in TelnetConfig
    BY DEF TelnetdParameters
  <2>2. \A c \in TelnetConfig : c # Telnetds!NoConfig
    BY DEF TelnetConfig, Telnetds!NoConfig
  <2>3. QED
    BY <2>1, <2>2
<1>3. \A d \in DOMAIN telnetds :
        /\ telnetds[d].state # "new" => telnetds[d].config # Telnetds!NoConfig
        /\ starter.state = "start" => telnetds[d].state # "new"
  BY <1>2 DEF TelnetdInv, ConfigsHandedOver
<1>4. ASSUME NEW d \in DOMAIN telnetds, telnetds[d].state = "accept"
      PROVE  \A i \in 0 .. 3 : telnetds[d].fds[i] \in {"none", "console"}
  BY <1>4 DEF TelnetdInv, DescriptorsInOrder, StdioIs, Bare
<1>5. ASSUME NEW d \in DOMAIN telnetds, NEW e \in DOMAIN telnetds, d # e, telnetds[d].state # "new"
      PROVE  telnetds[d].config # telnetds[e].config
  <2>1. CASE telnetds[e].state = "new"
    BY <1>3, <1>5, <2>1 DEF TelnetdInv, ConfigsHandedOver
  <2>2. CASE telnetds[e].state # "new"
    BY <1>5, <2>2 DEF TelnetdInv, ConfigsHandedOver
  <2>3. QED
    BY <2>1, <2>2
<1>6. QED
  BY <1>1, <1>3, <1>4, <1>5 DEF Telnetds!SessionsOwn, Telnetds!Fd

----------------------------------------------------------------------------
(* The discovery daemon (Discover).  The sum of bytes that are added to    *)
(* one by one, then what the daemon has answered.                          *)

DiscoverVars == <<discover, asker, responses>>
DiscoverSpec == Discovery!DiscoverInit /\ [][Discovery!DiscoverNext]_DiscoverVars

DiscoverParameters ==
  /\ DescrSize \in Nat
  /\ DeviceInfos \subseteq [devclass : Int, description : Seq(Int)]
  /\ Packets \subseteq Seq(Int)

(* The sums of the first bytes.                                            *)
LEMMA SumGrows ==
  ASSUME NEW s \in Seq(Int)
  PROVE  \E g \in [0 .. Len(s) -> Int] :
           /\ g[0] = 0 /\ Discovery!Sum(s) = g[Len(s)]
           /\ \A k \in 1 .. Len(s) : g[k] = g[k - 1] + s[k]
<1> DEFINE n == Len(s)
           F == [q \in (1 .. n) \X Int |-> q[2] + s[q[1]]]
           Rule(g) == g = [i \in 0 .. n |-> IF i = 0 THEN 0 ELSE g[i - 1] + s[i]]
<1>1. n \in Nat /\ \A k \in 1 .. n : s[k] \in Int
  OBVIOUS
<1>2. F \in [(1 .. n) \X Int -> Int] /\ \A k \in 1 .. n, m \in Int : F[<<k, m>>] = m + s[k]
  BY <1>1
<1> HIDE DEF n, F
<1>3. \E f : Iterates(f, n, Int, 0, F)
  <2> DEFINE base == 0
  <2>1. base \in Int
    OBVIOUS
  <2> HIDE DEF base
  <2>2. \E f : Iterates(f, n, Int, base, F)
    BY <1>1, <1>2, <2>1, Recursion
  <2>3. QED
    BY <2>2 DEF base
<1>4. PICK f \in [0 .. n -> Int] : f[0] = 0 /\ \A k \in 1 .. n : f[k] = F[<<k, f[k - 1]>>]
  BY <1>3 DEF Iterates
<1>5. ASSUME NEW k \in 1 .. n PROVE f[k] = f[k - 1] + s[k]
  <2>1. k - 1 \in 0 .. n
    BY <1>1
  <2>2. f[k - 1] \in Int
    BY <2>1
  <2>3. QED
    BY <1>2, <1>4, <2>2
<1>6. Rule(f)
  <2> DEFINE g == [i \in 0 .. n |-> IF i = 0 THEN 0 ELSE f[i - 1] + s[i]]
  <2>1. ASSUME NEW i \in 0 .. n PROVE f[i] = g[i]
    <3>1. i = 0 \/ i \in 1 .. n
      BY <1>1
    <3>2. QED
      BY <1>4, <1>5, <3>1
  <2>2. g = [i \in 0 .. n |-> g[i]]
    OBVIOUS
  <2> HIDE DEF g
  <2>3. f = g
    BY <2>1, <2>2
  <2>4. QED
    BY <2>3 DEF g
<1>7. ASSUME NEW g, Rule(g)
      PROVE  g \in [0 .. n -> Int] /\ g[0] = 0 /\ \A k \in 1 .. n : g[k] = g[k - 1] + s[k]
  <2>1. \A i \in 0 .. n : g[i] = IF i = 0 THEN 0 ELSE g[i - 1] + s[i]
    BY <1>7, Zenon
  <2>2. g[0] = 0 /\ \A k \in 1 .. n : g[k] = g[k - 1] + s[k]
    <3>1. 0 \in 0 .. n /\ \A k \in 1 .. n : k \in 0 .. n /\ k # 0
      BY <1>1
    <3>2. QED
      BY <2>1, <3>1, Zenon
  <2> DEFINE H == {k \in Nat : k <= n => g[k] \in Int}
  <2>3. 0 \in H
    BY <1>1, <2>2
  <2>4. ASSUME NEW k \in Nat, k \in H PROVE k + 1 \in H
    <3>1. SUFFICES ASSUME k + 1 <= n PROVE g[k + 1] \in Int
      OBVIOUS
    <3>2. k <= n /\ k + 1 \in 1 .. n /\ (k + 1) - 1 = k
      BY <1>1, <3>1
    <3>3. g[k + 1] = g[k] + s[k + 1] /\ g[k] \in Int
      BY <2>2, <2>4, <3>2
    <3>4. QED
      BY <1>1, <3>2, <3>3
  <2> HIDE DEF H
  <2>5. \A k \in Nat : k \in H
    BY <2>3, <2>4, Induction
  <2>6. \A k \in 0 .. n : g[k] \in Int
    BY <1>1, <2>5 DEF H
  <2>7. QED
    BY <1>7, <2>2, <2>6
<1>8. Rule(CHOOSE g : Rule(g))
  <2> HIDE DEF Rule
  <2>1. QED
    BY <1>6
<1>9. Discovery!Sum(s) = (CHOOSE g : Rule(g))[n]
  BY DEF Discovery!Sum, n
<1> HIDE DEF Rule
<1>10. QED
  BY <1>7, <1>8, <1>9 DEF n

LEMMA SumAppend ==
  ASSUME NEW s \in Seq(Int), NEW b \in Int
  PROVE  Discovery!Sum(s) \in Int /\ Discovery!Sum(Append(s, b)) = Discovery!Sum(s) + b
<1> DEFINE n == Len(s)
           t == Append(s, b)
<1>1. /\ n \in Nat /\ t \in Seq(Int) /\ Len(t) = n + 1 /\ t[n + 1] = b
      /\ \A k \in 1 .. n : t[k] = s[k]
  OBVIOUS
<1> HIDE DEF t, n
<1>2. PICK f \in [0 .. n -> Int] : /\ f[0] = 0 /\ Discovery!Sum(s) = f[n]
                                   /\ \A k \in 1 .. n : f[k] = f[k - 1] + s[k]
  BY SumGrows DEF n
<1>3. PICK g \in [0 .. n + 1 -> Int] : /\ g[0] = 0 /\ Discovery!Sum(t) = g[n + 1]
                                       /\ \A k \in 1 .. n + 1 : g[k] = g[k - 1] + t[k]
  <2>1. \E g \in [0 .. Len(t) -> Int] :
          /\ g[0] = 0 /\ Discovery!Sum(t) = g[Len(t)]
          /\ \A k \in 1 .. Len(t) : g[k] = g[k - 1] + t[k]
    BY <1>1, SumGrows
  <2>2. QED
    BY <1>1, <2>1
<1> DEFINE H == {k \in Nat : k <= n => g[k] = f[k]}
<1>4. 0 \in H
  BY <1>2, <1>3
<1>5. ASSUME NEW k \in Nat, k \in H PROVE k + 1 \in H
  <2>1. SUFFICES ASSUME k + 1 <= n PROVE g[k + 1] = f[k + 1]
    OBVIOUS
  <2>2. k <= n /\ k + 1 \in 1 .. n /\ k + 1 \in 1 .. n + 1 /\ (k + 1) - 1 = k
    BY <1>1, <2>1
  <2>3. g[k + 1] = g[k] + t[k + 1] /\ f[k + 1] = f[k] + s[k + 1] /\ g[k] = f[k]
    BY <1>2, <1>3, <1>5, <2>2
  <2>4. QED
    BY <1>1, <2>2, <2>3
<1> HIDE DEF H
<1>6. \A k \in Nat : k \in H
  BY <1>4, <1>5, Induction
<1>7. g[n] = f[n]
  BY <1>1, <1>6 DEF H
<1>8. n + 1 \in 1 .. n + 1 /\ (n + 1) - 1 = n /\ n \in 0 .. n
  BY <1>1
<1>9. g[n + 1] = g[n] + t[n + 1] /\ f[n] \in Int
  BY <1>2, <1>3, <1>8
<1>10. QED
  BY <1>1, <1>2, <1>3, <1>7, <1>9 DEF t

(* The last byte of what is sent makes its sum zero.                       *)
LEMMA SumsToZero ==
  ASSUME NEW s \in Seq(Int)
  PROVE  /\ Discovery!Checksum(s) \in Int
         /\ Discovery!Sum(Append(s, Discovery!Checksum(s))) % 256 = 0
<1> DEFINE sum == Discovery!Sum(s)
<1>1. sum \in Int
  BY SumAppend
<1>2. Discovery!Checksum(s) = (-sum) % 256
  BY DEF Discovery!Checksum
<1> HIDE DEF sum
<1>3. (-sum) % 256 \in Int /\ (sum + ((-sum) % 256)) % 256 = 0
  BY <1>1
<1>4. QED
  BY <1>2, <1>3, SumAppend DEF sum

LEMMA ResponseFormed ==
  ASSUME DiscoverParameters, NEW info \in DeviceInfos
  PROVE  /\ Discovery!InitResponse(info) \in Seq(Int)
         /\ Len(Discovery!InitResponse(info)) = DescrSize + 3
         /\ Discovery!Sum(Discovery!InitResponse(info)) % 256 = 0
<1> DEFINE text == [i \in 1 .. DescrSize |->
                      IF i <= Len(info.description) THEN info.description[i] ELSE 0]
           head == <<Discovery!PROTO_ID, Discovery!RESPONSE>> \o text
<1>1. DescrSize \in Nat /\ info.description \in Seq(Int)
  BY DEF DiscoverParameters
<1>2. text \in Seq(Int) /\ Len(text) = DescrSize
  BY <1>1
<1> HIDE DEF text
<1>3. head \in Seq(Int) /\ Len(head) = DescrSize + 2
  BY <1>2 DEF Discovery!PROTO_ID, Discovery!RESPONSE
<1>4. Discovery!InitResponse(info) = Append(head, Discovery!Checksum(head))
  BY DEF Discovery!InitResponse, text
<1> HIDE DEF head
<1>5. QED
  BY <1>1, <1>3, <1>4, SumsToZero

LEMMA LastByte ==
  ASSUME NEW p \in Seq(Int), NEW n \in Nat, NEW m \in Nat, m = n + 1, Len(p) = m
  PROVE  /\ SubSeq(p, 1, n) \in Seq(Int) /\ p[m] \in Int
         /\ p = Append(SubSeq(p, 1, n), p[m])
<1>1. \A i \in 1 .. m : p[i] \in Int
  OBVIOUS
<1>2. PICK f : f = SubSeq(p, 1, n)
  OBVIOUS
<1>3. f \in Seq(Int) /\ Len(f) = n /\ \A i \in 1 .. n : f[i] = p[i]
  BY <1>2
<1>4. p[m] \in Int
  BY <1>1
<1>5. PICK q : q = Append(f, p[m])
  OBVIOUS
<1>6. q \in Seq(Int) /\ Len(q) = m /\ \A i \in 1 .. m : q[i] = p[i]
  BY <1>3, <1>4, <1>5
<1>7. p = q
  BY <1>6, SeqEqual
<1>8. QED
  BY <1>2, <1>3, <1>4, <1>5, <1>7

(* A packet that discover_parse takes.                                     *)
LEMMA ParsedSums ==
  ASSUME NEW packet \in Seq(Int), Len(packet) = 4, NEW devclass, Discovery!Parse(packet, devclass)
  PROVE  Discovery!Sum(packet) % 256 = 0
<1> DEFINE f == SubSeq(packet, 1, 3)
<1>1. f \in Seq(Int) /\ packet[4] \in Int /\ packet = Append(f, packet[4])
  <2>1. PICK n \in Nat, m \in Nat : n = 3 /\ m = 4
    OBVIOUS
  <2>2. m = n + 1 /\ Len(packet) = m
    BY <2>1
  <2>3. SubSeq(packet, 1, n) \in Seq(Int) /\ packet[m] \in Int
        /\ packet = Append(SubSeq(packet, 1, n), packet[m])
    BY <2>2, LastByte, Zenon
  <2>4. QED
    BY <2>1, <2>3, Zenon
<1>2. packet[4] = Discovery!Checksum(f)
  BY DEF Discovery!Parse
<1> HIDE DEF f
<1>3. QED
  BY <1>1, <1>2, SumsToZero, Zenon

Responder ==
  [state : {"new", "closed", "listening", "ended"}, info : DeviceInfos,
   response : Seq(Int), sockets : Nat, request : [1 .. 4 -> Int]]

DiscoverInv ==
  /\ discover \in Responder
  /\ asker.packet \in Seq(Int)
  /\ discover.state # "new" => discover.response = Discovery!InitResponse(discover.info)
  /\ discover.sockets = IF discover.state = "listening" THEN 1 ELSE 0
  /\ \A k \in DOMAIN responses :
       /\ responses[k].to = asker.host
       /\ responses[k].bytes = Discovery!InitResponse(discover.info)
       /\ Len(asker.packet) = 4 => Discovery!Parse(asker.packet, discover.info.devclass)

LEMMA DiscoverStarts ==
  ASSUME DiscoverParameters, Discovery!DiscoverInit
  PROVE  DiscoverInv
  BY DEF DiscoverParameters, Discovery!DiscoverInit, DiscoverInv, Discovery!Nobody,
         Discovery!REQUEST_SIZE, Responder

(* What the daemon does, with the same device and what it has answered.    *)
LEMMA DiscoverMoves ==
  ASSUME DiscoverInv, NEW d \in Responder, d.state # "new", discover.state # "new",
         d.info = discover.info, d.response = discover.response,
         d.sockets = IF d.state = "listening" THEN 1 ELSE 0,
         discover' = d,
         \/ UNCHANGED <<asker, responses>>
         \/ asker' = Discovery!Nobody /\ responses' = <<>>
  PROVE  DiscoverInv'
<1>1. d.state \in {"closed", "listening", "ended"} /\ d.response = Discovery!InitResponse(d.info)
  BY DEF DiscoverInv, Responder
<1>2. CASE UNCHANGED <<asker, responses>>
  BY <1>1, <1>2 DEF DiscoverInv
<1>3. CASE asker' = Discovery!Nobody /\ responses' = <<>>
  <2>1. asker'.packet \in Seq(Int) /\ DOMAIN responses' = {}
    BY <1>3 DEF Discovery!Nobody
  <2>2. QED
    BY <1>1, <2>1 DEF DiscoverInv
<1>4. QED
  BY <1>2, <1>3

LEMMA DiscoverStep ==
  ASSUME DiscoverParameters
  PROVE  DiscoverInv /\ [Discovery!DiscoverNext]_DiscoverVars => DiscoverInv'
<1> SUFFICES ASSUME DiscoverInv, [Discovery!DiscoverNext]_DiscoverVars PROVE DiscoverInv'
  OBVIOUS
<1>1. ASSUME NEW works \in BOOLEAN, Discovery!Start(works) PROVE DiscoverInv'
  <2>1. Discovery!InitResponse(discover.info) \in Seq(Int)
    BY ResponseFormed DEF DiscoverInv, Responder
  <2> DEFINE d == [discover EXCEPT !.state = "closed", !.response = Discovery!InitResponse(discover.info)]
  <2>2. /\ discover' \in {discover, d} /\ UNCHANGED <<asker, responses>>
        /\ discover.state = "new" /\ discover \in Responder
    BY <1>1 DEF Discovery!Start, DiscoverInv
  <2>3. /\ d \in Responder /\ d.state = "closed" /\ d.info = discover.info
        /\ d.response = Discovery!InitResponse(discover.info) /\ d.sockets = discover.sockets
    BY <2>1, <2>2 DEF Responder
  <2> HIDE DEF d
  <2>4. QED
    BY <2>2, <2>3 DEF DiscoverInv
<1>2. ASSUME NEW works \in BOOLEAN, Discovery!OpenListener(works) PROVE DiscoverInv'
  <2> DEFINE d == IF works THEN [discover EXCEPT !.state = "listening", !.sockets = 1]
                  ELSE [discover EXCEPT !.state = "ended"]
  <2>1. /\ discover' = d /\ UNCHANGED <<asker, responses>>
        /\ discover.state = "closed" /\ discover \in Responder /\ discover.sockets = 0
    <3>1. /\ discover' = IF works THEN [discover EXCEPT !.state = "listening", !.sockets = @ + 1]
                          ELSE [discover EXCEPT !.state = "ended"]
          /\ UNCHANGED <<asker, responses>> /\ discover.state = "closed"
      BY <1>2 DEF Discovery!OpenListener
    <3>2. discover \in Responder /\ discover.sockets = 0
      BY <3>1 DEF DiscoverInv
    <3>3. QED
      BY <3>1, <3>2
  <2>2. /\ d \in Responder /\ d.state \in {"listening", "ended"} /\ d.info = discover.info
        /\ d.response = discover.response /\ d.sockets = IF d.state = "listening" THEN 1 ELSE 0
    <3>1. CASE works
      BY <2>1, <3>1 DEF Responder
    <3>2. CASE ~works
      BY <2>1, <3>2 DEF Responder
    <3>3. QED
      BY <3>1, <3>2
  <2> HIDE DEF d
  <2>3. QED
    BY <2>1, <2>2, DiscoverMoves
<1>3. ASSUME NEW works \in BOOLEAN, Discovery!RecvFails(works) PROVE DiscoverInv'
  <2> DEFINE d == IF works THEN discover
                  ELSE [discover EXCEPT !.state = "closed", !.sockets = 0]
  <2>1. /\ discover' = d /\ asker' = Discovery!Nobody /\ responses' = <<>>
        /\ discover.state = "listening" /\ discover \in Responder /\ discover.sockets = 1
    BY <1>3 DEF Discovery!RecvFails, DiscoverInv
  <2>2. /\ d \in Responder /\ d.state \in {"listening", "closed"} /\ d.info = discover.info
        /\ d.response = discover.response /\ d.sockets = IF d.state = "listening" THEN 1 ELSE 0
    <3>1. CASE works
      BY <2>1, <3>1 DEF Responder
    <3>2. CASE ~works
      BY <2>1, <3>2 DEF Responder
    <3>3. QED
      BY <3>1, <3>2
  <2> HIDE DEF d
  <2>3. QED
    BY <2>1, <2>2, DiscoverMoves
<1>4. ASSUME NEW host \in Hosts, NEW packet \in Packets, NEW works \in BOOLEAN,
             Discovery!Hear(host, packet, works)
      PROVE  DiscoverInv'
  <2> DEFINE request == Discovery!Received(discover.request, packet)
  <2>1. packet \in Seq(Int) /\ discover.request \in [1 .. 4 -> Int] /\ discover \in Responder
    BY DEF DiscoverParameters, DiscoverInv, Responder
  <2>2. request \in [1 .. 4 -> Int]
    BY <2>1 DEF Discovery!Received, Discovery!REQUEST_SIZE
  <2>3. Len(packet) = 4 => request = packet
    BY <2>1 DEF Discovery!Received, Discovery!REQUEST_SIZE
  <2>4. /\ discover' = [discover EXCEPT !.request = request]
        /\ asker' = [host |-> host, packet |-> packet]
        /\ responses' = IF Discovery!Parse(request, discover.info.devclass) /\ works
                        THEN <<[to |-> host, bytes |-> discover.response]>> ELSE <<>>
        /\ discover.state = "listening"
    BY <1>4 DEF Discovery!Hear
  <2> DEFINE d == [discover EXCEPT !.request = request]
  <2> HIDE DEF request
  <2>5. /\ d \in Responder /\ d.state = discover.state /\ d.info = discover.info
        /\ d.response = discover.response /\ d.sockets = discover.sockets
    BY <2>1, <2>2 DEF Responder
  <2> HIDE DEF d
  <2>6. discover' = d
    BY <2>4 DEF d
  <2>7. QED
    <3>1. asker'.packet = packet /\ asker'.host = host
      BY <2>4
    <3>2. \A k \in DOMAIN responses' :
            /\ responses'[k].to = host /\ responses'[k].bytes = discover.response
            /\ Discovery!Parse(request, discover.info.devclass)
      BY <2>4
    <3>3. QED
      BY <2>1, <2>3, <2>4, <2>5, <2>6, <3>1, <3>2 DEF DiscoverInv
<1>5. CASE UNCHANGED DiscoverVars
  BY <1>5 DEF DiscoverVars, DiscoverInv
<1>6. QED
  BY <1>1, <1>2, <1>3, <1>4, <1>5 DEF Discovery!DiscoverNext

LEMMA AnswersAreRight == DiscoverParameters /\ DiscoverInv => Discovery!RightlyAnswered
<1> SUFFICES ASSUME DiscoverParameters, DiscoverInv PROVE Discovery!RightlyAnswered
  OBVIOUS
<1>1. ASSUME NEW k \in DOMAIN responses
      PROVE  /\ Discovery!Sum(responses[k].bytes) % 256 = 0
             /\ Len(responses[k].bytes) = DescrSize + 3
  <2>1. discover.info \in DeviceInfos /\ responses[k].bytes = Discovery!InitResponse(discover.info)
    BY DEF DiscoverInv, Responder
  <2>2. QED
    BY <2>1, ResponseFormed
<1>2. ASSUME NEW k \in DOMAIN responses, Len(asker.packet) = 4
      PROVE  /\ Discovery!Sum(asker.packet) % 256 = 0
             /\ asker.packet[1] = Discovery!PROTO_ID /\ asker.packet[2] = Discovery!REQUEST
             /\ asker.packet[3] \in {Discovery!ALL, discover.info.devclass}
  <2>1. asker.packet \in Seq(Int) /\ Discovery!Parse(asker.packet, discover.info.devclass)
    BY <1>2 DEF DiscoverInv
  <2>2. QED
    BY <1>2, <2>1, ParsedSums DEF Discovery!Parse
<1>3. QED
  BY <1>1, <1>2 DEF DiscoverInv, Discovery!RightlyAnswered, Discovery!REQUEST_SIZE

----------------------------------------------------------------------------
(* The end of a request (HttpRequest).  The text that a client sends,      *)
(* character by character, then where the machine of httpd_got_request     *)
(* stands after each of them, and that it stands there however the text is *)
(* cut.                                                                    *)

RequestVars == <<asks, readIdx, checkedIdx, checkedState, verdict>>
RequestSpec == Request!RequestInit /\ [][Request!RequestNext]_RequestVars

RequestParameters == MaxWords \in Nat /\ MaxHeaders \in Nat

Letter == {"w", "s", "r", "n"}
MachineState ==
  {"FIRSTWORD", "FIRSTWS", "SECONDWORD", "SECONDWS", "THIRDWORD", "THIRDWS", "LINE", "LF", "CR",
   "CRLF", "CRLFCR", "BOGUS"}
Machine == [state : MachineState, says : {"no", "got", "bad"}]

LEMMA RowIs ==
  ASSUME NEW a \in Machine, NEW b \in Machine, NEW c \in Machine, NEW d \in Machine
  PROVE  Request!InLine(a, b, c, d) \in [Letter -> Machine]
  BY DEF Request!InLine, Letter

LEMMA TransitionIs == Request!Transition \in [MachineState -> [Letter -> Machine]]
<1>1. \A st \in MachineState :
        Request!Bad \in Machine /\ Request!Got(st) \in Machine /\ Request!On(st) \in Machine
  BY DEF Request!Bad, Request!Got, Request!On, Machine, MachineState
<1>2. \A a, b, c, d \in Machine : Request!InLine(a, b, c, d) \in [Letter -> Machine]
  BY RowIs
<1>3. \A c, d \in Machine : Request!AfterEnd(c, d) \in [Letter -> Machine]
  BY <1>1, <1>2 DEF Request!AfterEnd, MachineState
<1> DEFINE Rows == [Letter -> Machine]
<1>4. ASSUME NEW a \in Rows, NEW b \in Rows, NEW c \in Rows, NEW d \in Rows, NEW e \in Rows,
             NEW f \in Rows, NEW g \in Rows, NEW h \in Rows, NEW i \in Rows, NEW j \in Rows,
             NEW k \in Rows, NEW l \in Rows
      PROVE  [FIRSTWORD |-> a, FIRSTWS |-> b, SECONDWORD |-> c, SECONDWS |-> d, THIRDWORD |-> e,
              THIRDWS |-> f, LINE |-> g, LF |-> h, CR |-> i, CRLF |-> j, CRLFCR |-> k, BOGUS |-> l]
             \in [MachineState -> Rows]
  <2> HIDE DEF Rows
  <2>1. QED
    BY DEF MachineState
<1>5. /\ Request!Bad \in Machine
      /\ \A st \in {"FIRSTWORD", "FIRSTWS", "SECONDWORD", "SECONDWS", "THIRDWORD", "THIRDWS",
                   "LINE", "LF", "CR", "CRLF", "CRLFCR"} :
           Request!Got(st) \in Machine /\ Request!On(st) \in Machine
  BY <1>1 DEF MachineState
<1>6. /\ \A a, b, c, d \in Machine : Request!InLine(a, b, c, d) \in Rows
      /\ \A c, d \in Machine : Request!AfterEnd(c, d) \in Rows
  BY <1>2, <1>3
<1> HIDE DEF Rows
<1>7. Request!Transition \in [MachineState -> Rows]
  BY <1>4, <1>5, <1>6 DEF Request!Transition
<1>8. QED
  BY <1>7 DEF Rows

LEMMA CheckIs ==
  ASSUME NEW m \in Machine, NEW c \in Letter
  PROVE  Request!Check(m, c) \in Machine
  BY TransitionIs DEF Request!Check, Machine

(* Where each character leads, if there is no verdict yet.                 *)
LEMMA Turns ==
  ASSUME NEW m \in Machine, m.says = "no"
  PROVE  /\ m.state = "FIRSTWORD" =>
              /\ Request!Check(m, "w") = Request!On("FIRSTWORD")
              /\ Request!Check(m, "s") = Request!On("FIRSTWS")
              /\ Request!Check(m, "r") = Request!Bad /\ Request!Check(m, "n") = Request!Bad
         /\ m.state = "FIRSTWS" => Request!Check(m, "w") = Request!On("SECONDWORD")
         /\ m.state = "SECONDWORD" =>
              /\ Request!Check(m, "s") = Request!On("SECONDWS")
              /\ Request!Check(m, "r") = Request!Got("SECONDWORD")
              /\ Request!Check(m, "n") = Request!Got("SECONDWORD")
         /\ m.state = "SECONDWS" => Request!Check(m, "w") = Request!On("THIRDWORD")
         /\ m.state = "THIRDWORD" =>
              /\ Request!Check(m, "s") = Request!On("THIRDWS")
              /\ Request!Check(m, "r") = Request!On("CR")
              /\ Request!Check(m, "n") = Request!On("LF")
         /\ m.state = "THIRDWS" => Request!Check(m, "w") = Request!Bad
         /\ m.state = "LINE" =>
              /\ Request!Check(m, "w") = Request!On("LINE")
              /\ Request!Check(m, "s") = Request!On("LINE")
              /\ Request!Check(m, "r") = Request!On("CR")
              /\ Request!Check(m, "n") = Request!On("LF")
         /\ m.state = "LF" =>
              /\ Request!Check(m, "w") = Request!On("LINE")
              /\ Request!Check(m, "n") = Request!Got("LF")
         /\ m.state = "CR" =>
              /\ Request!Check(m, "w") = Request!On("LINE")
              /\ Request!Check(m, "r") = Request!Got("CR")
              /\ Request!Check(m, "n") = Request!On("CRLF")
         /\ m.state = "CRLF" =>
              /\ Request!Check(m, "w") = Request!On("LINE")
              /\ Request!Check(m, "r") = Request!On("CRLFCR")
         /\ m.state = "CRLFCR" => Request!Check(m, "n") = Request!Got("CRLFCR")
<1>1. \A c : Request!Check(m, c) = Request!Transition[m.state][c]
  BY DEF Request!Check
<1>2. QED
  BY <1>1 DEF Request!Transition, Request!AfterEnd, Request!InLine

(* The machine after each character.                                       *)
LEMMA RunGrows ==
  ASSUME NEW s \in Seq(Letter), NEW m \in Machine
  PROVE  \E g \in [0 .. Len(s) -> Machine] :
           /\ g[0] = m /\ Request!Run(m, s) = g[Len(s)]
           /\ \A k \in 1 .. Len(s) : g[k] = Request!Check(g[k - 1], s[k])
<1> DEFINE n == Len(s)
           F == [q \in (1 .. n) \X Machine |-> Request!Check(q[2], s[q[1]])]
           Rule(g) == g = [i \in 0 .. n |-> IF i = 0 THEN m ELSE Request!Check(g[i - 1], s[i])]
<1>1. n \in Nat /\ \A k \in 1 .. n : s[k] \in Letter
  OBVIOUS
<1>2. /\ F \in [(1 .. n) \X Machine -> Machine]
      /\ \A k \in 1 .. n, v \in Machine : F[<<k, v>>] = Request!Check(v, s[k])
  BY <1>1, CheckIs
<1> HIDE DEF n, F
<1>3. \E f : Iterates(f, n, Machine, m, F)
  BY <1>1, <1>2, Recursion
<1>4. PICK f \in [0 .. n -> Machine] : f[0] = m /\ \A k \in 1 .. n : f[k] = F[<<k, f[k - 1]>>]
  BY <1>3 DEF Iterates
<1>5. ASSUME NEW k \in 1 .. n PROVE f[k] = Request!Check(f[k - 1], s[k])
  <2>1. k - 1 \in 0 .. n
    BY <1>1
  <2>2. f[k - 1] \in Machine
    BY <2>1
  <2>3. QED
    BY <1>2, <1>4, <2>2
<1>6. Rule(f)
  <2> DEFINE g == [i \in 0 .. n |-> IF i = 0 THEN m ELSE Request!Check(f[i - 1], s[i])]
  <2>1. ASSUME NEW i \in 0 .. n PROVE f[i] = g[i]
    <3>1. i = 0 \/ i \in 1 .. n
      BY <1>1
    <3>2. QED
      BY <1>4, <1>5, <3>1
  <2>2. g = [i \in 0 .. n |-> g[i]]
    OBVIOUS
  <2> HIDE DEF g
  <2>3. f = g
    BY <2>1, <2>2
  <2>4. QED
    BY <2>3 DEF g
<1>7. ASSUME NEW g, Rule(g)
      PROVE  /\ g \in [0 .. n -> Machine] /\ g[0] = m
             /\ \A k \in 1 .. n : g[k] = Request!Check(g[k - 1], s[k])
  <2>1. \A i \in 0 .. n : g[i] = IF i = 0 THEN m ELSE Request!Check(g[i - 1], s[i])
    BY <1>7, Zenon
  <2>2. g[0] = m /\ \A k \in 1 .. n : g[k] = Request!Check(g[k - 1], s[k])
    <3>1. 0 \in 0 .. n /\ \A k \in 1 .. n : k \in 0 .. n /\ k # 0
      BY <1>1
    <3>2. QED
      BY <2>1, <3>1, Zenon
  <2> DEFINE H == {k \in Nat : k <= n => g[k] \in Machine}
  <2>3. 0 \in H
    BY <1>1, <2>2
  <2>4. ASSUME NEW k \in Nat, k \in H PROVE k + 1 \in H
    <3>1. SUFFICES ASSUME k + 1 <= n PROVE g[k + 1] \in Machine
      OBVIOUS
    <3>2. k <= n /\ k + 1 \in 1 .. n /\ (k + 1) - 1 = k
      BY <1>1, <3>1
    <3>3. g[k + 1] = Request!Check(g[k], s[k + 1]) /\ g[k] \in Machine
      BY <2>2, <2>4, <3>2
    <3>4. QED
      BY <1>1, <3>2, <3>3, CheckIs
  <2> HIDE DEF H
  <2>5. \A k \in Nat : k \in H
    BY <2>3, <2>4, Induction
  <2>6. \A k \in 0 .. n : g[k] \in Machine
    BY <1>1, <2>5 DEF H
  <2>7. QED
    BY <1>7, <2>2, <2>6
<1>8. Rule(CHOOSE g : Rule(g))
  <2> HIDE DEF Rule
  <2>1. QED
    BY <1>6
<1>9. Request!Run(m, s) = (CHOOSE g : Rule(g))[n]
  BY DEF Request!Run, n
<1> HIDE DEF Rule
<1>10. QED
  BY <1>7, <1>8, <1>9 DEF n

LEMMA TwoParts ==
  ASSUME NEW S, NEW s \in Seq(S), NEW t \in Seq(S), NEW m, NEW n, Len(s) = m, Len(t) = n
  PROVE  /\ s \o t \in Seq(S) /\ Len(s \o t) = m + n
         /\ \A i \in 1 .. m : (s \o t)[i] = s[i]
         /\ \A j \in 1 .. n : (s \o t)[m + j] = t[j]
  OBVIOUS

(* The text of a request: where its characters are.                        *)
Asked ==
  asks \in [words : 1 .. MaxWords, headers : 0 .. MaxHeaders, eol : Request!LineEnd]

First == 2 * asks.words - 1
Ending == Len(asks.eol)
HeaderLine == <<"w", "s", "w">> \o asks.eol
HeaderPart == asks.headers * (3 + Ending)

LEMMA EolIs ==
  ASSUME Asked
  PROVE  /\ asks.eol \in Seq(Letter) /\ Ending \in {1, 2}
         /\ \/ asks.eol = <<"n">> /\ Ending = 1
            \/ asks.eol = <<"r">> /\ Ending = 1
            \/ asks.eol = <<"r", "n">> /\ Ending = 2
<1>1. asks.eol \in Request!LineEnd
  BY DEF Asked
<1>2. \/ asks.eol = <<"n">> \/ asks.eol = <<"r">> \/ asks.eol = <<"r", "n">>
  BY <1>1 DEF Request!LineEnd
<1>3. /\ <<"n">> \in Seq(Letter) /\ Len(<<"n">>) = 1
      /\ <<"r">> \in Seq(Letter) /\ Len(<<"r">>) = 1
      /\ <<"r", "n">> \in Seq(Letter) /\ Len(<<"r", "n">>) = 2
  BY DEF Letter
<1>4. QED
  BY <1>2, <1>3 DEF Ending

LEMMA AskedIs ==
  ASSUME Asked, RequestParameters
  PROVE  /\ asks.words \in Nat /\ asks.headers \in Nat /\ First \in Nat /\ HeaderPart \in Nat
         /\ \/ asks.words = 1 /\ First = 1
            \/ asks.words = 2 /\ First = 3
            \/ asks.words = 3 /\ First = 5
            \/ asks.words > 3 /\ First >= 7
<1>1. asks.words \in Nat /\ asks.words > 0 /\ asks.headers \in Nat
  BY DEF Asked, RequestParameters
<1>2. \A h \in Nat : h * (3 + 1) \in Nat /\ h * (3 + 2) \in Nat
  OBVIOUS
<1>3. HeaderPart \in Nat
  <2>1. CASE Ending = 1
    BY <1>1, <1>2, <2>1, Zenon DEF HeaderPart
  <2>2. CASE Ending = 2
    BY <1>1, <1>2, <2>2, Zenon DEF HeaderPart
  <2>3. QED
    BY <2>1, <2>2, EolIs
<1>4. PICK n \in Nat : n = asks.words /\ n > 0
  BY <1>1
<1>5. PICK m : m = 2 * n - 1
  OBVIOUS
<1>6. First = m
  BY <1>4, <1>5 DEF First
<1>7. /\ m \in Nat
      /\ \/ n = 1 /\ m = 1
         \/ n = 2 /\ m = 3
         \/ n = 3 /\ m = 5
         \/ n > 3 /\ m >= 7
  BY <1>4, <1>5
<1>8. QED
  BY <1>1, <1>3, <1>4, <1>6, <1>7, Zenon

LEMMA TextIs ==
  ASSUME Asked, RequestParameters
  PROVE  LET text == Request!Text(asks) IN
         /\ text \in Seq(Letter) /\ Len(text) = First + 2 * Ending + HeaderPart
         /\ \A i \in 1 .. First : text[i] = IF i % 2 = 1 THEN "w" ELSE "s"
         /\ \A j \in 1 .. Ending :
              /\ text[First + j] = asks.eol[j]
              /\ text[First + Ending + HeaderPart + j] = asks.eol[j]
         /\ \A j \in 1 .. HeaderPart :
              text[First + Ending + j] = HeaderLine[((j - 1) % (3 + Ending)) + 1]
<1> DEFINE words == Request!Words(asks.words)
           headers == Request!Headers(asks)
           eol == asks.eol
<1>1. eol \in Seq(Letter) /\ Len(eol) = Ending /\ Ending \in {1, 2}
  BY EolIs DEF Ending
<1>2. asks.words \in Nat /\ asks.headers \in Nat /\ First \in Nat /\ HeaderPart \in Nat
  BY AskedIs
<1>3. /\ words \in Seq(Letter) /\ Len(words) = First
      /\ \A i \in 1 .. First : words[i] = IF i % 2 = 1 THEN "w" ELSE "s"
  <2>1. 2 * asks.words - 1 \in Nat /\ First = 2 * asks.words - 1
    BY <1>2 DEF First
  <2>2. words = [i \in 1 .. First |-> IF i % 2 = 1 THEN "w" ELSE "s"]
    BY <2>1 DEF Request!Words
  <2> HIDE DEF words
  <2>3. QED
    BY <1>2, <2>2 DEF Letter
<1>4. HeaderLine \in Seq(Letter) /\ Len(HeaderLine) = 3 + Ending
  BY <1>1 DEF HeaderLine, Letter
<1>5. headers = [i \in 1 .. HeaderPart |-> HeaderLine[((i - 1) % (3 + Ending)) + 1]]
  BY <1>4 DEF Request!Headers, HeaderLine, HeaderPart
<1>6. \A i \in 1 .. HeaderPart : ((i - 1) % (3 + Ending)) + 1 \in 1 .. (3 + Ending)
  <2>1. \A i \in 1 .. HeaderPart : ((i - 1) % 4) + 1 \in 1 .. 4 /\ ((i - 1) % 5) + 1 \in 1 .. 5
    BY <1>2
  <2>2. QED
    BY <1>1, <2>1
<1>7. /\ headers \in Seq(Letter) /\ Len(headers) = HeaderPart
      /\ \A i \in 1 .. HeaderPart : headers[i] = HeaderLine[((i - 1) % (3 + Ending)) + 1]
  <2>1. \A i \in 1 .. HeaderPart : HeaderLine[((i - 1) % (3 + Ending)) + 1] \in Letter
    BY <1>1, <1>4, <1>6
  <2> HIDE DEF headers
  <2>2. QED
    BY <1>2, <1>5, <2>1
<1>8. Request!Text(asks) = words \o eol \o headers \o eol
  BY DEF Request!Text
<1> HIDE DEF words, headers, eol
<1> DEFINE front == words \o eol
           most == front \o headers
<1>9. /\ front \in Seq(Letter) /\ Len(front) = First + Ending
      /\ \A i \in 1 .. First : front[i] = words[i]
      /\ \A j \in 1 .. Ending : front[First + j] = eol[j]
  BY <1>1, <1>2, <1>3
<1> HIDE DEF front
<1>10. /\ most \in Seq(Letter) /\ Len(most) = First + Ending + HeaderPart
       /\ \A i \in 1 .. First + Ending : most[i] = front[i]
       /\ \A j \in 1 .. HeaderPart : most[First + Ending + j] = headers[j]
  BY <1>7, <1>9, TwoParts
<1> HIDE DEF most
<1>11. /\ most \o eol \in Seq(Letter) /\ Len(most \o eol) = First + Ending + HeaderPart + Ending
       /\ \A i \in 1 .. First + Ending + HeaderPart : (most \o eol)[i] = most[i]
       /\ \A j \in 1 .. Ending : (most \o eol)[First + Ending + HeaderPart + j] = eol[j]
  BY <1>1, <1>10, TwoParts
<1>12. Request!Text(asks) = most \o eol
  BY <1>8 DEF most, front
<1>13. PICK text : text = most \o eol
  OBVIOUS
<1>14. text \in Seq(Letter) /\ Len(text) = First + 2 * Ending + HeaderPart
  BY <1>1, <1>2, <1>11, <1>13
<1>15. \A i \in 1 .. First : text[i] = IF i % 2 = 1 THEN "w" ELSE "s"
  BY <1>1, <1>2, <1>3, <1>9, <1>10, <1>11, <1>13
<1>16. ASSUME NEW j \in 1 .. Ending
       PROVE  text[First + j] = eol[j] /\ text[First + Ending + HeaderPart + j] = eol[j]
  <2>1. First + j \in 1 .. First + Ending /\ First + j \in 1 .. First + Ending + HeaderPart
    BY <1>1, <1>2
  <2>2. text[First + j] = front[First + j]
    BY <1>10, <1>11, <1>13, <2>1
  <2>3. QED
    BY <1>9, <1>11, <1>13, <2>2
<1>17. ASSUME NEW j \in 1 .. HeaderPart
       PROVE  text[First + Ending + j] = HeaderLine[((j - 1) % (3 + Ending)) + 1]
  <2>1. First + Ending + j \in 1 .. First + Ending + HeaderPart
    BY <1>1, <1>2
  <2>2. text[First + Ending + j] = headers[j]
    BY <1>10, <1>11, <1>13, <2>1
  <2>3. QED
    BY <1>7, <2>2
<1>18. QED
  BY <1>12, <1>13, <1>14, <1>15, <1>16, <1>17 DEF eol

(* Where the machine stands after i characters, before the verdict.        *)
AfterEol ==
  IF asks.eol = <<"n">> THEN "LF" ELSE IF asks.eol = <<"r">> THEN "CR" ELSE "CRLF"

AfterLine(j) ==
  LET q == j % (3 + Ending) IN
  IF j = HeaderPart + 1 /\ Ending = 2 THEN "CRLFCR"
  ELSE IF q = 0 THEN AfterEol ELSE IF q = 4 THEN "CR" ELSE "LINE"

Stand(i) ==
  CASE i <= 1 -> "FIRSTWORD"
    [] i = 2  -> "FIRSTWS"
    [] i = 3  -> "SECONDWORD"
    [] i = 4  -> "SECONDWS"
    [] i = 5  -> "THIRDWORD"
    [] i > 5 /\ asks.words > 3 -> "THIRDWS"
    [] i > 5 /\ asks.words <= 3 -> IF i < 5 + Ending THEN "CR" ELSE AfterLine(i - 5 - Ending)

Stands(m, i) ==
  /\ m \in Machine
  /\ m.says = IF i >= Request!Ends.at THEN Request!Ends.says ELSE "no"
  /\ i < Request!Ends.at => m.state = Stand(i)

LEMMA EndsIs ==
  ASSUME Asked, RequestParameters
  PROVE  /\ asks.words = 1 => Request!Ends = [at |-> 2, says |-> "bad"]
         /\ asks.words = 2 => Request!Ends = [at |-> 4, says |-> "got"]
         /\ asks.words = 3 => /\ Request!Ends.at = 5 + 2 * Ending + HeaderPart
                              /\ Request!Ends.says = "got" /\ First = 5
         /\ asks.words > 3 => Request!Ends = [at |-> 7, says |-> "bad"] /\ First >= 7
         /\ Request!Ends.at \in Nat
<1>1. asks.words \in Nat /\ Len(Request!Text(asks)) = First + 2 * Ending + HeaderPart
  BY AskedIs, TextIs
<1>2. Ending \in Nat /\ HeaderPart \in Nat
  BY AskedIs, EolIs
<1>3. CASE asks.words = 1
  BY <1>3 DEF Request!Ends
<1>4. CASE asks.words = 2
  BY <1>4 DEF Request!Ends
<1>5. CASE asks.words = 3
  BY <1>1, <1>2, <1>5 DEF Request!Ends, First
<1>6. CASE asks.words > 3
  <2>1. Request!Ends = [at |-> 7, says |-> "bad"]
    BY <1>1, <1>6 DEF Request!Ends
  <2>2. QED
    BY <1>1, <1>6, <2>1 DEF First
<1>7. QED
  BY <1>3, <1>4, <1>5, <1>6, AskedIs

LEMMA OnIs ==
  ASSUME NEW st \in MachineState
  PROVE  /\ Request!On(st) \in Machine /\ Request!On(st).state = st /\ Request!On(st).says = "no"
         /\ Request!Got(st) \in Machine /\ Request!Got(st).says = "got"
         /\ Request!Bad \in Machine /\ Request!Bad.says = "bad"
  BY DEF Request!On, Request!Got, Request!Bad, Machine, MachineState

LEMMA StandsOn ==
  ASSUME NEW i \in Nat, i < Request!Ends.at, Request!Ends.at \in Nat, Stand(i) \in MachineState,
         NEW m, m = Request!On(Stand(i))
  PROVE  Stands(m, i)
  BY OnIs DEF Stands

LEMMA StandsEnd ==
  ASSUME NEW i \in Nat, i = Request!Ends.at, NEW m \in Machine, m.says = Request!Ends.says
  PROVE  Stands(m, i)
  BY DEF Stands

(* In the first line.                                                      *)
LEMMA FirstLine ==
  ASSUME Asked, RequestParameters, NEW m, NEW i \in Nat \ {0}, i <= First, i <= Request!Ends.at,
         Stands(m, i - 1)
  PROVE  Stands(Request!Check(m, Request!Text(asks)[i]), i)
<1> DEFINE c == Request!Text(asks)[i]
           next == Request!Check(m, c)
<1>1. c = IF i % 2 = 1 THEN "w" ELSE "s"
  BY TextIs, AskedIs
<1>2. m \in Machine /\ m.says = "no" /\ m.state = Stand(i - 1) /\ Request!Ends.at \in Nat
  BY EndsIs DEF Stands
<1>3. asks.words \in Nat /\ First \in Nat /\ Ending \in {1, 2} /\ HeaderPart \in Nat
  BY AskedIs, EolIs
<1>4. /\ i <= 7
      /\ i = 7 => asks.words > 3 /\ Request!Ends.at = 7 /\ Request!Ends.says = "bad"
      /\ i < 7 => i < Request!Ends.at
      /\ i = 6 => asks.words > 3
  <2>1. CASE asks.words = 1 /\ First = 1
    BY <1>3, <2>1, EndsIs
  <2>2. CASE asks.words = 2 /\ First = 3
    BY <1>3, <2>2, EndsIs
  <2>3. CASE asks.words = 3 /\ First = 5
    BY <1>3, <2>3, EndsIs
  <2>4. CASE asks.words > 3
    BY <1>3, <2>4, EndsIs
  <2>5. QED
    BY <2>1, <2>2, <2>3, <2>4, AskedIs
<1> HIDE DEF c
<1>5. next = Request!Check(m, IF i % 2 = 1 THEN "w" ELSE "s")
  BY <1>1
<1> HIDE DEF next
<1>6. CASE i = 1
  <2>1. Stand(0) = "FIRSTWORD" /\ Stand(1) = "FIRSTWORD"
    BY DEF Stand
  <2>2. next = Request!On("FIRSTWORD")
    BY <1>2, <1>5, <1>6, <2>1, Turns
  <2>3. QED
    BY <1>2, <1>4, <1>6, <2>1, <2>2, StandsOn DEF MachineState, next, c
<1>7. CASE i = 2
  <2>1. Stand(1) = "FIRSTWORD" /\ Stand(2) = "FIRSTWS"
    BY DEF Stand
  <2>2. next = Request!On("FIRSTWS")
    BY <1>2, <1>5, <1>7, <2>1, Turns
  <2>3. QED
    BY <1>2, <1>4, <1>7, <2>1, <2>2, StandsOn DEF MachineState, next, c
<1>8. CASE i = 3
  <2>1. Stand(2) = "FIRSTWS" /\ Stand(3) = "SECONDWORD"
    BY DEF Stand
  <2>2. next = Request!On("SECONDWORD")
    BY <1>2, <1>5, <1>8, <2>1, Turns
  <2>3. QED
    BY <1>2, <1>4, <1>8, <2>1, <2>2, StandsOn DEF MachineState, next, c
<1>9. CASE i = 4
  <2>1. Stand(3) = "SECONDWORD" /\ Stand(4) = "SECONDWS"
    BY DEF Stand
  <2>2. next = Request!On("SECONDWS")
    BY <1>2, <1>5, <1>9, <2>1, Turns
  <2>3. QED
    BY <1>2, <1>4, <1>9, <2>1, <2>2, StandsOn DEF MachineState, next, c
<1>10. CASE i = 5
  <2>1. Stand(4) = "SECONDWS" /\ Stand(5) = "THIRDWORD"
    BY DEF Stand
  <2>2. next = Request!On("THIRDWORD")
    BY <1>2, <1>5, <1>10, <2>1, Turns
  <2>3. QED
    BY <1>2, <1>4, <1>10, <2>1, <2>2, StandsOn DEF MachineState, next, c
<1>11. CASE i = 6
  <2>1. Stand(5) = "THIRDWORD" /\ Stand(6) = "THIRDWS"
    BY <1>3, <1>4, <1>11 DEF Stand
  <2>2. next = Request!On("THIRDWS")
    BY <1>2, <1>5, <1>11, <2>1, Turns
  <2>3. QED
    BY <1>2, <1>4, <1>11, <2>1, <2>2, StandsOn DEF MachineState, next, c
<1>12. CASE i = 7
  <2>1. Stand(6) = "THIRDWS"
    BY <1>3, <1>4, <1>12 DEF Stand
  <2>2. next = Request!Bad
    BY <1>2, <1>5, <1>12, <2>1, Turns
  <2>3. next \in Machine /\ next.says = "bad"
    BY <2>2, OnIs DEF MachineState
  <2>4. QED
    BY <1>2, <1>4, <1>12, <2>3, StandsEnd DEF next, c
<1>13. QED
  BY <1>4, <1>6, <1>7, <1>8, <1>9, <1>10, <1>11, <1>12

(* After a first line of one word or of two.                               *)
LEMMA ShortLine ==
  ASSUME Asked, RequestParameters, NEW m, NEW i \in Nat, i = First + 1, asks.words <= 2,
         Stands(m, i - 1)
  PROVE  Stands(Request!Check(m, Request!Text(asks)[i]), i)
<1> DEFINE c == Request!Text(asks)[i]
           next == Request!Check(m, c)
<1>1. c \in {"r", "n"}
  <2>1. c = asks.eol[1]
    BY TextIs, EolIs
  <2>2. QED
    BY <2>1, EolIs
<1>2. m \in Machine
      /\ \/ asks.words = 1 /\ First = 1
         \/ asks.words = 2 /\ First = 3
  <2>1. m \in Machine
    BY DEF Stands
  <2>2. QED
    BY <2>1, AskedIs
<1>3. i = Request!Ends.at /\ Request!Ends.says = IF asks.words = 1 THEN "bad" ELSE "got"
  <2>1. asks.words = 1 => Request!Ends.at = 2 /\ Request!Ends.says = "bad"
    BY EndsIs
  <2>2. asks.words = 2 => Request!Ends.at = 4 /\ Request!Ends.says = "got"
    BY EndsIs
  <2>3. QED
    BY <1>2, <2>1, <2>2
<1>4. m.says = "no" /\ m.state = Stand(i - 1)
  BY <1>3 DEF Stands
<1>5. Stand(1) = "FIRSTWORD" /\ Stand(3) = "SECONDWORD"
  BY DEF Stand
<1> HIDE DEF c
<1>6. next = IF asks.words = 1 THEN Request!Bad ELSE Request!Got("SECONDWORD")
  BY <1>1, <1>2, <1>4, <1>5, Turns
<1>7. next \in Machine /\ next.says = Request!Ends.says
  BY <1>3, <1>6, OnIs DEF MachineState
<1> HIDE DEF next
<1>8. QED
  BY <1>3, <1>7, StandsEnd DEF next, c

(* The end of the first line, if it has three words.                       *)
LEMMA FullLine ==
  ASSUME Asked, RequestParameters, NEW m, NEW i \in Nat, i > 5, i <= 5 + Ending, asks.words = 3,
         Stands(m, i - 1)
  PROVE  Stands(Request!Check(m, Request!Text(asks)[i]), i)
<1> DEFINE c == Request!Text(asks)[i]
           next == Request!Check(m, c)
<1>1. First = 5 /\ Ending \in {1, 2} /\ HeaderPart \in Nat /\ Request!Ends.at = 5 + 2 * Ending + HeaderPart
  BY AskedIs, EndsIs, EolIs
<1>2. c = asks.eol[i - 5]
  <2>1. i - 5 \in 1 .. Ending /\ i = First + (i - 5)
    BY <1>1
  <2>2. QED
    BY <2>1, TextIs
<1>3. m \in Machine /\ m.says = "no" /\ m.state = Stand(i - 1) /\ i < Request!Ends.at
  BY <1>1 DEF Stands
<1> HIDE DEF c
<1>4. next = Request!On(Stand(i)) /\ Stand(i) \in MachineState
  <2>1. CASE i = 6
    <3>1. Stand(5) = "THIRDWORD"
      BY DEF Stand
    <3>2. CASE Ending = 1
      <4>1. Stand(6) = AfterLine(0) /\ AfterLine(0) = AfterEol
        BY <1>1, <3>2 DEF Stand, AfterLine
      <4>2. QED
        BY <1>2, <1>3, <2>1, <3>1, <3>2, <4>1, EolIs, Turns DEF AfterEol, MachineState
    <3>3. CASE Ending = 2
      <4>1. Stand(6) = "CR"
        BY <1>1, <3>3 DEF Stand
      <4>2. QED
        BY <1>2, <1>3, <2>1, <3>1, <3>3, <4>1, EolIs, Turns DEF MachineState
    <3>4. QED
      BY <1>1, <3>2, <3>3
  <2>2. CASE i = 7
    <3>1. Ending = 2 /\ Stand(6) = "CR"
      BY <1>1, <2>2 DEF Stand
    <3>2. Stand(7) = AfterLine(0) /\ AfterLine(0) = AfterEol
      BY <1>1, <3>1 DEF Stand, AfterLine
    <3>3. QED
      BY <1>2, <1>3, <2>2, <3>1, <3>2, EolIs, Turns DEF AfterEol, MachineState
  <2>3. QED
    BY <1>1, <2>1, <2>2
<1> HIDE DEF next
<1>5. QED
  BY <1>1, <1>3, <1>4, StandsOn DEF next, c

(* After that: in the headers, ...                                         *)
LEMMA InHeaders ==
  ASSUME Asked, RequestParameters, NEW m, NEW i \in Nat, NEW j \in 1 .. HeaderPart, i = 5 + Ending + j,
         asks.words = 3, Stands(m, i - 1)
  PROVE  Stands(Request!Check(m, Request!Text(asks)[i]), i)
<1> DEFINE c == Request!Text(asks)[i]
           next == Request!Check(m, c)
           k == 3 + Ending
           q == (j - 1) % k
<1>1. /\ First = 5 /\ Ending \in {1, 2} /\ HeaderPart \in Nat
      /\ Request!Ends.at = 5 + 2 * Ending + HeaderPart
  BY AskedIs, EndsIs, EolIs
<1>2. c = HeaderLine[q + 1]
  BY <1>1, TextIs
<1>3. m \in Machine /\ m.says = "no" /\ m.state = Stand(i - 1) /\ i < Request!Ends.at
  BY <1>1 DEF Stands
<1>4. Stand(i - 1) = AfterLine(j - 1) /\ Stand(i) = AfterLine(j)
  BY <1>1 DEF Stand
<1>5. q \in 0 .. k - 1 /\ j % k = IF q = k - 1 THEN 0 ELSE q + 1
  BY <1>1
<1>6. /\ AfterLine(j - 1) = IF q = 0 THEN AfterEol ELSE IF q = 4 THEN "CR" ELSE "LINE"
      /\ AfterLine(j) = IF q = k - 1 THEN AfterEol ELSE IF q = 3 THEN "CR" ELSE "LINE"
  BY <1>1, <1>5 DEF AfterLine
<1>7. c = IF q = 0 \/ q = 2 THEN "w" ELSE IF q = 1 THEN "s" ELSE asks.eol[q - 2]
  <2>1. /\ <<"w", "s", "w">> \in Seq(Letter) /\ Len(<<"w", "s", "w">>) = 3
        /\ asks.eol \in Seq(Letter) /\ Len(asks.eol) = Ending
    BY EolIs DEF Letter, Ending
  <2>2. /\ HeaderLine[1] = "w" /\ HeaderLine[2] = "s" /\ HeaderLine[3] = "w"
        /\ \A n \in 1 .. Ending : HeaderLine[3 + n] = asks.eol[n]
    BY <2>1, TwoParts DEF HeaderLine
  <2>3. q >= 3 => q - 2 \in 1 .. Ending /\ q + 1 = 3 + (q - 2)
    BY <1>1, <1>5
  <2>4. QED
    BY <1>2, <1>5, <2>2, <2>3
<1> HIDE DEF c, q
<1>8. next = Request!On(AfterLine(j)) /\ AfterLine(j) \in MachineState
  <2>1. CASE q = 0
    <3>1. m.state = AfterEol /\ c = "w" /\ AfterLine(j) = "LINE"
      BY <1>1, <1>3, <1>4, <1>6, <1>7, <2>1
    <3>2. QED
      BY <1>3, <3>1, Turns DEF AfterEol, MachineState
  <2>2. CASE q = 1 \/ q = 2
    <3>1. m.state = "LINE" /\ c \in {"w", "s"} /\ AfterLine(j) = "LINE"
      BY <1>1, <1>3, <1>4, <1>6, <1>7, <2>2
    <3>2. QED
      BY <1>3, <3>1, Turns DEF MachineState
  <2>3. CASE q = 3
    <3>1. m.state = "LINE" /\ c = asks.eol[1]
          /\ AfterLine(j) = IF Ending = 1 THEN AfterEol ELSE "CR"
      BY <1>1, <1>3, <1>4, <1>6, <1>7, <2>3
    <3>2. QED
      BY <1>3, <3>1, EolIs, Turns DEF AfterEol, MachineState
  <2>4. CASE q = 4
    <3>1. Ending = 2 /\ m.state = "CR" /\ c = asks.eol[2] /\ AfterLine(j) = AfterEol
      BY <1>1, <1>3, <1>4, <1>5, <1>6, <1>7, <2>4
    <3>2. QED
      BY <1>3, <3>1, EolIs, Turns DEF AfterEol, MachineState
  <2>5. QED
    BY <1>1, <1>5, <2>1, <2>2, <2>3, <2>4
<1> HIDE DEF next
<1>9. QED
  BY <1>1, <1>3, <1>4, <1>8, StandsOn DEF next, c

(* ... and at the empty line.                                              *)
LEMMA LastLine ==
  ASSUME Asked, RequestParameters, NEW m, NEW i \in Nat, NEW j \in 1 .. Ending,
         i = 5 + Ending + HeaderPart + j, asks.words = 3, Stands(m, i - 1)
  PROVE  Stands(Request!Check(m, Request!Text(asks)[i]), i)
<1> DEFINE c == Request!Text(asks)[i]
           next == Request!Check(m, c)
<1>1. /\ First = 5 /\ Ending \in {1, 2} /\ HeaderPart \in Nat
      /\ Request!Ends.at = 5 + 2 * Ending + HeaderPart /\ Request!Ends.says = "got"
  BY AskedIs, EndsIs, EolIs
<1>2. c = asks.eol[j]
  BY <1>1, TextIs
<1>3. m \in Machine /\ m.says = "no" /\ m.state = Stand(i - 1)
  BY <1>1 DEF Stands
<1>4. HeaderPart % (3 + Ending) = 0
  <2>1. asks.headers \in Nat
    BY AskedIs
  <2>2. (asks.headers * 4) % 4 = 0 /\ (asks.headers * 5) % 5 = 0
    BY <2>1
  <2>3. QED
    BY <1>1, <2>2 DEF HeaderPart
<1> HIDE DEF c
<1>5. CASE j = 1
  <2>1. Stand(i - 1) = AfterEol
    <3>1. Stand(i - 1) = AfterLine(HeaderPart)
      BY <1>1, <1>5 DEF Stand
    <3>2. QED
      BY <1>1, <1>4, <3>1 DEF AfterLine
  <2>2. CASE Ending = 1
    <3>1. next = Request!Got("LF") \/ next = Request!Got("CR")
      BY <1>2, <1>3, <1>5, <2>1, <2>2, EolIs, Turns DEF AfterEol
    <3>2. next \in Machine /\ next.says = "got"
      BY <3>1, OnIs DEF MachineState
    <3> HIDE DEF next
    <3>3. QED
      BY <1>1, <1>5, <2>2, <3>2, StandsEnd DEF next, c
  <2>3. CASE Ending = 2
    <3>1. next = Request!On("CRLFCR")
      <4>1. asks.eol = <<"r", "n">> /\ c = "r"
        BY <1>2, <1>5, <2>3, EolIs
      <4>2. m.state = "CRLF"
        BY <1>3, <2>1, <4>1 DEF AfterEol
      <4>3. QED
        BY <1>3, <4>1, <4>2, Turns
    <3>2. Stand(i) = "CRLFCR" /\ i < Request!Ends.at
      BY <1>1, <1>5, <2>3 DEF Stand, AfterLine
    <3> HIDE DEF next
    <3>3. QED
      BY <1>1, <3>1, <3>2, StandsOn DEF MachineState, next, c
  <2>4. QED
    BY <1>1, <2>2, <2>3
<1>6. CASE j = 2
  <2>1. Ending = 2 /\ Stand(i - 1) = "CRLFCR" /\ i = Request!Ends.at
    BY <1>1, <1>6 DEF Stand, AfterLine
  <2>2. next = Request!Got("CRLFCR")
    BY <1>2, <1>3, <1>6, <2>1, EolIs, Turns
  <2>3. next \in Machine /\ next.says = "got"
    BY <2>2, OnIs DEF MachineState
  <2> HIDE DEF next
  <2>4. QED
    BY <1>1, <2>1, <2>3, StandsEnd DEF next, c
<1>7. QED
  BY <1>1, <1>5, <1>6

(* One character more.                                                     *)
LEMMA OneMore ==
  ASSUME Asked, RequestParameters, NEW m, NEW i \in 1 .. Len(Request!Text(asks)), Stands(m, i - 1)
  PROVE  Stands(Request!Check(m, Request!Text(asks)[i]), i)
<1>1. /\ asks.words \in Nat /\ First \in Nat /\ HeaderPart \in Nat
      /\ Ending \in {1, 2} /\ Len(Request!Text(asks)) = First + 2 * Ending + HeaderPart
      /\ asks.words = 3 => First = 5
      /\ asks.words > 3 => First >= 7
      /\ asks.words <= 2 \/ asks.words = 3 \/ asks.words > 3
  BY AskedIs, EolIs, TextIs
<1>2. /\ asks.words <= 2 => Request!Ends.at = First + 1
      /\ asks.words = 3 => Request!Ends.at = Len(Request!Text(asks))
      /\ asks.words > 3 => Request!Ends.at = 7
  <2>1. CASE asks.words = 1 /\ First = 1
    BY <1>1, <2>1, EndsIs
  <2>2. CASE asks.words = 2 /\ First = 3
    BY <1>1, <2>2, EndsIs
  <2>3. CASE asks.words = 3 /\ First = 5
    BY <1>1, <2>3, EndsIs
  <2>4. CASE asks.words > 3
    BY <1>1, <2>4, EndsIs
  <2>5. QED
    BY <2>1, <2>2, <2>3, <2>4, AskedIs
<1>3. CASE i > Request!Ends.at
  <2>1. m \in Machine /\ m.says = Request!Ends.says /\ Request!Ends.at \in Nat
    BY <1>3, EndsIs DEF Stands
  <2>2. Request!Ends.says # "no"
    <3>1. asks.words = 1 \/ asks.words = 2 \/ asks.words = 3 \/ asks.words > 3
      BY AskedIs
    <3>2. QED
      BY <3>1, EndsIs
  <2>3. Request!Check(m, Request!Text(asks)[i]) = m
    BY <2>1, <2>2 DEF Request!Check
  <2>4. QED
    BY <1>3, <2>1, <2>3 DEF Stands
<1>4. CASE i <= Request!Ends.at /\ i <= First
  BY <1>1, <1>4, FirstLine
<1>5. CASE i <= Request!Ends.at /\ i > First /\ asks.words <= 2
  BY <1>1, <1>2, <1>5, ShortLine
<1>6. CASE i <= Request!Ends.at /\ i > First /\ asks.words = 3
  <2>1. CASE i <= 5 + Ending
    BY <1>1, <1>6, <2>1, FullLine
  <2>2. CASE i > 5 + Ending /\ i <= 5 + Ending + HeaderPart
    <3>1. i - 5 - Ending \in 1 .. HeaderPart /\ i = 5 + Ending + (i - 5 - Ending)
      BY <1>1, <2>2
    <3>2. QED
      BY <1>6, <3>1, InHeaders
  <2>3. CASE i > 5 + Ending + HeaderPart
    <3>1. i - 5 - Ending - HeaderPart \in 1 .. Ending /\ i = 5 + Ending + HeaderPart + (i - 5 - Ending - HeaderPart)
      BY <1>1, <1>6, <2>3
    <3>2. QED
      BY <1>6, <3>1, LastLine
  <2>4. QED
    BY <1>1, <2>1, <2>2, <2>3
<1>7. CASE i <= Request!Ends.at /\ i > First /\ asks.words > 3
  BY <1>1, <1>2, <1>7
<1>8. Request!Ends.at \in Nat
  BY EndsIs
<1>9. QED
  BY <1>1, <1>3, <1>4, <1>5, <1>6, <1>7, <1>8

RequestInv ==
  /\ Asked
  /\ readIdx \in 0 .. Len(Request!Text(asks)) /\ checkedIdx = readIdx
  /\ Stands([state |-> checkedState, says |-> verdict], readIdx)

LEMMA RequestStarts ==
  ASSUME RequestParameters, Request!RequestInit
  PROVE  RequestInv
<1>1. Asked /\ readIdx = 0 /\ checkedIdx = 0 /\ checkedState = "FIRSTWORD" /\ verdict = "no"
  BY DEF Request!RequestInit, Asked
<1>2. Len(Request!Text(asks)) \in Nat
  BY <1>1, TextIs
<1>3. Stand(0) = "FIRSTWORD" /\ Request!On("FIRSTWORD") = [state |-> "FIRSTWORD", says |-> "no"]
  BY DEF Stand, Request!On
<1>4. Request!Ends.at \in Nat /\ 0 < Request!Ends.at
  <2>1. Ending \in Nat /\ HeaderPart \in Nat
    BY <1>1, EolIs, AskedIs
  <2>2. QED
    BY <1>1, <2>1, EndsIs, AskedIs
<1>5. Stands([state |-> "FIRSTWORD", says |-> "no"], 0)
  BY <1>3, <1>4, StandsOn DEF MachineState
<1>6. QED
  BY <1>1, <1>2, <1>5 DEF RequestInv

LEMMA ReadKeeps ==
  ASSUME RequestParameters, RequestInv, NEW n \in 1 .. Len(Request!Text(asks)), Request!Read(n)
  PROVE  RequestInv'
<1> DEFINE text == Request!Text(asks)
           s == SubSeq(text, readIdx + 1, readIdx + n)
           m == Request!On(checkedState)
<1>1. Asked /\ text \in Seq(Letter)
  BY TextIs DEF RequestInv
<1>2. /\ verdict = "no" /\ readIdx + n <= Len(text) /\ UNCHANGED asks
      /\ readIdx' = readIdx + n /\ checkedIdx' = readIdx + n
      /\ checkedState' = Request!Run(m, s).state /\ verdict' = Request!Run(m, s).says
  BY DEF Request!Read, Request!ReadInState, RequestInv
<1>3. readIdx \in Nat /\ n \in Nat /\ readIdx + n \in 0 .. Len(text)
  BY <1>1, <1>2 DEF RequestInv
<1>4. m = [state |-> checkedState, says |-> verdict]
  BY <1>2 DEF Request!On
<1>5. Stands(m, readIdx)
  BY <1>4 DEF RequestInv
<1>6. m \in Machine
  BY <1>5 DEF Stands
<1>7. s \in Seq(Letter) /\ Len(s) = n /\ \A k \in 1 .. n : s[k] = text[readIdx + k]
  BY <1>1, <1>2, <1>3
<1> HIDE DEF text, s, m
<1>8. PICK g \in [0 .. n -> Machine] :
        /\ g[0] = m /\ Request!Run(m, s) = g[n]
        /\ \A k \in 1 .. n : g[k] = Request!Check(g[k - 1], s[k])
  <2>1. \E g \in [0 .. Len(s) -> Machine] :
          /\ g[0] = m /\ Request!Run(m, s) = g[Len(s)]
          /\ \A k \in 1 .. Len(s) : g[k] = Request!Check(g[k - 1], s[k])
    BY <1>6, <1>7, RunGrows
  <2>2. QED
    BY <1>7, <2>1
<1> DEFINE H == {k \in Nat : k <= n => Stands(g[k], readIdx + k)}
<1>9. 0 \in H
  <2>1. readIdx + 0 = readIdx
    BY <1>3
  <2>2. QED
    BY <1>5, <1>8, <2>1
<1>10. ASSUME NEW k \in Nat, k \in H PROVE k + 1 \in H
  <2>1. SUFFICES ASSUME k + 1 <= n PROVE Stands(g[k + 1], readIdx + (k + 1))
    OBVIOUS
  <2> DEFINE i == readIdx + (k + 1)
  <2>2. k <= n /\ k + 1 \in 1 .. n /\ (k + 1) - 1 = k /\ i \in 1 .. Len(text) /\ i - 1 = readIdx + k
    BY <1>1, <1>3, <2>1
  <2>3. Stands(g[k], i - 1) /\ g[k + 1] = Request!Check(g[k], s[k + 1]) /\ s[k + 1] = text[i]
    BY <1>7, <1>8, <1>10, <2>2
  <2> HIDE DEF i
  <2>4. Stands(Request!Check(g[k], text[i]), i)
    BY <1>1, <2>2, <2>3, OneMore DEF text
  <2>5. QED
    BY <2>3, <2>4 DEF i
<1> HIDE DEF H
<1>11. \A k \in Nat : k \in H
  BY <1>9, <1>10, Induction
<1>12. Stands(g[n], readIdx + n)
  BY <1>3, <1>11 DEF H
<1>13. g[n] = [state |-> g[n].state, says |-> g[n].says]
  BY <1>12 DEF Stands, Machine
<1>14. Stands([state |-> checkedState', says |-> verdict'], readIdx')
  BY <1>2, <1>8, <1>12, <1>13
<1>15. Stands([state |-> checkedState, says |-> verdict], readIdx)'
  BY <1>2, <1>14 DEF Stands, Stand, AfterLine, AfterEol, HeaderPart, Ending, Request!Ends, Request!Text,
                     Request!Words, Request!Headers
<1>16. QED
  BY <1>1, <1>2, <1>3, <1>15 DEF RequestInv, Asked, text, Request!Text, Request!Words, Request!Headers

LEMMA RequestStep ==
  ASSUME RequestParameters
  PROVE  RequestInv /\ [Request!RequestNext]_RequestVars => RequestInv'
<1> SUFFICES ASSUME RequestInv, [Request!RequestNext]_RequestVars PROVE RequestInv'
  OBVIOUS
<1>1. CASE Request!RequestNext
  BY <1>1, ReadKeeps DEF Request!RequestNext
<1>2. CASE UNCHANGED RequestVars
  BY <1>2 DEF RequestVars, RequestInv, Asked, Stands, Stand, AfterLine, AfterEol, HeaderPart, Ending,
              Request!Ends, Request!Text, Request!Words, Request!Headers
<1>3. QED
  BY <1>1, <1>2

LEMMA RequestSeen == RequestInv => Request!RequestRecognised
  BY DEF RequestInv, Stands, Request!RequestRecognised

(* However many words and headers a request has, and however it is cut     *)
(* into reads: httpd_got_request takes it as one when all of it is there,  *)
(* and as none as soon as that is certain (libhttpd.c).  Whatever devices  *)
(* and packets there are: discover answers those who ask for its device,   *)
(* and its answer is well-formed (discover.c).  However many daemons are   *)
(* started and connections come: each telnet session has its own           *)
(* connection and runs what its daemon was started with (telnetd).         *)
THEOREM RequestsAreServed ==
  RequestParameters /\ DiscoverParameters /\ TelnetdParameters =>
    (RequestSpec /\ DiscoverSpec /\ TelnetdSpec => []RequestsServed)
<1> SUFFICES ASSUME RequestParameters, DiscoverParameters, TelnetdParameters
             PROVE  RequestSpec /\ DiscoverSpec /\ TelnetdSpec => []RequestsServed
  OBVIOUS
<1>1. /\ Request!RequestInit => RequestInv
      /\ RequestInv /\ [Request!RequestNext]_RequestVars => RequestInv'
      /\ RequestInv => Request!RequestRecognised
  BY RequestStarts, RequestStep, RequestSeen
<1>2. /\ Discovery!DiscoverInit => DiscoverInv
      /\ DiscoverInv /\ [Discovery!DiscoverNext]_DiscoverVars => DiscoverInv'
      /\ DiscoverInv => Discovery!RightlyAnswered
  BY DiscoverStarts, DiscoverStep, AnswersAreRight
<1>3. /\ Telnetds!TelnetdInit => TelnetdInv
      /\ TelnetdInv /\ [Telnetds!TelnetdNext]_TelnetdVars => TelnetdInv'
      /\ TelnetdInv => Telnetds!SessionsOwn
  BY TelnetdStarts, TelnetdStep, SessionsAreOwn
<1>4. Request!RequestRecognised /\ Discovery!RightlyAnswered /\ Telnetds!SessionsOwn
        => RequestsServed
  BY DEF RequestsServed
<1>5. QED
  BY <1>1, <1>2, <1>3, <1>4, PTL DEF RequestSpec, DiscoverSpec, TelnetdSpec

=============================================================================
