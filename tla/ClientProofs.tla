----------------------------- MODULE ClientProofs -----------------------------
(***************************************************************************)
(* The two clients that stay connected, and what they take for the state   *)
(* of the devices.                                                         *)
(*                                                                         *)
(* From what a device says to what cli_notify.c shows, for every integer   *)
(* and any bytes the device says: the codec of base64.c; that the decoding *)
(* of a driver gives a value the codec takes, by the least place at which  *)
(* the reading of a numeral would go wrong; and for any arguments that     *)
(* lines which cross each other neither leave a client unsubscribed nor    *)
(* show it an old or another value.                                        *)
(*                                                                         *)
(* The listener, for any of the devices and any number of checks: what it  *)
(* believes of the playstation and of the receiver's source holds through  *)
(* cancelled checks, ended sessions and restarts.                          *)
(***************************************************************************)
EXTENDS Listener, CliNotify, SequenceTheorems, WellFoundedInduction, TLAPS

-----------------------------------------------------------------------------
(* The codec of base64.c.                                                  *)

\* The tables of base64.c are inverse to each other, and every letter is accepted.
LEMMA TablesInverse ==
    ASSUME NEW d \in 0 .. 63
    PROVE  Letter64(d) \in Char /\ Digit64(Letter64(d)) = d /\ Is64(Letter64(d))
BY SMT DEF Letter64, Digit64, Is64, Char

\* A remainder is what is left of a multiple.
LEMMA Remainder ==
    ASSUME NEW v \in Int, NEW d \in Int, NEW low \in Int,
           0 <= low, low < 8388608, v = d * 8388608 + low
    PROVE  v % 8388608 = low
BY SMT

\* What debase64_int24() reads of what base64_int24() wrote is the integer it was given, with
\* its sign and its lowest 23 bits; no other bit survives.
THEOREM RoundTrip == \A v \in Int : Debase64Int24(Base64Int24(v)) = Clipped(v)
<1> SUFFICES ASSUME NEW v \in Int
             PROVE  Debase64Int24(Base64Int24(v)) = Clipped(v)
    OBVIOUS
<1> DEFINE s == IF v < 0 THEN 32 ELSE 0
           p == (v \div 262144) % 32
           q == (v \div 4096) % 64
           r == (v \div 64) % 64
           t == v % 64
<1>2. s + p \in 0 .. 63 /\ q \in 0 .. 63 /\ r \in 0 .. 63 /\ t \in 0 .. 63
    BY SMT
<1>3. Signed64(s + p) * 262144 + q * 4096 + r * 64 + t = Clipped(v)
  <2> DEFINE a == v \div 64
             b == v \div 4096
             c == v \div 262144
             d == v \div 8388608
             low == p * 262144 + q * 4096 + r * 64 + t
  <2>1. v = a * 64 + t
      BY SMT
  <2>2. a = b * 64 + r
      BY SMT
  <2>3. b = c * 64 + q
      BY SMT
  <2>4. c = d * 32 + p
      BY SMT
  <2>5. /\ a \in Int /\ b \in Int /\ c \in Int /\ d \in Int
        /\ p \in 0 .. 31 /\ q \in 0 .. 63 /\ r \in 0 .. 63 /\ t \in 0 .. 63
      BY SMT
  <2>6. v = d * 8388608 + low /\ low \in Int /\ 0 <= low /\ low < 8388608
    <3> HIDE DEF a, b, c, d, p, q, r, t
    <3>1. low \in Int
        BY <2>5, SMT
    <3> QED
        BY <2>1, <2>2, <2>3, <2>4, <2>5, <3>1, SMT
  <2>7. v % 8388608 = low
    <3> HIDE DEF d, low
    <3> QED
      BY <2>5, <2>6, Remainder, SMT
  <2>8. Signed64(s + p) = p - (IF v < 0 THEN 32 ELSE 0)
      BY <2>5, SMT DEF Signed64
  <2> QED
    <3> HIDE DEF p, q, r, t, s
    <3> QED
      BY <2>5, <2>7, <2>8, SMT DEF Clipped
<1> DEFINE e == Base64Int24(v)
<1>4. /\ At(e, 1) = Letter64(s + p) /\ At(e, 2) = Letter64(q)
      /\ At(e, 3) = Letter64(r) /\ At(e, 4) = Letter64(t)
    BY SMT DEF Base64Int24, At
<1> HIDE DEF s, p, q, r, t, e
<1>5. /\ Is64(At(e, 1)) /\ Digit64(At(e, 1)) = s + p
      /\ Is64(At(e, 2)) /\ Digit64(At(e, 2)) = q
      /\ Is64(At(e, 3)) /\ Digit64(At(e, 3)) = r
      /\ Is64(At(e, 4)) /\ Digit64(At(e, 4)) = t
    BY <1>2, <1>4, TablesInverse, SMT
<1>6. Debase64Int24(e) = ((Signed64(s + p) * 64 + q) * 64 + r) * 64 + t
    BY <1>5, SMT DEF Debase64Int24
<1>7. Signed64(s + p) \in Int /\ q \in Int /\ r \in Int /\ t \in Int
    BY <1>2, SMT DEF Signed64
<1>8. Debase64Int24(e) = Signed64(s + p) * 262144 + q * 4096 + r * 64 + t
    BY <1>6, <1>7, SMT
<1> QED
    BY <1>3, <1>8, SMT DEF e

\* What is written is four characters.
LEMMA Base64Type ==
    ASSUME NEW v \in Int
    PROVE  Base64Int24(v) \in Seq(Char)
<1> DEFINE s == IF v < 0 THEN 32 ELSE 0
           p == (v \div 262144) % 32
           q == (v \div 4096) % 64
           r == (v \div 64) % 64
           t == v % 64
<1>1. s + p \in 0 .. 63 /\ q \in 0 .. 63 /\ r \in 0 .. 63 /\ t \in 0 .. 63
    BY SMT
<1>2. Base64Int24(v) = << Letter64(s + p), Letter64(q), Letter64(r), Letter64(t) >>
    BY DEF Base64Int24
<1> HIDE DEF s, p, q, r, t
<1> QED
    BY <1>1, <1>2, TablesInverse

-----------------------------------------------------------------------------
(* strtol().                                                               *)

\* A set of naturals with an element has a least one.
LEMMA LeastElement ==
    ASSUME NEW M \in SUBSET Nat, M # {}
    PROVE  \E m \in M : \A n \in M : m <= n
<1>1. PICK m \in M : \A n \in M : <<n, m>> \notin OpToRel(<, Nat)
    BY NatLessThanWellFounded, WFMin, Zenon
<1>2. \A n \in M : ~(n < m)
    BY <1>1, Zenon DEF OpToRel
<1>3. M \subseteq Nat
    OBVIOUS
<1>4. ASSUME NEW n \in M
      PROVE  m <= n
    BY <1>2, <1>3
<1> QED
    BY <1>4

\* The recursion of Reading has a solution: a shortest string that it has none for
\* would have one for the string without its last character.
LEMMA ReadingIs ==
    ASSUME NEW s \in Seq(Char), NEW base, NEW from \in {1, 2}, from - 1 <= Len(s)
    PROVE  Reading(s, base, from) =
             [i \in (from - 1) .. Len(s) |->
                IF i = from - 1 THEN <<0, TRUE>>
                ELSE IF Reading(s, base, from)[i - 1][2] /\ Numeral(s[i], base) # -1
                     THEN <<Reading(s, base, from)[i - 1][1] * base + Numeral(s[i], base), TRUE>>
                     ELSE <<Reading(s, base, from)[i - 1][1], FALSE>>]
<1> DEFINE Next1(b, i) == IF b[2] /\ Numeral(s[i], base) # -1
                            THEN <<b[1] * base + Numeral(s[i], base), TRUE>>
                            ELSE <<b[1], FALSE>>
           Body(f, i) == IF i = from - 1 THEN <<0, TRUE>> ELSE Next1(f[i - 1], i)
           Sol(f, n) == f = [i \in (from - 1) .. n |-> Body(f, i)]
           M == { n \in (from - 1) .. Len(s) : ~\E f : Sol(f, n) }
<1>1. M = {}
  <2> SUFFICES ASSUME M # {}
               PROVE  FALSE
      OBVIOUS
  <2>1. M \in SUBSET Nat
    <3> HIDE DEF Sol
    <3>1. from - 1 \in Nat /\ Len(s) \in Nat
        OBVIOUS
    <3> QED
        BY <3>1
  <2> HIDE DEF M
  <2>2. PICK m \in M : \A n \in M : m <= n
      BY <2>1, LeastElement
  <2>3. m \in (from - 1) .. Len(s) /\ ~\E f : Sol(f, m)
      BY DEF M
  <2> HIDE DEF Next1
  <2>4. CASE m = from - 1
    <3> DEFINE g == [i \in (from - 1) .. m |-> <<0, TRUE>>]
    <3>1. \A i \in (from - 1) .. m : i = from - 1
        BY <2>3, <2>4
    <3>2. g = [i \in (from - 1) .. m |-> Body(g, i)]
        BY <3>1
    <3> QED
        BY <2>3, <3>2
  <2>5. CASE m # from - 1
    <3>1. m - 1 \in (from - 1) .. Len(s) /\ m - 1 \notin M
        BY <2>1, <2>2, <2>3, <2>5
    <3>2. PICK f : Sol(f, m - 1)
        BY <3>1 DEF M
    <3> DEFINE g == [i \in (from - 1) .. m |-> IF i = m THEN Body(f, m) ELSE f[i]]
    <3>3. \A i \in (from - 1) .. m : i # from - 1 => i - 1 \in (from - 1) .. m - 1 /\ i - 1 # m
        BY <2>3
    <3>4. \A i \in (from - 1) .. m - 1 : g[i] = f[i] /\ i \in (from - 1) .. m
        BY <2>3
    <3>5. \A i \in (from - 1) .. m : Body(g, i) = Body(f, i)
        BY <3>3, <3>4
    <3>6. \A i \in (from - 1) .. m : i # m => i \in (from - 1) .. m - 1 /\ f[i] = Body(f, i)
      <4>1. \A i \in (from - 1) .. m - 1 : f[i] = Body(f, i)
        <5> HIDE DEF Body
        <5> QED
            BY <3>2
      <4> QED
          BY <2>3, <4>1
    <3>7. \A i \in (from - 1) .. m : g[i] = Body(g, i)
        BY <3>5, <3>6
    <3>8. Sol(g, m)
      <4> HIDE DEF Body
      <4>1. g = [i \in (from - 1) .. m |-> g[i]]
          OBVIOUS
      <4> HIDE DEF g
      <4> QED
          BY <3>7, <4>1
    <3> QED
        BY <2>3, <3>8
  <2> QED
      BY <2>4, <2>5
<1>2. \E f : Sol(f, Len(s))
  <2> HIDE DEF Sol
  <2>1. from - 1 \in Nat /\ Len(s) \in Nat
      OBVIOUS
  <2>2. Len(s) \in (from - 1) .. Len(s)
      BY <2>1
  <2> QED
      BY <1>1, <2>2
<1>3. Reading(s, base, from) = CHOOSE f : Sol(f, Len(s))
    BY DEF Reading
<1>4. Sol(Reading(s, base, from), Len(s))
  <2> HIDE DEF Sol
  <2> QED
      BY <1>2, <1>3
<1> QED
    BY <1>4

\* A digit of a number is an integer, or says that it is none.
LEMMA NumeralType ==
    ASSUME NEW c \in Char, NEW base
    PROVE  Numeral(c, base) \in Int
BY SMT DEF Numeral, Char

\* So is a digit of a channel.
LEMMA ChannelDigitType ==
    ASSUME NEW c \in Char
    PROVE  ChannelDigit(c) \in Int
BY SMT DEF ChannelDigit, Char

\* Whatever is read is a number.
LEMMA StrtolType ==
    ASSUME NEW s \in Seq(Char), NEW base \in {10, 16}
    PROVE  Strtol(s, base) \in Int
<1> DEFINE from == IF At(s, 1) \in Signs THEN 2 ELSE 1
           R == Reading(s, base, from)
<1>1. CASE s = <<>>
    BY <1>1 DEF Strtol
<1>2. CASE s # <<>>
  <2> DEFINE Dom == (from - 1) .. Len(s)
             M == { n \in Dom : R[n][1] \notin Int }
  <2>1. from \in {1, 2} /\ Len(s) \in Nat /\ from - 1 <= Len(s) /\ from - 1 \in Nat
      BY <1>2
  <2> HIDE DEF from
  <2>2. R = [i \in Dom |->
                IF i = from - 1 THEN <<0, TRUE>>
                ELSE IF R[i - 1][2] /\ Numeral(s[i], base) # -1
                     THEN <<R[i - 1][1] * base + Numeral(s[i], base), TRUE>>
                     ELSE <<R[i - 1][1], FALSE>>]
      BY <2>1, ReadingIs
  <2> HIDE DEF R
  <2>3. M = {}
    <3> SUFFICES ASSUME M # {}
                 PROVE  FALSE
        OBVIOUS
    <3>1. M \in SUBSET Nat
        BY <2>1
    <3> HIDE DEF M
    <3>2. PICK m \in M : \A n \in M : m <= n
        BY <3>1, LeastElement
    <3>3. m \in Dom /\ R[m][1] \notin Int
        BY DEF M
    <3>4. m # from - 1
        BY <2>2, <3>3
    <3>5. m - 1 \in Dom /\ m - 1 \notin M
        BY <2>1, <3>1, <3>2, <3>3, <3>4
    <3>6. R[m - 1][1] \in Int
        BY <3>5 DEF M
    <3>7. m \in 1 .. Len(s)
        BY <2>1, <3>3, <3>4
    <3>8. s[m] \in Char
        BY <3>7
    <3>9. Numeral(s[m], base) \in Int
        BY <3>8, NumeralType
    <3>10. \/ R[m] = <<R[m - 1][1] * base + Numeral(s[m], base), TRUE>>
           \/ R[m] = <<R[m - 1][1], FALSE>>
        BY <2>2, <3>3, <3>4
    <3>11. R[m - 1][1] * base + Numeral(s[m], base) \in Int
        BY <3>6, <3>9
    <3> DEFINE a == R[m - 1][1] * base + Numeral(s[m], base)
               b == R[m - 1][1]
    <3> HIDE DEF a, b
    <3>12. R[m] = <<a, TRUE>> \/ R[m] = <<b, FALSE>>
        BY <3>10 DEF a, b
    <3>13. <<a, TRUE>>[1] = a /\ <<b, FALSE>>[1] = b
        OBVIOUS
    <3>14. R[m][1] \in {a, b}
        BY <3>12, <3>13
    <3> QED
        BY <3>3, <3>6, <3>11, <3>14 DEF a, b
  <2>4. Len(s) \in Dom
      BY <2>1
  <2>5. R[Len(s)][1] \in Int
      BY <2>3, <2>4
  <2>6. Strtol(s, base) \in {R[Len(s)][1], -R[Len(s)][1]}
      BY <1>2 DEF Strtol, R, from
  <2> QED
      BY <2>5, <2>6
<1> QED
    BY <1>1, <1>2

\* Reading past the end of a string reads its terminator.
LEMMA AtType ==
    ASSUME NEW s \in Seq(Char), NEW i \in Nat
    PROVE  At(s, i) \in Char
<1>1. 0 \in Char
    BY DEF Char
<1> QED
    BY <1>1 DEF At

\* The values of each kind.
LEMMA LgeValues ==
    ASSUME NEW arg, At(arg, 5) \in Int
    PROVE  /\ LgeValue("tv bool", TRUE, arg) = Atoi(arg)
           /\ LgeValue("tv int", TRUE, arg) = Strtol(arg, 16)
           /\ LgeValue("tv band", TRUE, arg) = At(arg, 5) - 48
           /\ LgeValue("tv channel", TRUE, arg) = TvChannel(arg)
           /\ LgeValue("tv source", TRUE, arg) = TvSource(Strtol(arg, 16))
BY SMT DEF LgeValue

\* What the LG driver makes of an answer that is NG is an integer.
LEMMA LgeNo ==
    ASSUME NEW arg, NEW k
    PROVE  LgeValue(k, FALSE, arg) \in Int
BY SMT DEF LgeValue, Least

\* Which function of the Marantz driver reads which kind of value.
LEMMA MaValues ==
    ASSUME NEW arg
    PROVE  /\ MaValue("bool", arg) = MaBool(arg, 1)
           /\ MaValue("tone on", arg) = MaBool(arg, 1)
           /\ MaValue("int", arg) = Atoi(arg)
           /\ MaValue("direct", arg) = At(arg, 1)
           /\ MaValue("second", arg) = At(arg, 2)
           /\ MaValue("string", arg) = MaString(arg)
           /\ MaValue("volume", arg) = MaVolume(arg)
           /\ MaValue("band", arg) = TunerBand(Atoi(arg))
           /\ MaValue("category", arg) = Atoi(SubSeq(arg, 2, Len(arg)))
           /\ MaValue("tone auto", arg) \in {0, 1}
           /\ MaValue("tone channel", arg) \in {0, At(arg, 3)}
           /\ MaValue("trigger", arg) = MaBool(arg, 2)
BY SMT DEF MaValue

\* What is notified of every kind but strings is an integer, whatever the device says.
LEMMA ValueType ==
    ASSUME NEW k \in Kind \ {"silent", "string"}, NEW s \in Saying
    PROVE  Value(k, s) \in Int
<1> DEFINE arg == s.arg
<1>1. arg \in Seq(Char) /\ s.ok \in BOOLEAN
    BY DEF Saying
<1> HIDE DEF arg
<1>2. Atoi(arg) \in Int /\ Strtol(arg, 16) \in Int
    BY <1>1, StrtolType DEF Atoi
<1>3. /\ At(arg, 1) \in Int /\ At(arg, 2) \in Int /\ At(arg, 3) \in Int /\ At(arg, 5) \in Int
  <2>1. Char \subseteq Int
      BY DEF Char
  <2> QED
      BY <1>1, <2>1, AtType
<1>4. SubSeq(arg, 2, Len(arg)) \in Seq(Char)
    BY <1>1
<1>5. Atoi(SubSeq(arg, 2, Len(arg))) \in Int
    BY <1>4, StrtolType DEF Atoi
<1>6. CASE k \in LgeKind
  <2>2. TvChannel(arg) \in Int
    <3>1. \A i \in 1 .. 4 : At(arg, i) \in Char
        BY <1>1, AtType
    <3>2. /\ ChannelDigit(At(arg, 1)) \in Int /\ ChannelDigit(At(arg, 2)) \in Int
          /\ ChannelDigit(At(arg, 3)) \in Int /\ ChannelDigit(At(arg, 4)) \in Int
        BY <3>1, ChannelDigitType
    <3> QED
        BY <3>2 DEF TvChannel
  <2>3. TvSource(Strtol(arg, 16)) \in Int
      BY <1>2 DEF TvSource
  <2>4. Value(k, s) = LgeValue(k, s.ok, arg)
      BY <1>6 DEF Value, arg
  <2>5. CASE s.ok = FALSE
      BY <2>4, <2>5, LgeNo
  <2>6. CASE s.ok = TRUE
    <3>1. CASE k = "tv bool"
        BY <1>2, <1>3, <2>4, <2>6, <3>1, LgeValues
    <3>2. CASE k = "tv int"
        BY <1>2, <1>3, <2>4, <2>6, <3>2, LgeValues
    <3>3. CASE k = "tv band"
      <4>1. At(arg, 5) - 48 \in Int
          BY <1>3
      <4> QED
          BY <1>3, <2>4, <2>6, <3>3, <4>1, LgeValues
    <3>4. CASE k = "tv channel"
        BY <1>3, <2>2, <2>4, <2>6, <3>4, LgeValues
    <3>5. CASE k = "tv source"
        BY <1>3, <2>3, <2>4, <2>6, <3>5, LgeValues
    <3> QED
        BY <1>6, <3>1, <3>2, <3>3, <3>4, <3>5 DEF LgeKind
  <2> QED
      BY <1>1, <2>5, <2>6
<1>7. CASE k \notin LgeKind
  <2>1. Value(k, s) = MaValue(k, arg)
      BY <1>7 DEF Value, arg
  <2>2. \A i : MaBool(arg, i) \in {0, 1}
      BY DEF MaBool
  <2>3. MaVolume(arg) \in Int
      BY <1>2 DEF MaVolume, Least
  <2>4. TunerBand(Atoi(arg)) \in Int
      BY <1>2 DEF TunerBand
  <2>5. k \in MaKind \ {"string"}
      BY <1>7 DEF Kind
  <2> HIDE DEF arg
  <2>6. CASE k \in {"bool", "tone on", "trigger"}
    <3>1. MaBool(arg, 1) \in Int /\ MaBool(arg, 2) \in Int
        BY <2>2
    <3>2. MaValue(k, arg) \in {MaBool(arg, 1), MaBool(arg, 2)}
        BY <2>6, MaValues
    <3> QED
        BY <2>1, <3>1, <3>2
  <2>7. CASE k \in {"int", "category"}
      BY ZenonT(40), <1>2, <1>5, <2>1, <2>7, MaValues
  <2>8. CASE k \in {"direct", "second"}
      BY <1>3, <2>1, <2>8, MaValues
  <2>9. CASE k \in {"volume", "band"}
    <3>1. MaValue(k, arg) \in {MaVolume(arg), TunerBand(Atoi(arg))}
        BY <2>9, MaValues
    <3> QED
        BY <2>1, <2>3, <2>4, <3>1
  <2>10. CASE k \in {"tone auto", "tone channel"}
    <3>1. MaValue(k, arg) \in {0, 1, At(arg, 3)}
        BY <2>10, MaValues
    <3> QED
        BY <1>3, <2>1, <3>1
  <2> QED
      BY <2>5, <2>6, <2>7, <2>8, <2>9, <2>10 DEF MaKind
<1> QED
    BY <1>6, <1>7

\* A string without the blanks at its end is a string.
LEMMA MaStringType ==
    ASSUME NEW s \in Seq(Char)
    PROVE  MaString(s) \in Seq(Char)
<1> DEFINE Blank(n) == \A i \in n + 1 .. Len(s) : s[i] = 32
           M == { n \in 0 .. Len(s) : Blank(n) }
<1>1. Len(s) \in Nat
    OBVIOUS
<1>2. M \in SUBSET Nat /\ Len(s) \in M
    BY <1>1
<1>3. PICK m \in M : \A n \in M : m <= n
  <2> HIDE DEF M
  <2> QED
      BY <1>2, LeastElement
<1>4. m \in 0 .. Len(s) /\ Blank(m)
    OBVIOUS
<1>5. m > 0 => s[m] # 32
  <2> SUFFICES ASSUME m > 0, s[m] = 32
               PROVE  FALSE
      OBVIOUS
  <2>1. m - 1 \in 0 .. Len(s) /\ Blank(m - 1)
      BY <1>1, <1>4
  <2>2. m - 1 \in M /\ m \in Int
      BY <2>1
  <2>3. m <= m - 1
      BY <1>3, <2>2
  <2> QED
      BY <2>2, <2>3
<1>6. \E n \in 0 .. Len(s) : Blank(n) /\ (n > 0 => s[n] # 32)
    BY <1>4, <1>5
<1> HIDE DEF Blank
<1> DEFINE cut == CHOOSE n \in 0 .. Len(s) : Blank(n) /\ (n > 0 => s[n] # 32)
<1>7. cut \in 0 .. Len(s)
    BY <1>6
<1>8. MaString(s) = SubSeq(s, 1, cut)
    BY DEF MaString, Blank
<1> HIDE DEF cut
<1> QED
    BY <1>1, <1>7, <1>8

\* So what is written in a STAT is characters, and what is shown of it is the value, as far as 24 bits hold it.
LEMMA PayloadType ==
    ASSUME NEW k \in Kind \ {"silent"}, NEW s \in Saying
    PROVE  /\ Payload(k, Value(k, s)) \in Seq(Char)
           /\ Shows(k, Payload(k, Value(k, s))) = Held(k, Value(k, s))
<1>1. CASE k = "string"
  <2>1. Value(k, s) = MaString(s.arg)
      BY <1>1, MaValues DEF Value, LgeKind
  <2> QED
      BY <1>1, <2>1, MaStringType DEF Payload, Shows, Held, Saying
<1>2. CASE k # "string"
  <2>1. Value(k, s) \in Int
      BY <1>2, ValueType
  <2> QED
      BY <1>2, <2>1, Base64Type, RoundTrip DEF Payload, Shows, Held
<1> QED
    BY <1>1, <1>2

-----------------------------------------------------------------------------
(* cli_notify.c: lines and sequences.                                      *)

\* The lines cli_notify.c sends are those of the protocol.
LEMMA RequestTypes ==
    /\ \A l \in Request : /\ l.op \in {"QSTS", "STRT", "STOP"}
                          /\ l.op = "QSTS" => l.codes \in SUBSET Code
                          /\ l.op \in {"STRT", "STOP"} => l.code \in Code
    /\ \A C \in SUBSET Code : [op |-> "QSTS", codes |-> C] \in Request
    /\ \A c \in Code : /\ [op |-> "STRT", code |-> c] \in Request
                       /\ [op |-> "STOP", code |-> c] \in Request
BY DEF Request

\* So are the lines the serverside sends.
LEMMA AnswerTypes ==
    /\ \A C \in SUBSET Code : [op |-> "QSTS", codes |-> C] \in Answer
    /\ [op |-> "EDIS"] \in Answer
    /\ \A c \in Code : \A v \in Seq(Char) : [op |-> "STAT", code |-> c, val |-> v] \in Answer
BY DEF Answer

\* What one more element adds to the set of a sequence.
LEMMA ToSetAppend ==
    ASSUME NEW S, NEW s \in Seq(S), NEW x
    PROVE  ToSet(Append(s, x)) = ToSet(s) \union {x}
<1>1. /\ DOMAIN Append(s, x) = 1 .. Len(s) + 1 /\ DOMAIN s = 1 .. Len(s) /\ Len(s) \in Nat
      /\ Append(s, x)[Len(s) + 1] = x
      /\ \A i \in 1 .. Len(s) : Append(s, x)[i] = s[i]
    OBVIOUS
<1> QED
    BY <1>1 DEF ToSet

\* remove_at of the notifies leaves all but one.
LEMMA ToSetRemove ==
    ASSUME NEW S, NEW s \in Seq(S), NEW i \in DOMAIN s
    PROVE  /\ RemoveAt(s, i) \in Seq(S)
           /\ ToSet(RemoveAt(s, i)) \subseteq ToSet(s)
           /\ ToSet(s) \subseteq ToSet(RemoveAt(s, i)) \union {s[i]}
           /\ \A x : Contains(RemoveAt(s, i), x) <=> x \in ToSet(RemoveAt(s, i))
<1> DEFINE a == SubSeq(s, 1, i - 1)
           b == SubSeq(s, i + 1, Len(s))
           r == a \o b
<1>1. Len(s) \in Nat /\ DOMAIN s = 1 .. Len(s) /\ i \in 1 .. Len(s) /\ \A j \in 1 .. Len(s) : s[j] \in S
    OBVIOUS
<1>2. a \in Seq(S) /\ Len(a) = i - 1 /\ \A j \in 1 .. i - 1 : a[j] = s[j]
    BY <1>1
<1>3. b \in Seq(S) /\ Len(b) = Len(s) - i /\ \A j \in 1 .. Len(s) - i : b[j] = s[i + j]
  <2>1. /\ b \in Seq(S)
        /\ Len(b) = IF i + 1 <= Len(s) THEN Len(s) - (i + 1) + 1 ELSE 0
        /\ \A j \in 1 .. Len(s) - (i + 1) + 1 : b[j] = s[(i + 1) + j - 1]
      BY <1>1, SubSeqProperties
  <2> HIDE DEF b
  <2>2. ASSUME NEW j \in 1 .. Len(s) - i
        PROVE  b[j] = s[i + j]
    <3>1. j \in 1 .. Len(s) - (i + 1) + 1 /\ (i + 1) + j - 1 = i + j
        BY <1>1
    <3> QED
        BY <2>1, <3>1
  <2>3. Len(b) = Len(s) - i
      BY <1>1, <2>1
  <2> QED
      BY <2>1, <2>2, <2>3
<1> HIDE DEF a, b
<1>4. /\ r \in Seq(S) /\ Len(r) = Len(a) + Len(b)
      /\ \A j \in 1 .. Len(a) + Len(b) : r[j] = IF j <= Len(a) THEN a[j] ELSE b[j - Len(a)]
    BY <1>2, <1>3, ConcatProperties
<1>5. RemoveAt(s, i) = r
    BY DEF RemoveAt, a, b
<1> HIDE DEF r
<1>6. /\ DOMAIN r = 1 .. Len(s) - 1
      /\ \A j \in 1 .. Len(s) - 1 : r[j] = IF j <= i - 1 THEN a[j] ELSE b[j - (i - 1)]
  <2>1. Len(a) = i - 1 /\ Len(a) + Len(b) = Len(s) - 1
      BY <1>1, <1>2, <1>3
  <2> QED
      BY <1>4, <2>1
<1>7. ASSUME NEW j \in 1 .. Len(s) - 1
      PROVE  \E k \in 1 .. Len(s) : k # i /\ r[j] = s[k]
  <2>1. CASE j <= i - 1
      BY <1>1, <1>2, <1>6, <2>1
  <2>2. CASE j > i - 1
    <3>1. j - (i - 1) \in 1 .. Len(s) - i /\ i + (j - (i - 1)) = j + 1
        BY <1>1, <2>2
    <3>2. r[j] = b[j - (i - 1)]
        BY <1>1, <1>6, <2>2
    <3>3. b[j - (i - 1)] = s[i + (j - (i - 1))]
        BY <1>3, <3>1
    <3>4. j + 1 \in 1 .. Len(s) /\ j + 1 # i
        BY <1>1, <2>2
    <3> QED
        BY <3>1, <3>2, <3>3, <3>4
  <2>3. j <= i - 1 \/ j > i - 1
      BY <1>1
  <2> QED
      BY <2>1, <2>2, <2>3
<1>8. ASSUME NEW k \in 1 .. Len(s), k # i
      PROVE  \E j \in 1 .. Len(s) - 1 : r[j] = s[k]
  <2>1. CASE k < i
    <3>1. k \in 1 .. Len(s) - 1 /\ r[k] = s[k]
        BY <1>1, <1>2, <1>6, <2>1
    <3> QED
        BY <3>1
  <2>2. CASE k > i
    <3>1. k - 1 \in 1 .. Len(s) - 1 /\ k - 1 > i - 1 /\ k - i \in 1 .. Len(s) - i /\ (k - 1) - (i - 1) = k - i
          /\ i + (k - i) = k
        BY <1>1, <2>2
    <3>2. r[k - 1] = b[k - i]
        BY <1>1, <1>6, <3>1
    <3>3. b[k - i] = s[i + (k - i)]
        BY <1>3, <3>1
    <3> QED
        BY <3>1, <3>2, <3>3
  <2>3. k < i \/ k > i
      BY <1>1, <1>8
  <2> QED
      BY <2>1, <2>2, <2>3
<1>9. ToSet(r) \subseteq ToSet(s) /\ ToSet(s) \subseteq ToSet(r) \union {s[i]}
  <2>1. ToSet(r) = { r[j] : j \in 1 .. Len(s) - 1 } /\ ToSet(s) = { s[j] : j \in 1 .. Len(s) }
      BY <1>1, <1>6 DEF ToSet
  <2>2. ASSUME NEW k \in 1 .. Len(s)
        PROVE  s[k] \in ToSet(r) \union {s[i]}
    <3>1. CASE k = i
        BY <3>1
    <3>2. CASE k # i
        BY <1>8, <2>1, <3>2
    <3> QED
        BY <3>1, <3>2
  <2> QED
      BY <1>7, <2>1, <2>2
<1>10. Len(r) = Len(s) - 1
    BY <1>1, <1>2, <1>3, <1>4
<1>11. \A x : Contains(r, x) <=> x \in ToSet(r)
    BY <1>1, <1>6, <1>10 DEF Contains, ToSet
<1> QED
    BY <1>4, <1>5, <1>9, <1>11

\* The lines about a code, when a line is written and when lines are read.
IsTell(l, c) == l.op \in {"STRT", "STOP"} /\ l.code = c
IsStat(l, c) == l.op = "STAT" /\ l.code = c

\* The lines that subscribe to a code or end that stay where they are ...
LEMMA TellsKept ==
    ASSUME toServer' = toServer
    PROVE  \A c : Tells(c)' = Tells(c)
BY DEF Tells

\* ... as do the STATs of a code.
LEMMA StatsKept ==
    ASSUME toClient' = toClient
    PROVE  \A c : Stats(c)' = Stats(c)
BY DEF Stats

\* A line more to the server is the last of those that say something of a code, if it does.
LEMMA TellsAppend ==
    ASSUME NEW l, toServer \in Seq(Request), toServer' = Append(toServer, l), NEW c
    PROVE  /\ Tells(c)' = IF IsTell(l, c) THEN Tells(c) \union {Len(toServer) + 1} ELSE Tells(c)
           /\ \A i \in Tells(c) : i \in 1 .. Len(toServer) /\ toServer'[i] = toServer[i]
           /\ toServer'[Len(toServer) + 1] = l /\ Len(toServer) \in Nat
<1>1. /\ DOMAIN toServer' = 1 .. Len(toServer) + 1 /\ DOMAIN toServer = 1 .. Len(toServer)
      /\ Len(toServer) \in Nat /\ toServer'[Len(toServer) + 1] = l
      /\ \A i \in 1 .. Len(toServer) : toServer'[i] = toServer[i]
    OBVIOUS
<1>2. Len(toServer) + 1 \notin 1 .. Len(toServer)
    BY <1>1
<1> QED
    BY <1>1, <1>2 DEF Tells, IsTell

\* A line more to the client is the last STAT of a code, if it is one.
LEMMA StatsAppend ==
    ASSUME NEW l, toClient \in Seq(Answer), toClient' = Append(toClient, l), NEW c
    PROVE  /\ Stats(c)' = IF IsStat(l, c) THEN Stats(c) \union {Len(toClient) + 1} ELSE Stats(c)
           /\ \A i \in Stats(c) : i \in 1 .. Len(toClient) /\ toClient'[i] = toClient[i]
           /\ toClient'[Len(toClient) + 1] = l /\ Len(toClient) \in Nat
<1>1. /\ DOMAIN toClient' = 1 .. Len(toClient) + 1 /\ DOMAIN toClient = 1 .. Len(toClient)
      /\ Len(toClient) \in Nat /\ toClient'[Len(toClient) + 1] = l
      /\ \A i \in 1 .. Len(toClient) : toClient'[i] = toClient[i]
    OBVIOUS
<1>2. Len(toClient) + 1 \notin 1 .. Len(toClient)
    BY <1>1
<1> QED
    BY <1>1, <1>2 DEF Stats, IsStat

\* When the server reads a line, the others move up by one ...
LEMMA TellsTail ==
    ASSUME toServer \in Seq(Request), toServer # <<>>, toServer' = Tail(toServer), NEW c
    PROVE  /\ \A i : i \in Tells(c)' <=> i \in Nat \ {0} /\ i + 1 \in Tells(c)
           /\ \A i \in Tells(c)' : toServer'[i] = toServer[i + 1]
           /\ \A i \in Tells(c) : i \in Nat \ {0}
<1>1. /\ DOMAIN toServer' = 1 .. Len(toServer) - 1 /\ DOMAIN toServer = 1 .. Len(toServer)
      /\ Len(toServer) \in Nat
      /\ \A i \in 1 .. Len(toServer) - 1 : toServer'[i] = toServer[i + 1]
    OBVIOUS
<1>2. \A i : i \in 1 .. Len(toServer) - 1 <=> i \in Nat \ {0} /\ i + 1 \in 1 .. Len(toServer)
    BY <1>1
<1> QED
    BY <1>1, <1>2 DEF Tells

\* ... and when the client reads n lines, the others move up by n.
LEMMA StatsDrop ==
    ASSUME toClient \in Seq(Answer), NEW n \in 1 .. Len(toClient), NEW c,
           toClient' = SubSeq(toClient, n + 1, Len(toClient))
    PROVE  /\ toClient' \in Seq(Answer)
           /\ \A i : i \in Stats(c)' <=> i \in Nat \ {0} /\ i + n \in Stats(c)
           /\ \A i \in Stats(c)' : toClient'[i] = toClient[i + n]
           /\ \A i \in Stats(c) : i \in Nat \ {0}
           /\ \A i \in DOMAIN toClient' : i + n \in DOMAIN toClient /\ toClient'[i] = toClient[i + n]
<1>1. Len(toClient) \in Nat /\ DOMAIN toClient = 1 .. Len(toClient) /\ n \in Nat /\ n <= Len(toClient)
    OBVIOUS
<1>2. /\ toClient' \in Seq(Answer)
      /\ Len(toClient') = IF n + 1 <= Len(toClient) THEN Len(toClient) - (n + 1) + 1 ELSE 0
      /\ \A j \in 1 .. Len(toClient) - (n + 1) + 1 : toClient'[j] = toClient[(n + 1) + j - 1]
  <2>1. \A i \in n + 1 .. Len(toClient) : toClient[i] \in Answer
      BY <1>1
  <2> QED
      BY <1>1, <2>1, SubSeqProperties
<1>3. /\ DOMAIN toClient' = 1 .. Len(toClient) - n
      /\ \A i \in 1 .. Len(toClient) - n : toClient'[i] = toClient[i + n]
    BY <1>1, <1>2
<1>4. \A i : i \in 1 .. Len(toClient) - n <=> i \in Nat \ {0} /\ i + n \in 1 .. Len(toClient)
    BY <1>1
<1> QED
    BY <1>1, <1>2, <1>3, <1>4 DEF Stats

-----------------------------------------------------------------------------
(* cli_notify.c: the parts of the invariant, of one code.                  *)

Follows(c, T, q, N, C) ==
    /\ T = {} => (c \in C <=> c \in N)
    /\ \A i \in T : (\A j \in T : j <= i) => (q[i].op = "STRT" <=> c \in N)

Fresh(S, q, sd, sh, k) ==
    /\ S = {} => \/ sd = NoValue /\ sh = NoValue
                 \/ sd # NoValue /\ sh = Held(k, Value(k, sd))
    /\ \A i \in S : (\A j \in S : j <= i) =>
          sd # NoValue /\ q[i].val = Payload(k, Value(k, sd))

Excused == IF Several THEN dropped ELSE {}

\* SubscriptionsFollow, of one code at a time, now and after a step.
LEMMA FollowsIs ==
    /\ SubscriptionsFollow <=>
          (refused = {} => \A c \in Code : Follows(c, Tells(c), toServer, ToSet(notifies), codes))
    /\ SubscriptionsFollow' <=>
          (refused' = {} =>
              \A c \in Code : Follows(c, Tells(c)', toServer', ToSet(notifies'), codes'))
BY DEF SubscriptionsFollow, Follows, IsLast, ToSet

\* LatestUnderWay, of one code at a time, now and after a step.
LEMMA FreshIs ==
    /\ LatestUnderWay <=>
          (client \notin Ended =>
              \A c \in ToSet(notifies) \ Excused :
                  kind[c] # "silent" => Fresh(Stats(c), toClient, said[c], shown[c], kind[c]))
    /\ LatestUnderWay' <=>
          (client' \notin Ended =>
              \A c \in ToSet(notifies') \ Excused' :
                  kind'[c] # "silent" => Fresh(Stats(c)', toClient', said'[c], shown'[c], kind'[c]))
BY DEF LatestUnderWay, Fresh, Excused, IsLast, ToSet, Ended

\* A code that nothing was said of, after a step.
LEMMA UntouchedIs ==
    \A c : Untouched(c)' <=>
        /\ Tells(c)' = {} /\ Stats(c)' = {} /\ c \notin codes' /\ owed'[c] = 0
        /\ said'[c] = NoValue /\ shown'[c] = NoValue
BY DEF Untouched

\* Steady after a step.
LEMMA SteadyIs ==
    Steady' <=> \A c \in ToSet(notifies') : /\ \A i \in Tells(c)' : toServer'[i].op = "STRT"
                                            /\ owed'[c] > 0 => c \in codes'
BY DEF Steady, ToSet

\* The client writes a line.
LEMMA FollowsAppend ==
    ASSUME SubscriptionsFollow, toServer \in Seq(Request), NEW l, toServer' = Append(toServer, l),
           codes' = codes, refused' = refused,
           \/ l.op = "QSTS" /\ ToSet(notifies') = ToSet(notifies)
           \/ l.op = "STRT" /\ ToSet(notifies') = ToSet(notifies) \union {l.code}
           \/ l.op = "STOP" /\ ToSet(notifies') = ToSet(notifies) \ {l.code}
    PROVE  SubscriptionsFollow'
<1> SUFFICES ASSUME refused' = {}, NEW c \in Code
             PROVE  Follows(c, Tells(c)', toServer', ToSet(notifies'), codes')
    BY FollowsIs
<1>1. Follows(c, Tells(c), toServer, ToSet(notifies), codes)
    BY FollowsIs
<1>2. /\ Tells(c)' = IF IsTell(l, c) THEN Tells(c) \union {Len(toServer) + 1} ELSE Tells(c)
      /\ \A i \in Tells(c) : i \in 1 .. Len(toServer) /\ toServer'[i] = toServer[i]
      /\ toServer'[Len(toServer) + 1] = l /\ Len(toServer) \in Nat
    BY TellsAppend
<1> DEFINE N == ToSet(notifies)
           M == ToSet(notifies')
           n == Len(toServer) + 1
           T == Tells(c)
           U == Tells(c)'
<1> HIDE DEF N, M, n, T, U
<1>3. CASE IsTell(l, c)
  <2>1. c \in M <=> l.op = "STRT"
      BY <1>3 DEF IsTell, M
  <2>2. U = T \union {n} /\ n \in Int /\ \A i \in T : i \in Int /\ i < n
      BY <1>2, <1>3 DEF U, T, n
  <2>3. ASSUME NEW i \in U, \A j \in U : j <= i
        PROVE  i = n
    <3>1. n <= i
        BY <2>2, <2>3
    <3> QED
        BY <2>2, <3>1
  <2>4. toServer'[n].op = "STRT" <=> c \in M
      BY <1>2, <2>1 DEF n
  <2> QED
      BY <2>2, <2>3, <2>4 DEF Follows, U, M
<1>4. CASE ~IsTell(l, c)
  <2>1. c \in M <=> c \in N
      BY <1>4 DEF IsTell, M, N
  <2>2. U = T /\ \A i \in T : toServer'[i] = toServer[i]
      BY <1>2, <1>4 DEF U, T
  <2> QED
      BY <1>1, <2>1, <2>2 DEF Follows, U, T, M, N
<1> QED
    BY <1>3, <1>4

\* The server reads one.
LEMMA FollowsHandle ==
    ASSUME SubscriptionsFollow, toServer \in Seq(Request), Handle, refused' = refused
    PROVE  SubscriptionsFollow'
<1> SUFFICES ASSUME refused' = {}, NEW c \in Code
             PROVE  Follows(c, Tells(c)', toServer', ToSet(notifies'), codes')
    BY FollowsIs
<1>1. Follows(c, Tells(c), toServer, ToSet(notifies), codes)
    BY FollowsIs
<1>2. toServer # <<>> /\ toServer' = Tail(toServer) /\ notifies' = notifies
    BY DEF Handle, clientVars
<1>3. /\ \A i : i \in Tells(c)' <=> i \in Nat \ {0} /\ i + 1 \in Tells(c)
      /\ \A i \in Tells(c)' : toServer'[i] = toServer[i + 1]
      /\ \A i \in Tells(c) : i \in Nat \ {0}
    BY <1>2, TellsTail
<1>4. ~disabled
    BY DEF Handle
<1> DEFINE N == ToSet(notifies)
           T == Tells(c)
           U == Tells(c)'
<1>5. 1 \in T <=> IsTell(toServer[1], c)
    BY <1>2 DEF Tells, IsTell
<1>6. /\ 1 \in T => (c \in codes' <=> toServer[1].op = "STRT")
      /\ 1 \notin T => (c \in codes' <=> c \in codes)
    BY <1>4, <1>5 DEF Handle, IsTell
<1> HIDE DEF N, T, U
<1>7. ASSUME NEW i \in U, \A j \in U : j <= i
      PROVE  toServer'[i].op = "STRT" <=> c \in N
  <2>1. i + 1 \in T /\ i \in Nat \ {0} /\ toServer'[i] = toServer[i + 1]
      BY <1>3 DEF T, U
  <2>2. ASSUME NEW j \in T
        PROVE  j <= i + 1
    <3>1. j \in Nat \ {0}
        BY <1>3 DEF T
    <3>2. CASE j = 1
        BY <2>1, <3>2
    <3>3. CASE j # 1
      <4>1. j - 1 \in Nat \ {0} /\ (j - 1) + 1 = j
          BY <3>1, <3>3
      <4>2. j - 1 \in U
          BY <1>3, <4>1 DEF T, U
      <4> QED
          BY <1>7, <2>1, <3>1, <4>2
    <3> QED
        BY <3>2, <3>3
  <2> QED
      BY <1>1, <2>1, <2>2 DEF Follows, T, N
<1>8. ASSUME U = {}
      PROVE  c \in codes' <=> c \in N
  <2>1. \A j \in T : j = 1
    <3> SUFFICES ASSUME NEW j \in T, j # 1
                 PROVE  FALSE
        OBVIOUS
    <3>1. j \in Nat \ {0}
        BY <1>3 DEF T
    <3>2. j - 1 \in Nat \ {0} /\ (j - 1) + 1 = j
        BY <3>1
    <3>3. j - 1 \in U
        BY <1>3, <3>2 DEF T, U
    <3> QED
        BY <1>8, <3>3
  <2>2. CASE 1 \in T
    <3>1. \A j \in T : j <= 1
        BY <2>1
    <3> QED
        BY <1>1, <1>6, <2>2, <3>1 DEF Follows, T, N
  <2>3. CASE 1 \notin T
    <3>1. T = {}
        BY <2>1, <2>3
    <3> QED
        BY <1>1, <1>6, <2>3, <3>1 DEF Follows, T, N
  <2> QED
      BY <2>2, <2>3
<1> QED
    BY <1>2, <1>7, <1>8 DEF Follows, U, N

\* A step that sends nothing to the server leaves the subscriptions as they follow.
LEMMA FollowsKept ==
    ASSUME SubscriptionsFollow, toServer' = toServer, codes' = codes,
           ToSet(notifies') = ToSet(notifies), refused \subseteq refused'
    PROVE  SubscriptionsFollow'
BY FollowsIs, TellsKept

\* The server writes a line, which is the latest of its code if it is a STAT.
LEMMA FreshAppend ==
    ASSUME NEW l, toClient \in Seq(Answer), toClient' = Append(toClient, l), NEW c, NEW sh, NEW k,
           NEW sd, NEW td,
           Fresh(Stats(c), toClient, sd, sh, k),
           IF IsStat(l, c) THEN td # NoValue /\ l.val = Payload(k, Value(k, td)) ELSE td = sd
    PROVE  Fresh(Stats(c)', toClient', td, sh, k)
<1>1. /\ Stats(c)' = IF IsStat(l, c) THEN Stats(c) \union {Len(toClient) + 1} ELSE Stats(c)
      /\ \A i \in Stats(c) : i \in 1 .. Len(toClient) /\ toClient'[i] = toClient[i]
      /\ toClient'[Len(toClient) + 1] = l /\ Len(toClient) \in Nat
    BY StatsAppend
<1> DEFINE n == Len(toClient) + 1
           S == Stats(c)
           U == Stats(c)'
<1> HIDE DEF n, S, U
<1>2. CASE IsStat(l, c)
  <2>1. U = S \union {n} /\ n \in Int /\ \A i \in S : i \in Int /\ i < n
      BY <1>1, <1>2 DEF U, S, n
  <2>2. ASSUME NEW i \in U, \A j \in U : j <= i
        PROVE  i = n
    <3>1. n <= i
        BY <2>1, <2>2
    <3> QED
        BY <2>1, <3>1
  <2>3. toClient'[n] = l
      BY <1>1 DEF n
  <2> QED
      BY <1>2, <2>1, <2>2, <2>3 DEF Fresh, U
<1>3. CASE ~IsStat(l, c)
  <2>1. U = S /\ \A i \in S : toClient'[i] = toClient[i]
      BY <1>1, <1>3 DEF U, S
  <2> QED
      BY <1>3, <2>1 DEF Fresh, U, S
<1> QED
    BY <1>2, <1>3

\* The client reads n lines, none of them a STAT of c.
LEMMA FreshShift ==
    ASSUME toClient \in Seq(Answer), NEW n \in 1 .. Len(toClient), NEW c, NEW sh, NEW k, NEW sd,
           toClient' = SubSeq(toClient, n + 1, Len(toClient)),
           \A i \in Stats(c) : i > n,
           Fresh(Stats(c), toClient, sd, sh, k)
    PROVE  Fresh(Stats(c)', toClient', sd, sh, k)
<1> DEFINE S == Stats(c)
           U == Stats(c)'
<1>1. /\ \A i : i \in U <=> i \in Nat \ {0} /\ i + n \in S
      /\ \A i \in U : toClient'[i] = toClient[i + n]
      /\ \A i \in S : i \in Nat \ {0} /\ i > n
    BY StatsDrop
<1> HIDE DEF S, U
<1>2. n \in Nat
    OBVIOUS
<1>3. ASSUME NEW j \in S
      PROVE  j \in Nat /\ j - n \in U /\ (j - n) + n = j
  <2>1. j \in Nat /\ j - n \in Nat \ {0} /\ (j - n) + n = j
      BY <1>1, <1>2
  <2> QED
      BY <1>1, <2>1
<1>4. ASSUME U = {}
      PROVE  S = {}
    BY <1>3, <1>4
<1>5. ASSUME NEW i \in U, \A j \in U : j <= i
      PROVE  i + n \in S /\ (\A j \in S : j <= i + n) /\ toClient'[i] = toClient[i + n]
  <2>1. i \in Nat /\ i + n \in S /\ toClient'[i] = toClient[i + n]
      BY <1>1
  <2>2. ASSUME NEW j \in S
        PROVE  j <= i + n
    <3>1. j - n <= i /\ j \in Nat
        BY <1>3, <1>5
    <3> QED
        BY <1>2, <2>1, <3>1
  <2> QED
      BY <2>1, <2>2
<1>6. Fresh(S, toClient, sd, sh, k)
    BY DEF S
<1>7. Fresh(U, toClient', sd, sh, k)
    BY <1>4, <1>5, <1>6 DEF Fresh
<1> QED
    BY <1>7 DEF U

\* It reads a STAT of c, and shows it.
LEMMA FreshShown ==
    ASSUME toClient \in Seq(Answer), toClient # <<>>, NEW c, NEW sh, NEW k \in Kind \ {"silent"},
           NEW sd \in Saying \union {NoValue},
           toClient' = Tail(toClient), 1 \in Stats(c),
           Fresh(Stats(c), toClient, sd, sh, k)
    PROVE  Fresh(Stats(c)', toClient', sd, Shows(k, toClient[1].val), k)
<1> DEFINE S == Stats(c)
           U == Stats(c)'
<1>1. 1 \in 1 .. Len(toClient) /\ toClient' = SubSeq(toClient, 1 + 1, Len(toClient))
    OBVIOUS
<1>2. /\ \A i : i \in U <=> i \in Nat \ {0} /\ i + 1 \in S
      /\ \A i \in U : toClient'[i] = toClient[i + 1]
      /\ \A i \in S : i \in Nat \ {0}
    BY <1>1, StatsDrop
<1> HIDE DEF S, U
<1>3. Fresh(S, toClient, sd, sh, k) /\ 1 \in S
    BY DEF S
<1>4. ASSUME NEW j \in S
      PROVE  j \in Nat /\ (j = 1 \/ j - 1 \in U)
  <2>1. j \in Nat \ {0}
      BY <1>2
  <2>2. CASE j # 1
    <3>1. j - 1 \in Nat \ {0} /\ (j - 1) + 1 = j
        BY <2>1, <2>2
    <3> QED
        BY <1>2, <2>1, <3>1
  <2> QED
      BY <2>1, <2>2
<1>5. ASSUME U = {}
      PROVE  sd # NoValue /\ Shows(k, toClient[1].val) = Held(k, Value(k, sd))
  <2>1. \A j \in S : j <= 1
      BY <1>4, <1>5
  <2>2. sd # NoValue /\ toClient[1].val = Payload(k, Value(k, sd))
      BY <1>3, <2>1 DEF Fresh
  <2>3. Shows(k, Payload(k, Value(k, sd))) = Held(k, Value(k, sd))
      BY <2>2, PayloadType
  <2> QED
      BY <2>2, <2>3
<1>6. ASSUME NEW i \in U, \A j \in U : j <= i
      PROVE  i + 1 \in S /\ (\A j \in S : j <= i + 1) /\ toClient'[i] = toClient[i + 1]
  <2>1. i \in Nat /\ i + 1 \in S /\ toClient'[i] = toClient[i + 1]
      BY <1>2
  <2>2. ASSUME NEW j \in S
        PROVE  j <= i + 1
      BY <1>4, <1>6, <2>1
  <2> QED
      BY <2>1, <2>2
<1>7. Fresh(U, toClient', sd, Shows(k, toClient[1].val), k)
    BY <1>3, <1>5, <1>6 DEF Fresh
<1> QED
    BY <1>7 DEF U

\* A step that sends nothing to the client leaves the last STAT the last.
LEMMA FreshKept ==
    ASSUME toClient' = toClient, NEW c, NEW sh, NEW k, NEW sd,
           Fresh(Stats(c), toClient, sd, sh, k)
    PROVE  Fresh(Stats(c)', toClient', sd, sh, k)
BY StatsKept

-----------------------------------------------------------------------------
(* cli_notify.c: the invariant and the theorems.                           *)

\* Asking after a step.
LEMMA AskingIs ==
    Asking' <=> (client' \in {"ask", "reply"} =>
        /\ argi' < Len(args') /\ Len(notifies') = argi'
        /\ \A c \in Has \ ToSet(notifies') :
              /\ Tells(c)' = {} /\ Stats(c)' = {} /\ c \notin codes' /\ owed'[c] = 0
              /\ said'[c] = NoValue /\ shown'[c] = NoValue)
BY DEF Asking, Untouched, Tells, Stats, ToSet

\* OfTheDevice after a step.
LEMMA OfTheDeviceIs ==
    OfTheDevice' <=>
        /\ ToSet(notifies') \subseteq Has
        /\ \A i \in DOMAIN toClient' :
              /\ toClient'[i].op = "QSTS" => toClient'[i].codes \subseteq Has
              /\ toClient'[i].op = "STAT" => toClient'[i].code \in Has
BY DEF OfTheDevice, ToSet

\* What the types say, one by one.
LEMMA Typed ==
    ASSUME CliTypeOK
    PROVE  /\ args \in Seq(SUBSET Code) /\ Len(args) \in Nat \ {0} /\ kind \in [Has -> Kind]
           /\ \A i \in 1 .. Len(args) : args[i] \in SUBSET Code
           /\ toServer \in Seq(Request) /\ toClient \in Seq(Answer) /\ notifies \in Seq(Code)
           /\ said \in [Has -> Saying \union {NoValue}] /\ owed \in [Code -> Nat]
           /\ argi \in Nat /\ argi <= Len(args)
<1>1. args \in Seq((SUBSET Code) \ {{}}) /\ args # <<>> /\ kind \in [Has -> Kind]
  <2>1. [args |-> args, kind |-> kind] \in
            [args : Seq((SUBSET Code) \ {{}}) \ {<<>>}, kind : [Has -> Kind]]
      BY CliNotifyAssumption DEF CliTypeOK
  <2> DEFINE A == Seq((SUBSET Code) \ {{}}) \ {<<>>}
             K == [Has -> Kind]
  <2> HIDE DEF A, K
  <2>2. [args |-> args, kind |-> kind] \in [args : A, kind : K]
      BY <2>1 DEF A, K
  <2>3. args \in A /\ kind \in K
      BY <2>2
  <2> QED
      BY <2>3 DEF A, K
<1>2. Len(args) \in Nat \ {0} /\ \A i \in 1 .. Len(args) : args[i] \in SUBSET Code
    BY <1>1
<1>3. args \in Seq(SUBSET Code)
    BY <1>1
<1> QED
    BY <1>1, <1>2, <1>3 DEF CliTypeOK

\* Before anything was asked nothing is known, and nothing is on its way.
LEMMA CliInvAtFirst == CliInit => CliInv
<1> SUFFICES ASSUME CliInit
             PROVE  CliInv
    OBVIOUS
<1>1. PICK c0 \in Cases : args = c0.args /\ kind = c0.kind
    BY DEF CliInit
<1>2. [args |-> args, kind |-> kind] = c0
    BY <1>1, CliNotifyAssumption
<1>3. args \in Seq((SUBSET Code) \ {{}}) /\ args # <<>>
    BY <1>1, CliNotifyAssumption
<1>4. Len(args) \in Nat \ {0}
    BY <1>3
<1>5. MayDisable \in BOOLEAN
    BY CliNotifyAssumption
<1>6. /\ notifies \in Seq(Code) /\ toServer \in Seq(Request) /\ toClient \in Seq(Answer)
      /\ DOMAIN notifies = {} /\ DOMAIN toServer = {} /\ DOMAIN toClient = {} /\ Len(notifies) = 0
    BY DEF CliInit
<1>7. ToSet(notifies) = {} /\ (\A c : Tells(c) = {} /\ Stats(c) = {})
    BY <1>6 DEF ToSet, Tells, Stats
<1>8. CliTypeOK
  <2>1. /\ argi = 0 /\ once \in BOOLEAN /\ disabled \in BOOLEAN /\ lost \in BOOLEAN
        /\ alive \in BOOLEAN /\ client = "ask" /\ refused = {} /\ codes = {} /\ dropped = {}
      BY <1>5 DEF CliInit
  <2>2. owed \in [Code -> Nat] /\ DOMAIN shown = Has /\ said \in [Has -> Saying \union {NoValue}]
      BY DEF CliInit
  <2> QED
      BY <1>2, <1>4, <1>6, <2>1, <2>2 DEF CliTypeOK
<1>9. OfTheDevice /\ SubscriptionsFollow /\ Steady /\ LatestUnderWay
    BY <1>6, <1>7 DEF CliInit, OfTheDevice, SubscriptionsFollow, Steady, LatestUnderWay
<1>10. Asking
    BY <1>4, <1>6, <1>7, CliNotifyAssumption DEF CliInit, Asking, Untouched
<1> QED
    BY <1>8, <1>9, <1>10 DEF CliInv

\* Asking for the next argument keeps the invariant.
LEMMA AskKeeps ==
    ASSUME CliInv, Ask
    PROVE  CliInv'
<1> USE DEF CliInv
<1> DEFINE l == [op |-> "QSTS", codes |-> args[argi + 1]]
<1>1. argi + 1 \in 1 .. Len(args) /\ Len(notifies) = argi /\ argi < Len(args)
    BY Typed DEF Asking, Ask
<1>2. l \in Request
    BY <1>1, Typed, RequestTypes
<1>3. /\ toServer' = Append(toServer, l) /\ l.op = "QSTS"
      /\ client = "ask" /\ client' = "reply"
      /\ UNCHANGED <<args, kind, once, argi, notifies, shown, toClient, alive, disabled, codes,
                     owed, said, dropped, refused, lost>>
    BY DEF Ask, serverVars
<1> HIDE DEF l
<1>4. toServer' \in Seq(Request)
    BY <1>2, <1>3, Typed
<1>5. \A c : /\ Tells(c)' = Tells(c) /\ Stats(c)' = Stats(c)
             /\ \A i \in Tells(c) : toServer'[i] = toServer[i]
  <2> TAKE c
  <2>1. ~IsTell(l, c)
      BY <1>3 DEF IsTell
  <2> QED
      BY <1>3, <2>1, Typed, TellsAppend, StatsKept
<1>6. CliTypeOK'
    BY <1>3, <1>4 DEF CliTypeOK
<1>7. OfTheDevice'
    BY <1>3 DEF OfTheDevice, ToSet
<1>8. SubscriptionsFollow'
    BY <1>3, Typed, FollowsAppend
<1>9. Asking'
    BY <1>1, <1>3, <1>5, AskingIs DEF Asking, Untouched
<1>10. Steady'
    BY <1>3, <1>5, SteadyIs DEF Steady
<1>11. LatestUnderWay'
  <2>1. Excused' = Excused
      BY <1>3 DEF Excused, Several
  <2>2. client \notin Ended
      BY <1>3 DEF Ended
  <2> QED
      BY <1>3, <1>5, <2>1, <2>2, FreshIs
<1> QED
    BY <1>6, <1>7, <1>8, <1>9, <1>10, <1>11

\* A line more to the server, a STRT if it is about a code shown, leaves these steady.
LEMMA SteadyAppend ==
    ASSUME Steady, toServer \in Seq(Request), NEW l, toServer' = Append(toServer, l),
           codes' = codes, owed' = owed,
           \A c \in ToSet(notifies') : /\ c \in ToSet(notifies) \/ Untouched(c)
                                       /\ IsTell(l, c) => l.op = "STRT"
    PROVE  Steady'
<1> SUFFICES ASSUME NEW c \in ToSet(notifies')
             PROVE  /\ \A i \in Tells(c)' : toServer'[i].op = "STRT"
                    /\ owed'[c] > 0 => c \in codes'
    BY SteadyIs
<1>1. /\ Tells(c)' = IF IsTell(l, c) THEN Tells(c) \union {Len(toServer) + 1} ELSE Tells(c)
      /\ \A i \in Tells(c) : toServer'[i] = toServer[i]
      /\ toServer'[Len(toServer) + 1] = l
    BY TellsAppend
<1>2. \A i \in Tells(c) : toServer[i].op = "STRT"
    BY DEF Steady, Untouched
<1>3. \A i \in Tells(c)' : toServer'[i].op = "STRT"
    BY <1>1, <1>2
<1>4. owed[c] > 0 => c \in codes
    BY DEF Steady, Untouched
<1> QED
    BY <1>3, <1>4

\* So does the answer to it, which adds codes to those shown.
LEMMA ReplyKeeps ==
    ASSUME CliInv, NEW n \in 1 .. Len(toClient), Reply(n)
    PROVE  CliInv'
<1> USE DEF CliInv
<1>1. /\ client = "reply" /\ FilterNotifies(toClient[1])
      /\ toClient' = SubSeq(toClient, n + 1, Len(toClient))
      /\ dropped' = dropped \union
             { toClient[i].code : i \in {j \in 2 .. n : toClient[j].op = "STAT"} }
      /\ UNCHANGED <<args, kind, once, shown, alive, disabled, codes, owed, said, refused, lost>>
    BY DEF Reply, serverVars
<1>2. argi < Len(args) /\ Len(notifies) = argi /\ \A c \in Has \ ToSet(notifies) : Untouched(c)
    BY <1>1 DEF Asking
<1>3. /\ argi \in Nat /\ Len(args) \in Nat /\ argi + 1 \in 1 .. Len(args)
      /\ args[argi + 1] \in SUBSET Code
    BY <1>2, Typed
<1>4. Has \subseteq Code
    BY CliNotifyAssumption
<1>5. \A c : /\ toClient' \in Seq(Answer)
             /\ \A i : i \in Stats(c)' <=> i \in Nat \ {0} /\ i + n \in Stats(c)
             /\ \A i \in DOMAIN toClient' : i + n \in DOMAIN toClient /\ toClient'[i] = toClient[i + n]
    BY <1>1, Typed, StatsDrop
<1>6. dropped' \in SUBSET Code
  <2>1. \A i \in 2 .. n : i \in DOMAIN toClient
      BY Typed
  <2>2. \A i \in 2 .. n : toClient[i].op = "STAT" => toClient[i].code \in Code
      BY <1>4, <2>1 DEF OfTheDevice
  <2> QED
      BY <1>1, <2>2 DEF CliTypeOK
<1>7. CASE client' \in Ended /\ UNCHANGED <<argi, notifies, toServer>>
  <2>1. CliTypeOK'
    <3>1. client' \in {"ask", "reply", "listen"} \union Ended
        BY <1>7
    <3> QED
        BY <1>1, <1>5, <1>6, <1>7, <3>1 DEF CliTypeOK
  <2>2. OfTheDevice'
      BY <1>5, <1>7, OfTheDeviceIs DEF OfTheDevice
  <2>3. SubscriptionsFollow'
      BY <1>1, <1>7, FollowsKept
  <2>4. Asking' /\ LatestUnderWay'
      BY <1>7, AskingIs, FreshIs DEF Ended
  <2>5. Steady'
      BY <1>1, <1>7, SteadyIs, TellsKept DEF Steady
  <2> QED
      BY <2>1, <2>2, <2>3, <2>4, <2>5
<1>8. ASSUME NEW c \in toClient[1].codes \intersect args[argi + 1], toClient[1].op = "QSTS",
             StartNotify(c)
      PROVE  CliInv'
  <2> DEFINE l == [op |-> "STRT", code |-> c]
  <2>1. c \in Has /\ c \in Code
    <3>1. 1 \in DOMAIN toClient
        BY Typed
    <3> QED
        BY <1>3, <1>8, <3>1 DEF OfTheDevice
  <2>2. /\ notifies' = Append(notifies, c) /\ toServer' = Append(toServer, l)
        /\ l.op = "STRT" /\ l.code = c /\ l \in Request
        /\ argi' = argi + 1 /\ client' = IF argi' = Len(args) THEN "listen" ELSE "ask"
      BY <1>1, <1>8, <2>1, RequestTypes DEF StartNotify
  <2> HIDE DEF l
  <2>3. ToSet(notifies') = ToSet(notifies) \union {c}
      BY <2>2, Typed, ToSetAppend
  <2>4. notifies' \in Seq(Code) /\ toServer' \in Seq(Request) /\ Len(notifies') = argi'
      BY <1>2, <2>1, <2>2, Typed
  <2>5. CliTypeOK'
    <3>1. client' \in {"ask", "reply", "listen"} \union Ended /\ argi' \in 0 .. Len(args')
        BY <1>1, <1>3, <2>2
    <3> QED
        BY <1>1, <1>5, <1>6, <2>4, <3>1 DEF CliTypeOK
  <2>6. OfTheDevice'
      BY <1>5, <2>1, <2>3, OfTheDeviceIs DEF OfTheDevice
  <2>7. SubscriptionsFollow'
      BY <1>1, <2>2, <2>3, Typed, FollowsAppend
  <2>8. Asking'
    <3>1. client' \in {"ask", "reply"} => argi' < Len(args')
        BY <1>1, <1>3, <2>2
    <3>2. ASSUME NEW d \in Has \ ToSet(notifies')
          PROVE  /\ Tells(d)' = {} /\ Stats(d)' = {} /\ d \notin codes' /\ owed'[d] = 0
                 /\ said'[d] = NoValue /\ shown'[d] = NoValue
      <4>1. Untouched(d) /\ ~IsTell(l, d)
          BY <1>2, <2>2, <2>3, <3>2 DEF IsTell
      <4>2. Tells(d)' = Tells(d)
          BY <2>2, <4>1, Typed, TellsAppend
      <4> QED
          BY <1>1, <1>5, <4>1, <4>2 DEF Untouched
    <3> QED
        BY <2>4, <3>1, <3>2, AskingIs
  <2>9. Steady'
    <3>1. \A d \in ToSet(notifies') : /\ d \in ToSet(notifies) \/ Untouched(d)
                                      /\ IsTell(l, d) => l.op = "STRT"
        BY <1>2, <2>1, <2>2, <2>3
    <3> QED
        BY <1>1, <2>2, <3>1, Typed, SteadyAppend
  <2>10. LatestUnderWay'
    <3> SUFFICES ASSUME NEW d \in ToSet(notifies') \ Excused', kind[d] # "silent"
                 PROVE  Fresh(Stats(d)', toClient', said[d], shown[d], kind[d])
        BY <1>1, FreshIs
    <3>1. CASE d \notin ToSet(notifies)
      <4>1. Untouched(d)
          BY <1>2, <2>1, <2>3, <3>1
      <4> QED
          BY <1>5, <4>1 DEF Untouched, Fresh
    <3>2. CASE d \in ToSet(notifies)
      <4>1. Len(notifies) # 0
          BY <3>2, Typed DEF ToSet
      <4>2. Several /\ Several'
          BY <1>1, <1>2, <1>3, <4>1 DEF Several
      <4>3. d \notin Excused /\ d \notin dropped'
          BY <1>1, <4>2 DEF Excused
      <4>4. client \notin Ended
          BY <1>1 DEF Ended
      <4>5. Fresh(Stats(d), toClient, said[d], shown[d], kind[d])
          BY <3>2, <4>3, <4>4, FreshIs
      <4>6. ASSUME NEW i \in Stats(d)
            PROVE  i > n
        <5>1. i \in 1 .. Len(toClient) /\ toClient[i].op = "STAT" /\ toClient[i].code = d
            BY Typed DEF Stats
        <5>2. i # 1
            BY <1>8, <5>1
        <5>3. i \notin 2 .. n
            BY <1>1, <4>3, <5>1
        <5> QED
            BY <5>1, <5>2, <5>3
      <4> QED
          BY <1>1, <4>5, <4>6, Typed, FreshShift
    <3> QED
        BY <3>1, <3>2
  <2> QED
      BY <2>5, <2>6, <2>7, <2>8, <2>9, <2>10
<1> QED
  <2>1. \/ client' \in Ended /\ UNCHANGED <<argi, notifies, toServer>>
        \/ toClient[1].op = "QSTS" /\ \E c \in toClient[1].codes \intersect args[argi + 1] : StartNotify(c)
      BY <1>1 DEF FilterNotifies, Ends, Ended
  <2> QED
      BY <1>7, <1>8, <2>1

\* So does a line read while the client waits.
LEMMA ListenKeeps ==
    ASSUME CliInv, Listen
    PROVE  CliInv'
<1> USE DEF CliInv
<1> DEFINE l == toClient[1]
<1>1. /\ client = "listen" /\ toClient # <<>> /\ toClient' = Tail(toClient)
      /\ UNCHANGED <<args, kind, once, argi, alive, disabled, codes, owed, said, dropped, refused, lost>>
    BY DEF Listen, serverVars
<1>2. 1 \in 1 .. Len(toClient) /\ toClient' = SubSeq(toClient, 1 + 1, Len(toClient))
    BY <1>1, Typed
<1>3. \A i \in Matching(l) : /\ i \in DOMAIN notifies /\ l.op = "STAT" /\ notifies[i] = l.code
                             /\ l.code \in ToSet(notifies)
    BY DEF Matching, ToSet
<1>4. \A c \in ToSet(notifies) : IsStat(l, c) => Matching(l) # {}
    BY DEF Matching, ToSet, IsStat
<1>5. shown' = IF Matching(l) = {} THEN shown
               ELSE [shown EXCEPT ![l.code] = Shows(kind[l.code], l.val)]
    BY DEF Listen
<1>6. \/ \E i \in Matching(l) : StopNotify(i)
      \/ UNCHANGED <<notifies, toServer, client>>
    BY DEF Listen
<1>7. \A c : /\ toClient' \in Seq(Answer)
             /\ \A i : i \in Stats(c)' <=> i \in Nat \ {0} /\ i + 1 \in Stats(c)
             /\ \A i \in DOMAIN toClient' : i + 1 \in DOMAIN toClient /\ toClient'[i] = toClient[i + 1]
    BY <1>2, Typed, StatsDrop
<1>8. /\ notifies' \in Seq(Code) /\ ToSet(notifies') \subseteq ToSet(notifies)
      /\ toServer' \in Seq(Request)
      /\ SubscriptionsFollow' /\ Steady' /\ client' \in {"listen", "done"}
  <2>1. CASE UNCHANGED <<notifies, toServer, client>>
    <3>1. ToSet(notifies') = ToSet(notifies)
        BY <2>1 DEF ToSet
    <3>2. SubscriptionsFollow'
        BY <1>1, <2>1, <3>1, FollowsKept
    <3>3. Steady'
        BY <1>1, <2>1, SteadyIs, TellsKept DEF Steady
    <3> QED
        BY <1>1, <2>1, <3>1, <3>2, <3>3, Typed
  <2>2. ASSUME NEW i \in Matching(l), StopNotify(i)
        PROVE  /\ notifies' \in Seq(Code) /\ ToSet(notifies') \subseteq ToSet(notifies)
               /\ toServer' \in Seq(Request)
               /\ SubscriptionsFollow' /\ Steady' /\ client' \in {"listen", "done"}
    <3> DEFINE m == [op |-> "STOP", code |-> notifies[i]]
    <3>1. i \in DOMAIN notifies /\ notifies[i] \in Code /\ m \in Request
      <4>1. i \in DOMAIN notifies
          BY <1>3
      <4>2. notifies[i] \in Code
          BY <4>1, Typed
      <4> QED
          BY <4>1, <4>2, RequestTypes
    <3>2. /\ notifies' = RemoveAt(notifies, i)
          /\ toServer' = IF Contains(notifies', notifies[i]) THEN toServer ELSE Append(toServer, m)
          /\ client' \in {"listen", "done"} /\ m.op = "STOP" /\ m.code = notifies[i]
        BY <1>1, <2>2 DEF StopNotify
    <3> HIDE DEF m
    <3>3. /\ notifies' \in Seq(Code) /\ ToSet(notifies') \subseteq ToSet(notifies)
          /\ ToSet(notifies) \subseteq ToSet(notifies') \union {notifies[i]}
          /\ Contains(notifies', notifies[i]) <=> notifies[i] \in ToSet(notifies')
        BY <3>1, <3>2, Typed, ToSetRemove
    <3>4. CASE Contains(notifies', notifies[i])
      <4>1. toServer' = toServer /\ ToSet(notifies') = ToSet(notifies)
          BY <3>2, <3>3, <3>4
      <4>2. SubscriptionsFollow'
          BY <1>1, <4>1, FollowsKept
      <4>3. Steady'
          BY <1>1, <4>1, SteadyIs, TellsKept DEF Steady
      <4> QED
          BY <3>2, <3>3, <4>1, <4>2, <4>3, Typed
    <3>5. CASE ~Contains(notifies', notifies[i])
      <4>1. toServer' = Append(toServer, m) /\ ToSet(notifies') = ToSet(notifies) \ {m.code}
          BY <3>2, <3>3, <3>5
      <4>2. SubscriptionsFollow'
          BY <1>1, <3>2, <4>1, Typed, FollowsAppend
      <4>3. Steady'
        <5>1. \A c \in ToSet(notifies') : /\ c \in ToSet(notifies) \/ Untouched(c)
                                          /\ IsTell(m, c) => m.op = "STRT"
            BY <4>1 DEF IsTell
        <5> QED
            BY <1>1, <4>1, <5>1, Typed, SteadyAppend
      <4> QED
          BY <3>1, <3>2, <3>3, <4>1, <4>2, <4>3, Typed
    <3> QED
        BY <3>4, <3>5
  <2> QED
      BY <1>6, <2>1, <2>2
<1>9. CliTypeOK'
  <2>1. DOMAIN shown' = Has
      BY <1>5 DEF CliTypeOK
  <2>2. client' \in {"ask", "reply", "listen"} \union Ended
      BY <1>8 DEF Ended
  <2> QED
      BY <1>1, <1>7, <1>8, <2>1, <2>2 DEF CliTypeOK
<1>10. OfTheDevice'
    BY <1>7, <1>8, OfTheDeviceIs DEF OfTheDevice
<1>11. Asking'
    BY <1>8, AskingIs
<1>12. LatestUnderWay'
  <2>1. Excused' = Excused
      BY <1>1 DEF Excused, Several
  <2> SUFFICES ASSUME NEW c \in ToSet(notifies') \ Excused', kind[c] # "silent"
               PROVE  Fresh(Stats(c)', toClient', said[c], shown'[c], kind[c])
      BY <1>1, FreshIs
  <2>2. client \notin Ended
      BY <1>1 DEF Ended
  <2>3. c \in ToSet(notifies) /\ c \in Has
      BY <1>8 DEF OfTheDevice
  <2>4. Fresh(Stats(c), toClient, said[c], shown[c], kind[c])
      BY <2>1, <2>2, <2>3, FreshIs
  <2>5. CASE IsStat(l, c)
    <3>1. shown'[c] = Shows(kind[c], l.val)
        BY <1>4, <1>5, <2>3, <2>5 DEF IsStat, CliTypeOK
    <3>2. 1 \in Stats(c)
        BY <1>2, <2>5, Typed DEF Stats, IsStat
    <3>3. kind[c] \in Kind \ {"silent"} /\ said[c] \in Saying \union {NoValue}
        BY <2>3, Typed
    <3> QED
        BY <1>1, <2>4, <3>1, <3>2, <3>3, Typed, FreshShown
  <2>6. CASE ~IsStat(l, c)
    <3>1. shown'[c] = shown[c]
      <4>1. CASE Matching(l) # {}
        <5>1. l.op = "STAT" /\ l.code # c
            BY <1>3, <2>6, <4>1 DEF IsStat
        <5> QED
            BY <1>5, <2>3, <5>1 DEF CliTypeOK
      <4> QED
          BY <1>5, <4>1
    <3>2. ASSUME NEW i \in Stats(c)
          PROVE  i > 1
      <4>1. i \in 1 .. Len(toClient) /\ i # 1
          BY <2>6, Typed DEF Stats, IsStat
      <4> QED
          BY <4>1
    <3> QED
        BY <1>2, <2>4, <3>1, <3>2, Typed, FreshShift
  <2> QED
      BY <2>5, <2>6
<1> QED
    BY <1>8, <1>9, <1>10, <1>11, <1>12

\* So does the serverside, which takes the lines in their order.
LEMMA HandleKeeps ==
    ASSUME CliInv, Handle
    PROVE  CliInv'
<1> USE DEF CliInv
<1> DEFINE l == toServer[1]
<1>1. /\ toServer # <<>> /\ toServer' = Tail(toServer) /\ client \notin Ended
      /\ UNCHANGED <<args, kind, once, client, argi, notifies, shown, alive, disabled, said,
                     dropped, lost>>
    BY DEF Handle, Connected, clientVars
<1>2. l \in Request /\ 1 \in DOMAIN toServer /\ toServer' \in Seq(Request)
    BY <1>1, Typed
<1>3. \A c : /\ \A i : i \in Tells(c)' <=> i \in Nat \ {0} /\ i + 1 \in Tells(c)
             /\ \A i \in Tells(c)' : toServer'[i] = toServer[i + 1]
    BY <1>1, Typed, TellsTail
<1>4. \A c : IsTell(l, c) => 1 \in Tells(c)
    BY <1>2 DEF Tells, IsTell
<1>5. ToSet(notifies') = ToSet(notifies)
    BY <1>1 DEF ToSet
\* What is answered.
<1>6. \/ toClient' = toClient
      \/ \E a \in Answer : /\ toClient' = Append(toClient, a) /\ a.op # "STAT"
                           /\ a.op = "QSTS" => a.codes \subseteq Has
  <2>1. CASE disabled
    <3> DEFINE a == [op |-> "EDIS"]
    <3>1. toClient' = Append(toClient, a) /\ a \in Answer /\ a.op = "EDIS"
        BY <2>1, AnswerTypes DEF Handle
    <3> HIDE DEF a
    <3> QED
        BY <3>1
  <2>2. CASE ~disabled /\ l.op = "QSTS"
    <3> DEFINE a == [op |-> "QSTS", codes |-> l.codes \intersect Has]
    <3>1. l.codes \in SUBSET Code
        BY <1>2, <2>2, RequestTypes
    <3>2. toClient' = Append(toClient, a) /\ a \in Answer /\ a.op = "QSTS" /\ a.codes \subseteq Has
        BY <2>2, <3>1, AnswerTypes DEF Handle
    <3> HIDE DEF a
    <3> QED
        BY <3>2
  <2>3. CASE ~disabled /\ l.op # "QSTS"
      BY <2>3 DEF Handle
  <2> QED
      BY <2>1, <2>2, <2>3
\* What becomes of the subscriptions.
<1>7. \/ UNCHANGED <<codes, owed>>
      \/ /\ l.op = "STRT" /\ l.code \in Code /\ codes' = codes \union {l.code}
         /\ owed' = [owed EXCEPT ![l.code] = @ + 1]
      \/ l.op = "STOP" /\ l.code \in Code /\ codes' = codes \ {l.code} /\ owed' = owed
    BY <1>2, RequestTypes DEF Handle
<1>8. refused' = refused \/ refused' = refused \union {l.op}
    BY DEF Handle
<1>9. toClient' \in Seq(Answer) /\ \A c : /\ Stats(c) = {} => Stats(c)' = {}
                                          /\ \A sd, sh, k : Fresh(Stats(c), toClient, sd, sh, k) =>
                                                            Fresh(Stats(c)', toClient', sd, sh, k)
  <2>1. CASE toClient' = toClient
      BY <2>1, Typed, StatsKept
  <2>2. ASSUME NEW a \in Answer, toClient' = Append(toClient, a), a.op # "STAT"
        PROVE  /\ toClient' \in Seq(Answer)
               /\ \A c : /\ Stats(c) = {} => Stats(c)' = {}
                         /\ \A sd, sh, k : Fresh(Stats(c), toClient, sd, sh, k) =>
                                           Fresh(Stats(c)', toClient', sd, sh, k)
    <3>1. \A c : ~IsStat(a, c)
        BY <2>2 DEF IsStat
    <3>2. ASSUME NEW c, Stats(c) = {}
          PROVE  Stats(c)' = {}
        BY <2>2, <3>1, <3>2, Typed, StatsAppend
    <3>3. ASSUME NEW c, NEW sd, NEW sh, NEW k, Fresh(Stats(c), toClient, sd, sh, k)
          PROVE  Fresh(Stats(c)', toClient', sd, sh, k)
        BY <2>2, <3>1, <3>3, Typed, FreshAppend
    <3>4. toClient' \in Seq(Answer)
        BY <2>2, Typed
    <3> QED
        BY <3>2, <3>3, <3>4
  <2> QED
      BY <1>6, <2>1, <2>2
<1>10. CliTypeOK'
  <2>1. codes' \in SUBSET Code /\ owed' \in [Code -> Nat]
    <3>1. codes \in SUBSET Code /\ owed \in [Code -> Nat]
        BY DEF CliTypeOK
    <3>2. codes' \in SUBSET Code
        BY <1>7, <3>1
    <3>3. \A c \in Code : [owed EXCEPT ![c] = @ + 1] \in [Code -> Nat]
        BY <3>1
    <3> QED
        BY <1>7, <3>1, <3>2, <3>3
  <2>2. refused' \subseteq {"QSTS", "STRT", "STOP"}
      BY <1>2, <1>8, RequestTypes DEF CliTypeOK
  <2> QED
      BY <1>1, <1>2, <1>9, <2>1, <2>2 DEF CliTypeOK
<1>11. OfTheDevice'
  <2>1. CASE toClient' = toClient
      BY <1>5, <2>1, OfTheDeviceIs DEF OfTheDevice
  <2>2. ASSUME NEW a \in Answer, toClient' = Append(toClient, a), a.op # "STAT",
               a.op = "QSTS" => a.codes \subseteq Has
        PROVE  OfTheDevice'
    <3>1. /\ DOMAIN toClient' = 1 .. Len(toClient) + 1 /\ DOMAIN toClient = 1 .. Len(toClient)
          /\ toClient'[Len(toClient) + 1] = a /\ Len(toClient) \in Nat
          /\ \A i \in 1 .. Len(toClient) : toClient'[i] = toClient[i]
        BY <2>2, Typed
    <3> QED
        BY <1>5, <2>2, <3>1, OfTheDeviceIs DEF OfTheDevice
  <2> QED
      BY <1>6, <2>1, <2>2
<1>12. SubscriptionsFollow'
  <2>1. CASE refused' = {}
    <3>1. refused' = refused
        BY <1>8, <2>1
    <3> QED
        BY <3>1, Typed, FollowsHandle
  <2> QED
      BY <2>1, FollowsIs
<1>13. ASSUME NEW c \in Has, Untouched(c)
       PROVE  /\ Tells(c)' = {} /\ Stats(c)' = {} /\ c \notin codes' /\ owed'[c] = 0
              /\ said'[c] = NoValue /\ shown'[c] = NoValue
  <2>1. Tells(c)' = {} /\ ~IsTell(l, c)
      BY <1>3, <1>4, <1>13 DEF Untouched
  <2>2. c \notin codes' /\ owed'[c] = 0
    <3>1. c \in Code /\ c \notin codes /\ owed[c] = 0
        BY <1>13, CliNotifyAssumption DEF Untouched
    <3> QED
        BY <1>7, <2>1, <3>1, Typed DEF IsTell
  <2> QED
      BY <1>1, <1>9, <1>13, <2>1, <2>2 DEF Untouched
<1>14. Asking'
    BY <1>1, <1>5, <1>13, AskingIs DEF Asking
<1>15. Steady'
  <2> SUFFICES ASSUME NEW c \in ToSet(notifies')
               PROVE  /\ \A i \in Tells(c)' : toServer'[i].op = "STRT"
                      /\ owed'[c] > 0 => c \in codes'
      BY SteadyIs
  <2>1. c \in Code /\ (\A i \in Tells(c) : toServer[i].op = "STRT") /\ (owed[c] > 0 => c \in codes)
      BY <1>5, CliNotifyAssumption DEF Steady, OfTheDevice
  <2>2. IsTell(l, c) => l.op = "STRT"
      BY <1>4, <2>1
  <2>3. \A i \in Tells(c)' : toServer'[i].op = "STRT"
      BY <1>3, <2>1
  <2>4. owed'[c] > 0 => c \in codes'
      BY <1>7, <2>1, <2>2, Typed DEF IsTell
  <2> QED
      BY <2>3, <2>4
<1>16. LatestUnderWay'
  <2>1. Excused' = Excused
      BY <1>1 DEF Excused, Several
  <2> QED
      BY <1>1, <1>5, <1>9, <2>1, FreshIs
<1> QED
    BY <1>10, <1>11, <1>12, <1>14, <1>15, <1>16

\* What the device says is of a code the client waits for, which is subscribed if there is
\* a question to answer.
LEMMA TellKeeps ==
    ASSUME CliInv, Connected, NEW c \in Has, NEW s \in Says[kind[c]], Tell(c, s),
           c \in codes \/ (About(kind[c], s) /\ owed[c] > 0),
           owed' \in [Code -> Nat], \A d \in Code : owed'[d] <= owed[d],
           UNCHANGED <<clientVars, toServer, alive, disabled, codes, dropped, refused, lost>>
    PROVE  CliInv'
<1> USE DEF CliInv
<1> DEFINE k == kind[c]
           l == [op |-> "STAT", code |-> c, val |-> Payload(k, Value(k, s))]
<1>1. /\ UNCHANGED <<args, kind, once, client, argi, notifies, shown, toServer, alive, disabled,
                     codes, dropped, refused, lost>>
      /\ client \notin Ended /\ c \in Code
    BY CliNotifyAssumption DEF clientVars, Connected
<1>2. k \in Kind /\ s \in Saying /\ s # NoValue
    BY Typed, CliNotifyAssumption
<1>3. /\ said' = IF About(k, s) THEN [said EXCEPT ![c] = s] ELSE said
      /\ toClient' = IF c \notin codes \/ ~Notified(k, s) THEN toClient ELSE Append(toClient, l)
    BY DEF Tell
<1>4. Notified(k, s) <=> k # "silent" /\ About(k, s)
    BY DEF Notified
<1>5. l.op = "STAT" /\ l.code = c /\ l.val = Payload(k, Value(k, s))
    OBVIOUS
<1>6. Notified(k, s) => l \in Answer
  <2>1. Notified(k, s) => Payload(k, Value(k, s)) \in Seq(Char)
      BY <1>2, <1>4, PayloadType
  <2> QED
      BY <1>1, <2>1, AnswerTypes
<1> HIDE DEF k, l
<1>7. ToSet(notifies') = ToSet(notifies)
    BY <1>1 DEF ToSet
<1>8. ~Untouched(c)
    BY DEF Untouched
<1>9. /\ toClient' \in Seq(Answer)
      /\ \A d : d # c => Stats(d)' = Stats(d) /\ said'[d] = said[d]
  <2>1. CASE toClient' = toClient
      BY <1>3, <2>1, Typed, StatsKept
  <2>2. CASE Notified(k, s) /\ toClient' = Append(toClient, l)
    <3>1. \A d : d # c => ~IsStat(l, d)
        BY <1>5 DEF IsStat
    <3>2. \A d : d # c => Stats(d)' = Stats(d)
        BY <2>2, <3>1, Typed, StatsAppend
    <3> QED
        BY <1>3, <1>6, <2>2, <3>2, Typed
  <2> QED
      BY <1>3, <2>1, <2>2
<1>10. CliTypeOK'
  <2>1. said' \in [Has -> Saying \union {NoValue}]
      BY <1>2, <1>3, Typed
  <2> QED
      BY <1>1, <1>9, <2>1 DEF CliTypeOK
<1>11. OfTheDevice'
  <2>1. CASE toClient' = toClient
      BY <1>7, <2>1, OfTheDeviceIs DEF OfTheDevice
  <2>2. CASE toClient' = Append(toClient, l)
    <3>1. /\ DOMAIN toClient' = 1 .. Len(toClient) + 1 /\ DOMAIN toClient = 1 .. Len(toClient)
          /\ toClient'[Len(toClient) + 1] = l /\ Len(toClient) \in Nat
          /\ \A i \in 1 .. Len(toClient) : toClient'[i] = toClient[i]
        BY <2>2, Typed
    <3> QED
        BY <1>5, <1>7, <3>1, OfTheDeviceIs DEF OfTheDevice
  <2> QED
      BY <1>3, <2>1, <2>2
<1>12. SubscriptionsFollow'
    BY <1>1, <1>7, FollowsKept
<1>13. Asking'
  <2>1. ASSUME NEW d \in Has, Untouched(d)
        PROVE  /\ Tells(d)' = {} /\ Stats(d)' = {} /\ d \notin codes' /\ owed'[d] = 0
               /\ said'[d] = NoValue /\ shown'[d] = NoValue
    <3>1. d # c /\ d \in Code
        BY <1>8, <2>1, CliNotifyAssumption
    <3>2. owed'[d] \in Nat /\ owed'[d] <= owed[d]
        BY <3>1
    <3>3. owed'[d] = 0
        BY <2>1, <3>2 DEF Untouched
    <3> QED
        BY <1>1, <1>9, <2>1, <3>1, <3>3, TellsKept DEF Untouched
  <2> QED
      BY <1>1, <1>7, <2>1, AskingIs DEF Asking
<1>14. Steady'
  <2> SUFFICES ASSUME NEW d \in ToSet(notifies')
               PROVE  /\ \A i \in Tells(d)' : toServer'[i].op = "STRT"
                      /\ owed'[d] > 0 => d \in codes'
      BY SteadyIs
  <2>1. d \in Code /\ (\A i \in Tells(d) : toServer[i].op = "STRT") /\ (owed[d] > 0 => d \in codes)
      BY <1>7, CliNotifyAssumption DEF Steady, OfTheDevice
  <2>2. owed'[d] \in Nat /\ owed[d] \in Nat /\ owed'[d] <= owed[d]
      BY <2>1, Typed
  <2> QED
      BY <1>1, <2>1, <2>2, TellsKept
<1>15. LatestUnderWay'
  <2>1. Excused' = Excused
      BY <1>1 DEF Excused, Several
  <2> SUFFICES ASSUME NEW d \in ToSet(notifies') \ Excused', kind[d] # "silent"
               PROVE  Fresh(Stats(d)', toClient', said'[d], shown[d], kind[d])
      BY <1>1, FreshIs
  <2>2. d \in ToSet(notifies) /\ Fresh(Stats(d), toClient, said[d], shown[d], kind[d])
      BY <1>1, <1>7, <2>1, FreshIs
  <2>3. CASE toClient' = toClient /\ said'[d] = said[d]
      BY <2>2, <2>3, FreshKept
  <2>4. CASE toClient' = Append(toClient, l) /\ Notified(k, s)
    <3>1. CASE d = c
      <4>1. said'[d] = s
          BY <1>3, <1>4, <2>4, <3>1, Typed
      <4>2. IsStat(l, d) /\ said'[d] # NoValue /\ kind[d] = k
            /\ l.val = Payload(kind[d], Value(kind[d], said'[d]))
          BY <1>2, <1>5, <3>1, <4>1 DEF IsStat, k
      <4> DEFINE td == said'[d]
                 sd == said[d]
                 sh == shown[d]
                 kd == kind[d]
      <4>3. /\ Fresh(Stats(d), toClient, sd, sh, kd) /\ IsStat(l, d) /\ td # NoValue
            /\ l.val = Payload(kd, Value(kd, td))
          BY <2>2, <4>2
      <4> HIDE DEF td, sd, sh, kd
      <4>4. Fresh(Stats(d)', toClient', td, sh, kd)
          BY <2>4, <4>3, Typed, FreshAppend
      <4> QED
          BY <4>4 DEF td, sh, kd
    <3>2. CASE d # c
      <4>1. ~IsStat(l, d) /\ said'[d] = said[d]
          BY <1>5, <1>9, <3>2 DEF IsStat
      <4> DEFINE td == said'[d]
                 sd == said[d]
                 sh == shown[d]
                 kd == kind[d]
      <4>2. Fresh(Stats(d), toClient, sd, sh, kd) /\ ~IsStat(l, d) /\ td = sd
          BY <2>2, <4>1
      <4> HIDE DEF td, sd, sh, kd
      <4>3. Fresh(Stats(d)', toClient', td, sh, kd)
          BY <2>4, <4>2, Typed, FreshAppend
      <4> QED
          BY <4>3 DEF td, sh, kd
    <3> QED
        BY <3>1, <3>2
  <2>5. \/ toClient' = toClient /\ said'[d] = said[d]
        \/ toClient' = Append(toClient, l) /\ Notified(k, s)
    <3>1. CASE d = c
      <4>1. owed[c] > 0 => c \in codes
          BY <2>2, <3>1 DEF Steady
      <4>2. c \in codes /\ k # "silent"
          BY <3>1, <4>1 DEF k
      <4> QED
          BY <1>3, <1>4, <4>2
    <3>2. CASE d # c
        BY <1>3, <1>9, <3>2
    <3> QED
        BY <3>1, <3>2
  <2> QED
      BY <2>3, <2>4, <2>5
<1> QED
    BY <1>10, <1>11, <1>12, <1>13, <1>14, <1>15

\* The device answers, or does not: it owes one answer less.
LEMMA OneOwedLess ==
    ASSUME owed \in [Code -> Nat], NEW c \in Has, owed[c] > 0, owed' = [owed EXCEPT ![c] = @ - 1]
    PROVE  owed' \in [Code -> Nat] /\ \A d \in Code : owed'[d] \in Nat /\ owed'[d] <= owed[d]
<1>1. c \in Code /\ owed[c] \in Nat /\ owed[c] - 1 \in Nat
    BY CliNotifyAssumption
<1>2. owed' \in [Code -> Nat]
    BY <1>1
<1>3. ASSUME NEW d \in Code
      PROVE  owed'[d] \in Nat /\ owed'[d] <= owed[d]
  <2>1. owed[d] \in Nat /\ owed'[d] = IF d = c THEN owed[c] - 1 ELSE owed[d]
      OBVIOUS
  <2> QED
      BY <1>1, <2>1
<1> QED
    BY <1>2, <1>3

\* Whatever crosses on the line, each step keeps what is known of it.
LEMMA CliInvInductive == CliInv /\ [CliNext]_cliVars => CliInv'
<1> SUFFICES ASSUME CliInv, [CliNext]_cliVars
             PROVE  CliInv'
    OBVIOUS
\* The connection ends, or the server is disabled or enabled.
<1>1. ASSUME client' = client \/ client' \in Ended,
             UNCHANGED <<args, kind, once, argi, notifies, shown, toServer, toClient, codes, owed,
                         said, dropped, refused>>,
             alive' \in BOOLEAN, disabled' \in BOOLEAN, lost' \in BOOLEAN
      PROVE  CliInv'
  <2> USE DEF CliInv
  <2>1. /\ ToSet(notifies') = ToSet(notifies) /\ Excused' = Excused
        /\ \A c : Tells(c)' = Tells(c) /\ Stats(c)' = Stats(c)
      BY <1>1, TellsKept, StatsKept DEF ToSet, Excused, Several
  <2>2. CliTypeOK' /\ OfTheDevice'
      BY <1>1, <2>1, OfTheDeviceIs DEF CliTypeOK, OfTheDevice
  <2>3. SubscriptionsFollow' /\ Steady'
      BY <1>1, <2>1, FollowsKept, SteadyIs DEF Steady
  <2>4. Asking'
      BY <1>1, <2>1, AskingIs DEF Asking, Untouched, Ended
  <2>5. LatestUnderWay'
      BY <1>1, <2>1, FreshIs
  <2> QED
      BY <2>2, <2>3, <2>4, <2>5
<1>2. alive \in BOOLEAN /\ disabled \in BOOLEAN /\ lost \in BOOLEAN /\ owed \in [Code -> Nat]
    BY DEF CliInv, CliTypeOK
<1>3. CASE Ask
    BY <1>3, AskKeeps
<1>4. ASSUME NEW n \in 1 .. Len(toClient), Reply(n)
      PROVE  CliInv'
    BY <1>4, ReplyKeeps
<1>5. CASE Listen
    BY <1>5, ListenKeeps
<1>6. CASE Eof
    BY <1>1, <1>2, <1>6 DEF Eof, Ended, serverVars
<1>7. CASE Handle
    BY <1>7, HandleKeeps
<1>8. ASSUME NEW c \in Has, DeviceAnswers(c)
      PROVE  CliInv'
  <2>1. PICK s \in Says[kind[c]] : About(kind[c], s) /\ Tell(c, s)
      BY <1>8 DEF DeviceAnswers
  <2>2. /\ Connected /\ owed[c] > 0 /\ owed' = [owed EXCEPT ![c] = @ - 1]
        /\ UNCHANGED <<clientVars, toServer, alive, disabled, codes, dropped, refused, lost>>
      BY <1>8 DEF DeviceAnswers
  <2>3. owed' \in [Code -> Nat] /\ \A d \in Code : owed'[d] \in Nat /\ owed'[d] <= owed[d]
      BY <1>2, <2>2, OneOwedLess
  <2> QED
      BY <2>1, <2>2, <2>3, TellKeeps
<1>9. ASSUME NEW c \in Has, LoseAnswer(c)
      PROVE  CliInv'
  <2>1. /\ owed[c] > 0 /\ owed' = [owed EXCEPT ![c] = @ - 1] /\ lost' = TRUE
        /\ UNCHANGED <<args, kind, once, client, argi, notifies, shown, toServer, toClient, alive,
                       disabled, codes, said, dropped, refused>>
      BY <1>9 DEF LoseAnswer, clientVars
  <2>2. owed' \in [Code -> Nat] /\ \A d \in Code : owed'[d] \in Nat /\ owed'[d] <= owed[d]
      BY <1>2, <2>1, OneOwedLess
  <2> USE DEF CliInv
  <2>3. /\ ToSet(notifies') = ToSet(notifies) /\ Excused' = Excused
        /\ \A d : Tells(d)' = Tells(d) /\ Stats(d)' = Stats(d)
      BY <2>1, TellsKept, StatsKept DEF ToSet, Excused, Several
  <2>4. CliTypeOK' /\ OfTheDevice'
      BY <2>1, <2>2, <2>3, OfTheDeviceIs DEF CliTypeOK, OfTheDevice
  <2>5. SubscriptionsFollow'
      BY <2>1, <2>3, FollowsKept
  <2>6. Steady'
    <3> SUFFICES ASSUME NEW d \in ToSet(notifies')
                 PROVE  /\ \A i \in Tells(d)' : toServer'[i].op = "STRT"
                        /\ owed'[d] > 0 => d \in codes'
        BY SteadyIs
    <3>1. d \in Code /\ (\A i \in Tells(d) : toServer[i].op = "STRT") /\ (owed[d] > 0 => d \in codes)
        BY <2>3, CliNotifyAssumption DEF Steady, OfTheDevice
    <3>2. owed'[d] \in Nat /\ owed[d] \in Nat /\ owed'[d] <= owed[d]
        BY <1>2, <2>2, <3>1
    <3> QED
        BY <2>1, <2>3, <3>1, <3>2
  <2>7. Asking'
    <3>1. ASSUME NEW d \in Has, Untouched(d)
          PROVE  /\ Tells(d)' = {} /\ Stats(d)' = {} /\ d \notin codes' /\ owed'[d] = 0
                 /\ said'[d] = NoValue /\ shown'[d] = NoValue
      <4>1. owed'[d] \in Nat /\ owed'[d] <= owed[d]
          BY <2>2, CliNotifyAssumption
      <4>2. owed'[d] = 0
          BY <3>1, <4>1 DEF Untouched
      <4> QED
          BY <2>1, <2>3, <3>1, <4>2 DEF Untouched
    <3> QED
        BY <2>1, <2>3, <3>1, AskingIs DEF Asking
  <2>8. LatestUnderWay'
      BY <2>1, <2>3, FreshIs
  <2> QED
      BY <2>4, <2>5, <2>6, <2>7, <2>8
<1>10. ASSUME NEW c \in Has, Report(c)
       PROVE  CliInv'
  <2>1. PICK s \in Says[kind[c]] : Tell(c, s)
      BY <1>10 DEF Report
  <2>2. /\ Connected /\ c \in codes /\ owed' = owed
        /\ UNCHANGED <<clientVars, toServer, alive, disabled, codes, dropped, refused, lost>>
      BY <1>10 DEF Report
  <2>3. owed' \in [Code -> Nat] /\ \A d \in Code : owed'[d] <= owed[d]
    <3>1. \A d \in Code : owed[d] \in Nat
        BY <1>2
    <3> QED
        BY <1>2, <2>2, <3>1
  <2> QED
      BY <2>1, <2>2, <2>3, TellKeeps
<1>11. CASE SetDisabled
    BY <1>1, <1>2, <1>11 DEF SetDisabled, clientVars
<1>12. CASE DaemonEnds
    BY <1>1, <1>2, <1>12 DEF DaemonEnds, clientVars
<1>13. CASE UNCHANGED cliVars
    BY <1>1, <1>2, <1>13 DEF cliVars, clientVars, serverVars
<1> QED
    BY <1>3, <1>4, <1>5, <1>6, <1>7, <1>8, <1>9, <1>10, <1>11, <1>12, <1>13 DEF CliNext

\* At every time: what is known of where the lines of each code are.
THEOREM CliNotifyInvHolds == CliSpec => []CliInv
<1> QED
    BY CliInvAtFirst, CliInvInductive, PTL DEF CliSpec

\* The server is subscribed to what the client waits for, once it has read what was written.
THEOREM AlwaysSubscribed == CliSpec => []SubscribedWhileWaiting
<1>1. CliInv => SubscribedWhileWaiting
  <2> SUFFICES ASSUME CliInv, toServer = <<>>, refused = {}
               PROVE  codes = ToSet(notifies)
      BY DEF SubscribedWhileWaiting
  <2>1. \A c : Tells(c) = {}
      BY DEF Tells
  <2>2. \A c \in Code : c \in codes <=> c \in ToSet(notifies)
      BY <2>1 DEF CliInv, SubscriptionsFollow
  <2>3. codes \subseteq Code /\ ToSet(notifies) \subseteq Code
      BY CliNotifyAssumption DEF CliInv, CliTypeOK, OfTheDevice
  <2> QED
      BY <2>2, <2>3
<1> QED
    BY <1>1, CliNotifyInvHolds, PTL

\* The client has shown the driver's value of the last that was said, once it has read what was
\* written.
THEOREM AlwaysShowsTheLatest == CliSpec => []ShowsTheLatest
<1>1. CliInv => ShowsTheLatest
  <2> SUFFICES ASSUME CliInv, client = "listen", toClient = <<>>,
                      NEW c \in ToSet(notifies) \ Excused, kind[c] # "silent"
               PROVE  \/ said[c] = NoValue /\ shown[c] = NoValue
                      \/ said[c] # NoValue /\ shown[c] = Held(kind[c], Value(kind[c], said[c]))
      BY DEF ShowsTheLatest, Excused
  <2>1. Stats(c) = {}
      BY DEF Stats
  <2>2. Fresh(Stats(c), toClient, said[c], shown[c], kind[c])
      BY FreshIs DEF CliInv, Ended
  <2> QED
      BY <2>1, <2>2 DEF Fresh
<1> QED
    BY <1>1, CliNotifyInvHolds, PTL

-----------------------------------------------------------------------------
(* The listener: the queue of handlers.                                    *)

\* A handler is that of a check or of a link, as its fields tell.
LEMMA HandlerKinds ==
    ASSUME NEW h \in Handler
    PROVE  /\ IsCheck(h) => h.check \in 0 .. MaxChecks
                            /\ h.error \in {"success", "refused", "other", "aborted"}
           /\ ~IsCheck(h) => h.link \in Phy /\ h.line \in {"up", "down"}
<1>1. CASE h \in [link : Phy, line : {"up", "down"}]
    BY <1>1 DEF IsCheck
<1>2. CASE h \in [check : 0 .. MaxChecks, error : {"success", "refused", "other", "aborted"}]
    BY <1>2 DEF IsCheck
<1> QED
    BY <1>1, <1>2 DEF Handler

\* The end of a check is a handler of a check ...
LEMMA NewCheck ==
    ASSUME NEW c \in 0 .. MaxChecks, NEW e \in {"success", "refused", "other", "aborted"}
    PROVE  /\ [check |-> c, error |-> e] \in Handler
           /\ IsCheck([check |-> c, error |-> e])
           /\ [check |-> c, error |-> e].error = e
BY DEF Handler, IsCheck

\* ... and a link that settles is none.
LEMMA NewLink ==
    ASSUME NEW d \in Phy, NEW v \in {"up", "down"}
    PROVE  [link |-> d, line |-> v] \in Handler /\ ~IsCheck([link |-> d, line |-> v])
BY DEF Handler, IsCheck

\* No handler of a check is in the queue q.
NoChecks(q) == \A i \in DOMAIN q : ~IsCheck(q[i])

\* What a handler queued changes of the checks on the queue.
LEMMA Queued ==
    ASSUME NEW q \in Seq(Handler), NEW h \in Handler
    PROVE  /\ Append(q, h) \in Seq(Handler) /\ Append(q, h) # <<>>
           /\ Checked(q) => Checked(Append(q, h))
           /\ IsCheck(h) /\ h.error # "aborted" => Checked(Append(q, h))
           /\ NoChecks(q) /\ ~IsCheck(h) => NoChecks(Append(q, h))
<1> DEFINE r == Append(q, h)
<1>1. r \in Seq(Handler) /\ Len(r) = Len(q) + 1 /\ Len(q) \in Nat /\ DOMAIN q = 1 .. Len(q)
      /\ DOMAIN r = 1 .. Len(r) /\ r[Len(r)] = h /\ \A i \in 1 .. Len(q) : r[i] = q[i]
    OBVIOUS
<1>2. Checked(q) => Checked(r)
    BY <1>1 DEF Checked
<1>3. IsCheck(h) /\ h.error # "aborted" => Checked(r)
    BY <1>1 DEF Checked
<1>4. NoChecks(q) /\ ~IsCheck(h) => NoChecks(r)
    BY <1>1 DEF NoChecks
<1> QED
    BY <1>1, <1>2, <1>3, <1>4

\* What the oldest handler taken changes of them.
LEMMA Taken ==
    ASSUME NEW q \in Seq(Handler), q # <<>>
    PROVE  /\ Tail(q) \in Seq(Handler) /\ q[1] \in Handler
           /\ Checked(q) => Checked(Tail(q)) \/ (IsCheck(q[1]) /\ q[1].error # "aborted")
           /\ NoChecks(q) => NoChecks(Tail(q)) /\ ~IsCheck(q[1])
<1> DEFINE r == Tail(q)
<1>1. /\ Len(q) \in Nat \ {0} /\ DOMAIN q = 1 .. Len(q) /\ q[1] \in Handler
      /\ r \in Seq(Handler) /\ Len(r) = Len(q) - 1 /\ DOMAIN r = 1 .. Len(r)
      /\ \A i \in 1 .. Len(r) : r[i] = q[i + 1]
    OBVIOUS
<1>2. ASSUME Checked(q), ~(IsCheck(q[1]) /\ q[1].error # "aborted")
      PROVE  Checked(r)
  <2>1. PICK i \in DOMAIN q : IsCheck(q[i]) /\ q[i].error # "aborted"
      BY <1>2 DEF Checked
  <2>2. i # 1 /\ i - 1 \in 1 .. Len(r) /\ r[i - 1] = q[i]
      BY <1>1, <1>2, <2>1
  <2> QED
      BY <1>1, <2>1, <2>2 DEF Checked
<1>3. NoChecks(q) => NoChecks(r) /\ ~IsCheck(q[1])
    BY <1>1 DEF NoChecks
<1> QED
    BY <1>1, <1>2, <1>3

\* A cancelled connect adds at most its own handler.
LEMMA Cancelled ==
    ASSUME connecting \in (-1) .. MaxChecks, NEW rest \in Seq(Handler), Cancel(rest)
    PROVE  /\ ready' \in Seq(Handler)
           /\ Checked(rest) => Checked(ready')
           /\ NoChecks(rest) /\ connecting = NoCheck => NoChecks(ready')
<1>1. CASE connecting = NoCheck
    BY <1>1 DEF Cancel
<1>2. CASE connecting # NoCheck
  <2>1. connecting \in 0 .. MaxChecks
      BY <1>2, ListenerAssumption DEF NoCheck
  <2>2. [check |-> connecting, error |-> "aborted"] \in Handler
      BY <2>1, NewCheck
  <2> QED
      BY <1>2, <2>2, Queued DEF Cancel
<1> QED
    BY <1>1, <1>2

-----------------------------------------------------------------------------
(* The listener: what is selected.                                         *)

\* The reports stay those of the receiver: the last one is of its source.
StereoKept ==
    /\ stereo' \in Source /\ reports' \in Seq(Source) /\ behind' = behind
    /\ LastReportTrue'
    /\ reports' = <<>> => reports = <<>> /\ stereo' = stereo

\* Sources selected one after the other are reported in this order, the last one true.
LEMMA SelectsKeeps ==
    ASSUME reports \in Seq(Source), NEW s \in Seq(Source), s # <<>>, Selects(s)
    PROVE  StereoKept
<1>1. /\ Len(s) \in Nat \ {0} /\ Len(reports) \in Nat /\ s[Len(s)] \in Source
      /\ reports \o s \in Seq(Source) /\ Len(reports \o s) = Len(reports) + Len(s)
      /\ (reports \o s)[Len(reports) + Len(s)] = s[Len(s)]
      /\ reports \o s # <<>>
    OBVIOUS
<1> QED
    BY <1>1 DEF Selects, StereoKept, LastReportTrue

\* What the listener and the user select are sources.
LEMMA SourcesAreSources ==
    /\ UserSource \subseteq Source
    /\ \A d \in AllDevices : SourceOf[d] \in Source
    /\ \A i \in DOMAIN Chain : Chain[i] \in AllDevices
BY ListenerAssumption DEF AllDevices, SourceOf, Source, Chain

\* switch_from() selects at most one source, which is reported.
LEMMA SwitchFromKeeps ==
    ASSUME stereo \in Source, reports \in Seq(Source), LastReportTrue,
           NEW from, NEW vals, SwitchFrom(from, vals)
    PROVE  StereoKept
<1>1. CASE UNCHANGED stereoVars
    BY <1>1 DEF stereoVars, StereoKept, LastReportTrue
<1>2. CASE Selects(<<"dvd">>)
  <2>1. <<"dvd">> \in Seq(Source) /\ <<"dvd">> # <<>>
      BY DEF Source
  <2> QED
      BY <1>2, <2>1, SelectsKeeps
<1>3. ASSUME NEW i \in OnIn(vals), Selects(<<SourceOf[Chain[i]]>>)
      PROVE  StereoKept
  <2>1. SourceOf[Chain[i]] \in Source
      BY SourcesAreSources DEF OnIn
  <2>2. <<SourceOf[Chain[i]]>> \in Seq(Source) /\ <<SourceOf[Chain[i]]>> # <<>>
      BY <2>1
  <2> QED
      BY <1>3, <2>2, SelectsKeeps
<1> QED
    BY <1>1, <1>2, <1>3 DEF SwitchFrom

\* So do the sources that a device going on or off selects.
LEMMA SwitchedKeeps ==
    ASSUME stereo \in Source, reports \in Seq(Source), LastReportTrue,
           NEW d \in Device, NEW v, NEW vals, NEW rest, Switched(d, v, vals, rest)
    PROVE  StereoKept
<1>1. CASE UNCHANGED stereoVars
    BY <1>1 DEF stereoVars, StereoKept, LastReportTrue
<1>2. ASSUME NEW from, SwitchFrom(from, vals)
      PROVE  StereoKept
    BY <1>2, SwitchFromKeeps
<1>3. CASE Selects(<<"aux1", "dss", "aux1">>) \/ Selects(<<"dss", "aux1">>)
  <2>1. /\ <<"aux1", "dss", "aux1">> \in Seq(Source) /\ <<"aux1", "dss", "aux1">> # <<>>
        /\ <<"dss", "aux1">> \in Seq(Source) /\ <<"dss", "aux1">> # <<>>
      BY DEF Source
  <2> QED
      BY <1>3, <2>1, SelectsKeeps
<1>4. CASE Selects(<<SourceOf[d]>>)
  <2>1. SourceOf[d] \in Source
      BY SourcesAreSources, ListenerAssumption
  <2>2. <<SourceOf[d]>> \in Seq(Source) /\ <<SourceOf[d]>> # <<>>
      BY <2>1
  <2> QED
      BY <1>4, <2>2, SelectsKeeps
<1> QED
    BY <1>1, <1>2, <1>3, <1>4 DEF Switched, PowerOn

-----------------------------------------------------------------------------
(* The listener: the steps.                                                *)

\* The end of a session leaves nothing that could be wrong.
LEMMA EndSessionInv ==
    ASSUME ListenerInv, NEW to \in {"down", "dead"}, EndSession(to), UNCHANGED <<link, stereo>>,
           values' \in {values, NothingHeard}, socket' \in {None, "stale"}
    PROVE  ListenerInv'
<1>1. /\ session' \in {"down", "dead"} /\ connecting' = NoCheck /\ ready' = <<>>
      /\ reports' = <<>> /\ behind' = TRUE /\ unchecked' = TRUE
      /\ armed' = [d \in Phy |-> None]
    BY DEF EndSession
<1>2. ListenerTypeOK'
  <2>1. behind' \in BOOLEAN /\ unchecked' \in BOOLEAN
      BY <1>1
  <2>2. /\ session' \in {"up", "down", "dead"} /\ socket' \in {None, "here", "stale"}
        /\ connecting' \in (-1) .. MaxChecks
      BY <1>1, ListenerAssumption DEF NoCheck
  <2>3. armed' \in [Phy -> {None, "up", "down"}]
      BY DEF EndSession
  <2>4. ready' \in Seq(Handler) /\ reports' \in Seq(Source)
      BY <1>1
  <2>5. link' \in [Phy -> {"up", "down"}] /\ stereo' \in Source
      BY DEF ListenerInv, ListenerTypeOK
  <2>6. values' \in [Device \union {"audio_source"} ->
                       Source \union {Unset, "up", "really_up", "down", "on", "off"}]
      BY DEF ListenerInv, ListenerTypeOK, NothingHeard
  <2> QED
      BY <2>1, <2>2, <2>3, <2>4, <2>5, <2>6 DEF ListenerTypeOK
<1>3. socket' # "here"
    BY DEF None
<1> QED
    BY <1>1, <1>2, <1>3
    DEF ListenerInv, SessionOver, SocketKnown, LastReportTrue, UpIsChecked, DownIsNotChecked,
        BeliefCatchesUp

\* A listener that dies leaves no session, no socket and no handler.
LEMMA DieInv ==
    ASSUME ListenerInv, Die, UNCHANGED <<link, stereo>>
    PROVE  ListenerInv'
BY EndSessionInv DEF Die

\* update() for a device, from a handler whose queue was `ready' and is rest behind it.
LEMMA UpdateInv ==
    ASSUME ListenerInv, session = "up", link' = link,
           NEW d \in Device, NEW v \in {"up", "really_up", "down", "on", "off"},
           NEW rest \in Seq(Handler), Update(d, v, rest),
           d = "playstation" => v \in {"up", "really_up", "down"},
           d = "playstation" /\ v = "really_up" => socket = "here",
           Checked(ready) => Checked(rest) \/ (d = "playstation" /\ v = "really_up"),
           NoChecks(ready) => NoChecks(rest)
    PROVE  ListenerInv'
<1>0. /\ ListenerTypeOK /\ SessionOver /\ SocketKnown /\ LastReportTrue
      /\ UpIsChecked /\ DownIsNotChecked /\ BeliefCatchesUp
    BY DEF ListenerInv
<1>1. CASE values[d] = v
  <2>1. /\ ready' = rest /\ UNCHANGED <<session, values, checkVars, armed, stereoVars>>
      BY <1>1 DEF Update
  <2>2. ListenerTypeOK'
      BY <1>0, <2>1 DEF ListenerTypeOK, checkVars, stereoVars
  <2>3. UpIsChecked'
      BY <1>0, <1>1, <2>1 DEF UpIsChecked, checkVars
  <2>4. SocketKnown'
      BY <1>0, <2>1 DEF SocketKnown, NoChecks, checkVars
  <2> QED
      BY <1>0, <2>1, <2>2, <2>3, <2>4
      DEF ListenerInv, SessionOver, LastReportTrue, DownIsNotChecked, BeliefCatchesUp,
          checkVars, stereoVars
<1>2. CASE Die /\ UNCHANGED stereo
    BY <1>2, DieInv
<1>3. ASSUME values[d] # v, values' = [values EXCEPT ![d] = v], Switched(d, v, values', rest),
             UNCHANGED <<session, armed>>
      PROVE  ListenerInv'
  <2>1. StereoKept
      BY <1>0, <1>3, SwitchedKeeps DEF ListenerTypeOK
  <2>2. values' \in [Device \union {"audio_source"} ->
                       Source \union {Unset, "up", "really_up", "down", "on", "off"}]
      BY <1>0, <1>3 DEF ListenerTypeOK
  <2>3. /\ values'[d] = v /\ (d # "playstation" => values'["playstation"] = values["playstation"])
        /\ values'["audio_source"] = values["audio_source"]
    <3>1. d # "audio_source" /\ "playstation" \in Device
        BY ListenerAssumption DEF AllDevices
    <3> QED
        BY <1>0, <1>3, <3>1 DEF ListenerTypeOK
  <2>4. /\ ready' \in Seq(Handler) /\ connecting' \in (-1) .. MaxChecks
        /\ socket' \in {None, "here", "stale"}
        /\ unchecked' = unchecked \/ unchecked' = FALSE
        /\ SocketKnown' /\ UpIsChecked' /\ DownIsNotChecked'
    <3>1. CASE d = "playstation" /\ v = "up"
      <4>1. Cancel(rest) /\ socket' = "here" /\ connecting' = 0 /\ unchecked' = FALSE
          BY <1>3, <3>1 DEF Switched, CheckReallyUp
      <4>2. ready' \in Seq(Handler)
          BY <1>0, <4>1, Cancelled DEF ListenerTypeOK
      <4> QED
          BY <2>3, <3>1, <4>1, <4>2, ListenerAssumption
          DEF SocketKnown, UpIsChecked, DownIsNotChecked, NoCheck
    <3>2. CASE d = "playstation" /\ v = "down"
      <4>1. Cancel(rest) /\ socket' = None /\ connecting' = NoCheck /\ unchecked' = unchecked
          BY <1>3, <3>2 DEF Switched, DropCheck
      <4>2. ready' \in Seq(Handler)
          BY <1>0, <4>1, Cancelled DEF ListenerTypeOK
      <4> QED
          BY <2>3, <3>2, <4>1, <4>2, ListenerAssumption
          DEF SocketKnown, UpIsChecked, DownIsNotChecked, NoCheck, None
    <3>3. CASE ~(d = "playstation" /\ v \in {"up", "down"})
      <4>1. ready' = rest /\ socket' = socket /\ connecting' = connecting /\ unchecked' = unchecked
          BY <1>3, <3>3 DEF Switched, checkVars
      <4>2. d = "playstation" => v = "really_up"
          BY <3>3
      <4>3. SocketKnown'
          BY <1>0, <2>3, <4>1, <4>2 DEF SocketKnown, NoChecks
      <4>4. UpIsChecked'
          BY <1>0, <1>3, <2>3, <4>1, <4>2 DEF UpIsChecked
      <4>5. DownIsNotChecked'
          BY <1>0, <1>3, <2>3, <4>1, <4>2 DEF DownIsNotChecked
      <4> QED
          BY <1>0, <4>1, <4>3, <4>4, <4>5 DEF ListenerTypeOK
    <3> QED
        BY <3>1, <3>2, <3>3
  <2>5. unchecked' \in BOOLEAN /\ behind' \in BOOLEAN
      BY <1>0, <2>1, <2>4 DEF ListenerTypeOK, StereoKept
  <2>6. ListenerTypeOK'
      BY <1>0, <1>3, <2>1, <2>2, <2>4, <2>5 DEF ListenerTypeOK, StereoKept
  <2>7. SessionOver'
      BY <1>3 DEF SessionOver
  <2>8. BeliefCatchesUp'
      BY <1>0, <1>3, <2>1, <2>3 DEF BeliefCatchesUp, StereoKept
  <2> QED
      BY <2>1, <2>4, <2>6, <2>7, <2>8 DEF ListenerInv, StereoKept
<1> QED
    BY <1>1, <1>2, <1>3 DEF Update

\* It begins without them.
LEMMA ListenerInitInv == ListenerInit => ListenerInv
<1> SUFFICES ASSUME ListenerInit
             PROVE  ListenerInv
    OBVIOUS
<1>1. /\ session = "dead" /\ connecting = NoCheck /\ ready = <<>> /\ reports = <<>>
      /\ behind = TRUE /\ unchecked = TRUE /\ socket = None
      /\ armed = [d \in Phy |-> None]
    BY DEF ListenerInit
<1>2. ListenerTypeOK
  <2>1. behind \in BOOLEAN /\ unchecked \in BOOLEAN
      BY <1>1
  <2>2. connecting \in (-1) .. MaxChecks
      BY <1>1, ListenerAssumption DEF NoCheck
  <2>3. values \in [Device \union {"audio_source"} ->
                       Source \union {Unset, "up", "really_up", "down", "on", "off"}]
      BY DEF ListenerInit, NothingHeard
  <2>4. armed \in [Phy -> {None, "up", "down"}] /\ link \in [Phy -> {"up", "down"}]
        /\ stereo \in Source
      BY SourcesAreSources DEF ListenerInit
  <2> QED
      BY <1>1, <2>1, <2>2, <2>3, <2>4 DEF ListenerTypeOK
<1> QED
    BY <1>1, <1>2
    DEF ListenerInv, SessionOver, SocketKnown, LastReportTrue, UpIsChecked, DownIsNotChecked,
        BeliefCatchesUp, None

\* Every step keeps the invariant.
LEMMA ListenerNextInv ==
    ASSUME ListenerInv, [ListenerNext]_listenerVars
    PROVE  ListenerInv'
<1>0. /\ ListenerTypeOK /\ SessionOver /\ SocketKnown /\ LastReportTrue
      /\ UpIsChecked /\ DownIsNotChecked /\ BeliefCatchesUp
    BY DEF ListenerInv
<1>1. CASE Start
  <2>1. ListenerTypeOK'
    <3>1. armed' \in [Phy -> {None, "up", "down"}]
        BY <1>0, <1>1 DEF Start, ListenerTypeOK
    <3> QED
        BY <1>0, <1>1, <3>1 DEF Start, ListenerTypeOK, checkVars, stereoVars
  <2> QED
      BY <1>0, <1>1, <2>1
      DEF Start, ListenerInv, SessionOver, SocketKnown, LastReportTrue, UpIsChecked,
          DownIsNotChecked, BeliefCatchesUp, checkVars, stereoVars
<1>2. CASE SessionEnds
    BY <1>2, EndSessionInv DEF SessionEnds
<1>3. CASE Dies
    BY <1>3, DieInv DEF Dies
<1>4. CASE HearSource
  <2> DEFINE rest == Tail(reports)
  <2>1. /\ reports \in Seq(Source) /\ reports # <<>> /\ reports' = rest
        /\ values' = [values EXCEPT !["audio_source"] = reports[1]]
        /\ UNCHANGED <<session, checkVars, armed, ready, link, stereo, behind>>
      BY <1>0, <1>4 DEF HearSource, ListenerTypeOK
  <2>2. /\ reports[1] \in Source /\ rest \in Seq(Source)
        /\ (rest # <<>> => rest[Len(rest)] = reports[Len(reports)])
        /\ (rest = <<>> => reports[1] = reports[Len(reports)])
    <3>1. /\ Len(reports) \in Nat \ {0} /\ reports[1] \in Source
          /\ rest \in Seq(Source) /\ Len(rest) = Len(reports) - 1
          /\ \A i \in 1 .. Len(rest) : rest[i] = reports[i + 1]
        BY <2>1
    <3>2. ASSUME rest # <<>>
          PROVE  rest[Len(rest)] = reports[Len(reports)]
      <4>1. Len(rest) \in 1 .. Len(rest)
          BY <3>1, <3>2
      <4> QED
          BY <3>1, <4>1
    <3>3. rest = <<>> => Len(reports) = 1
        BY <3>1
    <3> QED
        BY <3>1, <3>2, <3>3
  <2>3. /\ values' \in [Device \union {"audio_source"} ->
                          Source \union {Unset, "up", "really_up", "down", "on", "off"}]
        /\ values'["audio_source"] = reports[1]
        /\ values'["playstation"] = values["playstation"]
    <3>1. "playstation" # "audio_source" /\ "playstation" \in Device
        BY ListenerAssumption
    <3> QED
        BY <1>0, <2>1, <2>2, <3>1 DEF ListenerTypeOK
  <2>4. ListenerTypeOK'
      BY <1>0, <2>1, <2>2, <2>3 DEF ListenerTypeOK, checkVars
  <2>5. LastReportTrue' /\ BeliefCatchesUp'
      BY <1>0, <2>1, <2>2, <2>3 DEF LastReportTrue, BeliefCatchesUp
  <2>6. session' = "up"
      BY <1>4 DEF HearSource
  <2> QED
      BY <1>0, <2>1, <2>3, <2>4, <2>5, <2>6
      DEF ListenerInv, SessionOver, SocketKnown, UpIsChecked, DownIsNotChecked, checkVars
<1>5. ASSUME NEW d \in Device \ Phy, NEW v \in Values(d), Line(d, v)
      PROVE  ListenerInv'
  <2>1. d # "playstation" /\ v \in {"up", "really_up", "down", "on", "off"}
      BY ListenerAssumption DEF Phy, Values
  <2>2. ready \in Seq(Handler)
      BY <1>0 DEF ListenerTypeOK
  <2> QED
      BY <1>5, <2>1, <2>2, UpdateInv DEF Line
<1>6. ASSUME NEW d \in Phy, LinkChanges(d)
      PROVE  ListenerInv'
  <2>1. link' \in [Phy -> {"up", "down"}] /\ armed' \in [Phy -> {None, "up", "down"}]
      BY <1>0, <1>6 DEF LinkChanges, ListenerTypeOK
  <2>2. ListenerTypeOK'
      BY <1>0, <1>6, <2>1 DEF LinkChanges, ListenerTypeOK, checkVars, stereoVars
  <2> QED
      BY <1>0, <1>6, <2>2
      DEF LinkChanges, ListenerInv, SessionOver, SocketKnown, LastReportTrue, UpIsChecked,
          DownIsNotChecked, BeliefCatchesUp, checkVars, stereoVars
<1>7. ASSUME NEW d \in Phy, TimerExpires(d)
      PROVE  ListenerInv'
  <2> DEFINE h == [link |-> d, line |-> armed[d]]
  <2>1. session = "up" /\ armed[d] \in {"up", "down"} /\ ready' = Append(ready, h)
      BY <1>0, <1>7 DEF TimerExpires, ListenerTypeOK, SessionOver
  <2>2. h \in Handler /\ ~IsCheck(h) /\ ready \in Seq(Handler)
      BY <1>0, <2>1, NewLink DEF ListenerTypeOK
  <2>3. /\ ready' \in Seq(Handler)
        /\ Checked(ready) => Checked(ready')
        /\ NoChecks(ready) => NoChecks(ready')
      BY <2>1, <2>2, Queued
  <2>4. ListenerTypeOK'
    <3>1. armed' \in [Phy -> {None, "up", "down"}]
        BY <1>0, <1>7 DEF TimerExpires, ListenerTypeOK
    <3> QED
        BY <1>0, <1>7, <2>3, <3>1 DEF TimerExpires, ListenerTypeOK, checkVars, stereoVars
  <2>5. SocketKnown'
      BY <1>0, <1>7, <2>3 DEF TimerExpires, SocketKnown, NoChecks, checkVars
  <2> QED
      BY <1>0, <1>7, <2>1, <2>3, <2>4, <2>5
      DEF TimerExpires, ListenerInv, SessionOver, LastReportTrue, UpIsChecked,
          DownIsNotChecked, BeliefCatchesUp, checkVars, stereoVars
<1>8. CASE RunLink
  <2>1. ready \in Seq(Handler) /\ ready # <<>> /\ ~IsCheck(ready[1]) /\ session = "up"
      BY <1>0, <1>8 DEF RunLink, ListenerTypeOK, SessionOver
  <2>2. /\ Tail(ready) \in Seq(Handler) /\ ready[1] \in Handler
        /\ Checked(ready) => Checked(Tail(ready))
        /\ NoChecks(ready) => NoChecks(Tail(ready))
      BY <2>1, Taken
  <2>3. ready[1].link \in Phy /\ ready[1].line \in {"up", "down"}
      BY <2>1, <2>2, HandlerKinds
  <2> QED
      BY <1>8, <2>1, <2>2, <2>3, UpdateInv DEF RunLink, Phy
<1>9. ASSUME NEW error \in {"success", "refused", "other"}, ConnectDone(error)
      PROVE  ListenerInv'
  <2> DEFINE h == [check |-> connecting, error |-> error]
  <2>1. /\ session = "up" /\ connecting \in 0 .. MaxChecks /\ ready' = Append(ready, h)
        /\ connecting' = NoCheck /\ socket = "here"
      BY <1>0, <1>9 DEF ConnectDone, ListenerTypeOK, SessionOver, NoCheck, SocketKnown
  <2>2. h \in Handler /\ IsCheck(h) /\ h.error # "aborted" /\ ready \in Seq(Handler)
      BY <1>0, <2>1, NewCheck DEF ListenerTypeOK
  <2>3. ready' \in Seq(Handler) /\ Checked(ready')
      BY <2>1, <2>2, Queued
  <2>4. connecting' \in (-1) .. MaxChecks
      BY <2>1, ListenerAssumption DEF NoCheck
  <2>5. ListenerTypeOK'
      BY <1>0, <1>9, <2>3, <2>4 DEF ConnectDone, ListenerTypeOK, stereoVars
  <2> QED
      BY <1>0, <1>9, <2>1, <2>3, <2>5
      DEF ConnectDone, ListenerInv, SessionOver, SocketKnown, LastReportTrue, UpIsChecked,
          DownIsNotChecked, BeliefCatchesUp, stereoVars
<1>10. CASE RunCheck
  <2> DEFINE h == ready[1]
  <2>1. ready \in Seq(Handler) /\ ready # <<>> /\ IsCheck(h) /\ session = "up" /\ socket # "stale"
    <3>1. ready \in Seq(Handler) /\ ready # <<>> /\ IsCheck(h) /\ session = "up"
        BY <1>0, <1>10 DEF RunCheck, ListenerTypeOK, SessionOver
    <3>2. 1 \in DOMAIN ready
        BY <3>1
    <3> QED
        BY <1>0, <3>1, <3>2 DEF SocketKnown
  <2>2. /\ Tail(ready) \in Seq(Handler) /\ h \in Handler
        /\ Checked(ready) => Checked(Tail(ready)) \/ h.error # "aborted"
        /\ NoChecks(ready) => NoChecks(Tail(ready))
      BY <2>1, Taken
  <2>3. h.check \in 0 .. MaxChecks
      BY <2>1, <2>2, HandlerKinds
  <2>4. CASE h.error = "success" /\ socket = "here" /\ Update("playstation", "really_up", Tail(ready))
             /\ UNCHANGED link
      BY <2>1, <2>2, <2>4, UpdateInv, ListenerAssumption
  <2>5. CASE Retries(h) /\ socket = "here" /\ Retry(h)
             /\ UNCHANGED <<session, values, armed, stereoVars, link>>
    <3>1. Cancel(Tail(ready)) /\ connecting' = h.check + 1 /\ UNCHANGED <<socket, unchecked>>
        BY <2>5 DEF Retry
    <3>2. h.check < MaxChecks /\ connecting' \in 0 .. MaxChecks
        BY <2>3, <2>5, <3>1, ListenerAssumption DEF Retries
    <3>3. ready' \in Seq(Handler)
        BY <1>0, <2>2, <3>1, Cancelled DEF ListenerTypeOK
    <3>4. ListenerTypeOK'
        BY <1>0, <2>5, <3>1, <3>2, <3>3 DEF ListenerTypeOK, stereoVars
    <3>5. values["playstation"] # "down"
        BY <1>0, <2>5 DEF SocketKnown
    <3>6. connecting' # NoCheck
        BY <3>2 DEF NoCheck
    <3> QED
        BY <1>0, <2>1, <2>5, <3>1, <3>4, <3>5, <3>6
        DEF ListenerInv, SessionOver, SocketKnown, LastReportTrue, UpIsChecked,
            DownIsNotChecked, BeliefCatchesUp, stereoVars
  <2>6. CASE Die /\ UNCHANGED <<stereo, link>>
      BY <2>6, DieInv
  <2>7. CASE /\ h.error # "success" /\ ready' = Tail(ready)
             /\ unchecked' = IF h.error = "aborted" THEN unchecked ELSE TRUE
             /\ UNCHANGED <<socket, connecting, session, values, armed, stereoVars, link>>
    <3>1. unchecked' \in BOOLEAN
        BY <1>0, <2>7 DEF ListenerTypeOK
    <3>2. ListenerTypeOK'
        BY <1>0, <2>2, <2>7, <3>1 DEF ListenerTypeOK, stereoVars
    <3>3. UpIsChecked'
      <4>1. CASE h.error = "aborted"
          BY <1>0, <2>2, <2>7, <4>1 DEF UpIsChecked
      <4>2. CASE h.error # "aborted"
          BY <2>7, <4>2 DEF UpIsChecked
      <4> QED
          BY <4>1, <4>2
    <3>4. SocketKnown'
        BY <1>0, <2>1, <2>7 DEF SocketKnown
    <3> QED
        BY <1>0, <2>1, <2>7, <3>2, <3>3, <3>4
        DEF ListenerInv, SessionOver, LastReportTrue, DownIsNotChecked, BeliefCatchesUp, stereoVars
  <2> QED
      BY <1>10, <2>4, <2>5, <2>6, <2>7 DEF RunCheck
<1>11. ASSUME NEW s \in UserSource, UserSelects(s)
       PROVE  ListenerInv'
  <2>1. /\ s \in Source /\ reports \in Seq(Source) /\ stereo' = s
        /\ reports' = IF session = "up" THEN Append(reports, s) ELSE reports
        /\ UNCHANGED <<session, values, checkVars, armed, ready, link, behind>>
      BY <1>0, <1>11, SourcesAreSources DEF UserSelects, ListenerTypeOK
  <2>2. /\ reports' \in Seq(Source)
        /\ session = "up" => reports' # <<>> /\ reports'[Len(reports')] = s
      BY <2>1
  <2>3. ListenerTypeOK'
      BY <1>0, <2>1, <2>2 DEF ListenerTypeOK, checkVars
  <2> QED
      BY <1>0, <2>1, <2>2, <2>3
      DEF ListenerInv, SessionOver, SocketKnown, LastReportTrue, UpIsChecked, DownIsNotChecked,
          BeliefCatchesUp, checkVars
<1>12. CASE Answers
  <2>1. /\ reports \in Seq(Source) /\ stereo \in Source /\ session = "up"
        /\ reports' = Append(reports, stereo) /\ behind' = FALSE
        /\ UNCHANGED <<session, values, checkVars, armed, ready, link, stereo>>
      BY <1>0, <1>12 DEF Answers, ListenerTypeOK
  <2>2. reports' \in Seq(Source) /\ reports' # <<>> /\ reports'[Len(reports')] = stereo
      BY <2>1
  <2>3. behind' \in BOOLEAN
      BY <2>1
  <2>4. ListenerTypeOK'
      BY <1>0, <2>1, <2>2, <2>3 DEF ListenerTypeOK, checkVars
  <2> QED
      BY <1>0, <2>1, <2>2, <2>4
      DEF ListenerInv, SessionOver, SocketKnown, LastReportTrue, UpIsChecked, DownIsNotChecked,
          BeliefCatchesUp, checkVars
<1>13. CASE UNCHANGED listenerVars
  <2>1. ListenerTypeOK'
      BY <1>0, <1>13 DEF listenerVars, ListenerTypeOK, checkVars, stereoVars
  <2> QED
      BY <1>0, <1>13, <2>1
      DEF listenerVars, ListenerInv, SessionOver, SocketKnown, LastReportTrue, UpIsChecked,
          DownIsNotChecked, BeliefCatchesUp, checkVars, stereoVars
<1> QED
    BY <1>1, <1>2, <1>3, <1>4, <1>5, <1>6, <1>7, <1>8, <1>9, <1>10, <1>11, <1>12, <1>13
    DEF ListenerNext

-----------------------------------------------------------------------------
(* The listener: the theorems.                                             *)

\* The invariant of listener.cc through every order of links, checks, lines, reports,
\* sessions and restarts.
THEOREM ListenerInvHolds == ListenerSpec => []ListenerInv
<1>1. ListenerInv /\ [ListenerNext]_listenerVars => ListenerInv'
    BY ListenerNextInv
<1> QED
    BY <1>1, ListenerInitInv, PTL DEF ListenerSpec

\* The listener's state is always of its type.
THEOREM ListenerTypeCorrect == ListenerSpec => []ListenerTypeOK
<1>1. ListenerInv => ListenerTypeOK
    BY DEF ListenerInv
<1> QED
    BY <1>1, ListenerInvHolds, PTL

\* A playstation believed up is being checked, or its check was given up or lost, for
\* any number of checks.
THEOREM UpAlwaysChecked == ListenerSpec => []UpIsChecked
<1>1. ListenerInv => UpIsChecked
    BY DEF ListenerInv
<1> QED
    BY <1>1, ListenerInvHolds, PTL

\* One believed down is not.
THEOREM DownNeverChecked == ListenerSpec => []DownIsNotChecked
<1>1. ListenerInv => DownIsNotChecked
    BY DEF ListenerInv
<1> QED
    BY <1>1, ListenerInvHolds, PTL

\* Once the reports are read the receiver's source is known.
THEOREM BeliefAlwaysCatchesUp == ListenerSpec => []BeliefCatchesUp
<1>1. ListenerInv => BeliefCatchesUp
    BY DEF ListenerInv
<1> QED
    BY <1>1, ListenerInvHolds, PTL

\* A check that ends late, of whichever socket, makes only a playstation really up that
\* is up: a socket of this session means one.
THEOREM ReallyUpAlwaysWasUp == ListenerSpec => ReallyUpWasUp
<1> DEFINE Step == values'["playstation"] = "really_up" =>
                       values["playstation"] \in {"up", "really_up"}
<1>1. ASSUME ListenerInv, [ListenerNext]_listenerVars
      PROVE  [Step]_listenerVars
  <2>0. /\ "playstation" \in Device /\ "playstation" \in Phy /\ "playstation" # "audio_source"
        /\ SocketKnown
        /\ DOMAIN values = Device \union {"audio_source"}
      BY <1>1, ListenerAssumption DEF ListenerInv, ListenerTypeOK, Phy
  <2>1. ASSUME values'["playstation"] = values["playstation"]
        PROVE  Step
      BY <2>1
  <2>2. ASSUME values' = NothingHeard
        PROVE  Step
      BY <2>0, <2>2 DEF NothingHeard, Unset
  <2>3. ASSUME NEW d, NEW v, NEW rest, Update(d, v, rest),
               d # "playstation" \/ v # "really_up" \/ socket = "here"
        PROVE  Step
    <3>1. CASE socket = "here"
        BY <2>0, <3>1 DEF SocketKnown
    <3>2. CASE d # "playstation" \/ v # "really_up"
      <4>1. CASE values' = values
          BY <4>1
      <4>2. CASE Die
          BY <2>2, <4>2 DEF Die
      <4>3. CASE values' = [values EXCEPT ![d] = v]
          BY <2>0, <3>2, <4>3
      <4> QED
          BY <2>3, <4>1, <4>2, <4>3 DEF Update
    <3> QED
        BY <2>3, <3>1, <3>2
  <2>4. CASE HearSource
    <3>1. values'["playstation"] = values["playstation"]
        BY <2>0, <2>4 DEF HearSource
    <3> QED
        BY <2>1, <3>1
  <2>5. ASSUME NEW d \in Device \ Phy, NEW v \in Values(d), Line(d, v)
        PROVE  Step
    <3>1. d # "playstation"
        BY <2>0
    <3> QED
        BY <2>3, <2>5, <3>1 DEF Line
  <2>6. CASE RunLink
    <3>1. ready \in Seq(Handler) /\ ready # <<>> /\ ~IsCheck(ready[1])
        BY <1>1, <2>6 DEF RunLink, ListenerInv, ListenerTypeOK
    <3>2. ready[1].line # "really_up"
        BY <3>1, Taken, HandlerKinds
    <3> QED
        BY <2>3, <2>6, <3>2 DEF RunLink
  <2>7. CASE RunCheck
    <3>1. CASE socket = "here"
        BY <2>0, <3>1 DEF SocketKnown
    <3>2. CASE values' = values
        BY <3>2
    <3>3. CASE Die
        BY <2>2, <3>3 DEF Die
    <3> QED
        BY <2>7, <3>1, <3>2, <3>3 DEF RunCheck
  <2>8. CASE Dies
      BY <2>2, <2>8 DEF Dies, Die
  <2>9. CASE \/ Start \/ SessionEnds \/ Answers
             \/ \E d \in Phy : LinkChanges(d) \/ TimerExpires(d)
             \/ \E error \in {"success", "refused", "other"} : ConnectDone(error)
             \/ \E s \in UserSource : UserSelects(s)
    <3>1. values' = values
        BY <2>9 DEF Start, SessionEnds, Answers, LinkChanges, TimerExpires, ConnectDone, UserSelects
    <3> QED
        BY <3>1
  <2> QED
      BY <1>1, <2>4, <2>5, <2>6, <2>7, <2>8, <2>9 DEF ListenerNext
<1> QED
    BY <1>1, ListenerInvHolds, PTL DEF ListenerSpec, ReallyUpWasUp
===============================================================================
