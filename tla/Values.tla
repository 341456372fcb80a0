-------------------------------- MODULE Values --------------------------------
(***************************************************************************)
(* A value on its way: what the devices say of it (the update functions of *)
(* lge_status.cc and marantz_status.cc), how notify() writes it into a     *)
(* STAT (base64.c), and what the callbacks of cli_notify.c read there.     *)
(*                                                                         *)
(* A character is its code.  Several codes of one answer are notified one  *)
(* after the other; here each is a kind of its own.                        *)
(***************************************************************************)
EXTENDS Integers, Sequences

Least == -2147483647 - 1    \* INT_MIN, which stands for "-FF" and for a refused answer

Char == 0 .. 255

\* The i-th character of s, and the terminating 0 behind it.
At(s, i) == IF i \in DOMAIN s THEN s[i] ELSE 0

-----------------------------------------------------------------------------
(* base64.c: 24 bits in four characters. *)

\* The table base64.
Letter64(d) ==
    IF d < 26 THEN d + 65 ELSE
    IF d < 52 THEN d + 71 ELSE
    IF d < 62 THEN d - 4  ELSE
    IF d = 62 THEN 43 ELSE 47

\* The table debase64, of the characters from + to z.
Digit64(c) ==
    IF c = 43          THEN 62     ELSE
    IF c = 47          THEN 63     ELSE
    IF c \in 48 .. 57  THEN c + 4  ELSE
    IF c \in 65 .. 90  THEN c - 65 ELSE
    IF c \in 97 .. 122 THEN c - 71 ELSE 0

\* Of the characters with a 0 in the table, A is the one that means it.
Is64(c) == c = 65 \/ Digit64(c) # 0

\* Mutant of Base64Int24: the sign is left out.
Base64Nat24(src) ==
    << Letter64((src \div 262144) % 32), Letter64((src \div 4096) % 64),
       Letter64((src \div 64) % 64), Letter64(src % 64) >>

Base64Int24(src) ==
    << Letter64((IF src < 0 THEN 32 ELSE 0) + ((src \div 262144) % 32)),
       Letter64((src \div 4096) % 64),
       Letter64((src \div 64) % 64),
       Letter64(src % 64) >>

\* What the first digit counts for: its high bit is the sign.
Signed64(d) == IF d >= 32 THEN d - 64 ELSE d

\* At a character that is none of base64 it returns what it has read so far.
Debase64Int24(s) ==
    LET a == Signed64(Digit64(At(s, 1)))
        b == a * 64 + Digit64(At(s, 2))
        c == b * 64 + Digit64(At(s, 3))
    IN  IF ~Is64(At(s, 1)) THEN 0 ELSE
        IF ~Is64(At(s, 2)) THEN a ELSE
        IF ~Is64(At(s, 3)) THEN b ELSE
        IF ~Is64(At(s, 4)) THEN c ELSE c * 64 + Digit64(At(s, 4))

\* What is left of an integer in 24 bits: its sign and its lowest 23 bits.
Clipped(v) == (v % 8388608) - (IF v < 0 THEN 8388608 ELSE 0)

-----------------------------------------------------------------------------
(* The C library's atoi() and strtol() of base 16. *)

\* What the character c counts for as a digit, -1 if it is none.
Numeral(c, base) ==
    CASE c \in 48 .. 57 -> c - 48
      [] base = 16 /\ c \in 65 .. 70  -> c - 55
      [] base = 16 /\ c \in 97 .. 102 -> c - 87
      [] OTHER -> -1

Signs == {43, 45}

\* What is read of s from there on, up to each place: the number, and whether it goes on.
Reading(s, base, from) ==
    LET read[i \in (from - 1) .. Len(s)] ==
            IF i = from - 1 THEN <<0, TRUE>>
            ELSE IF read[i - 1][2] /\ Numeral(s[i], base) # -1
                 THEN <<read[i - 1][1] * base + Numeral(s[i], base), TRUE>>
                 ELSE <<read[i - 1][1], FALSE>>
    IN  read

\* The number at the beginning of s, 0 if there is none.
Strtol(s, base) ==
    LET from == IF At(s, 1) \in Signs THEN 2 ELSE 1
        n == IF s = <<>> THEN 0 ELSE Reading(s, base, from)[Len(s)][1]
    IN  IF At(s, 1) = 45 THEN -n ELSE n

Atoi(s) == Strtol(s, 10)

-----------------------------------------------------------------------------
(* The update functions: what notify() is called with. *)

\* update_tv_channel: four hexadecimal digits, of which A to F count from 0.
ChannelDigit(c) ==
    CASE c \in 48 .. 57  -> c - 48
      [] c \in 65 .. 70  -> c - 65
      [] c \in 97 .. 102 -> c - 97
      [] OTHER -> 0

TvChannel(arg) ==
    ((ChannelDigit(At(arg, 1)) * 16 + ChannelDigit(At(arg, 2))) * 16
        + ChannelDigit(At(arg, 3))) * 16 + ChannelDigit(At(arg, 4))

\* update_source of the television: the HDMI inputs come with another number.
TvSource(n) == IF n \in 160 .. 175 THEN 256 + n - 16 ELSE 256 + n

LgeKind == {"tv bool", "tv int", "tv band", "tv channel", "tv source"}

\* The television says OK or NG before the argument.
LgeValue(kind, ok, arg) ==
    IF ok
      THEN CASE kind = "tv bool"    -> Atoi(arg)
             [] kind = "tv int"     -> Strtol(arg, 16)
             [] kind = "tv band"    -> At(arg, 5) - 48
             [] kind = "tv channel" -> TvChannel(arg)
             [] kind = "tv source"  -> TvSource(Strtol(arg, 16))
      ELSE IF kind = "tv int" THEN Least ELSE -1

\* parse_ma_bool() of the i-th character.
MaBool(arg, i) == IF At(arg, i) = 50 THEN 1 ELSE 0

\* parse_ma_string(): without the blanks at the end.
MaString(arg) ==
    SubSeq(arg, 1, CHOOSE n \in 0 .. Len(arg) :
                       /\ \A i \in n + 1 .. Len(arg) : arg[i] = 32
                       /\ n > 0 => arg[n] # 32)

\* update_volume: "-FF" is no sound at all.
MaVolume(arg) == IF arg = <<45, 70, 70>> THEN Least ELSE Atoi(arg)

TunerBand(frequency) ==
    CASE frequency < 256 -> 0
      [] frequency \in 256 .. 1999 -> 1
      [] OTHER -> 2

MaKind == {"bool", "int", "direct", "second", "string", "volume", "band", "category",
           "tone on", "tone auto", "tone channel", "trigger"}

\* "second" is what SRCA and MSCA are of an answer about both sources.
MaValue(kind, arg) ==
    CASE kind \in {"bool", "tone on"} -> MaBool(arg, 1)
      [] kind = "int"          -> Atoi(arg)
      [] kind = "direct"       -> At(arg, 1)
      [] kind = "second"       -> At(arg, 2)
      [] kind = "string"       -> MaString(arg)
      [] kind = "volume"       -> MaVolume(arg)
      [] kind = "band"         -> TunerBand(Atoi(arg))
      [] kind = "category"     -> Atoi(SubSeq(arg, 2, Len(arg)))
      [] kind = "tone auto"    -> IF MaBool(arg, 1) = 1 /\ At(arg, 2) = 48 THEN 1 ELSE 0
      [] kind = "tone channel" -> IF MaBool(arg, 1) = 1 THEN At(arg, 3) ELSE 0
      [] kind = "trigger"      -> MaBool(arg, 2)

\* A channel status is stored and notified to nobody.
Kind == LgeKind \union MaKind \union {"silent"}

\* What a device says.
Saying == [ok : BOOLEAN, arg : Seq(Char)]

\* Whether what the device says is about the code: of the DC triggers it is the first.
About(kind, said) == kind = "trigger" => At(said.arg, 1) = 49

\* Whether notify() is called.
Notified(kind, said) == kind # "silent" /\ About(kind, said)

Value(kind, said) ==
    IF kind \in LgeKind THEN LgeValue(kind, said.ok, said.arg) ELSE MaValue(kind, said.arg)

-----------------------------------------------------------------------------
(* status::notify, and the callbacks of cli_notify.c. *)

\* The argument of the STAT.
Payload(kind, v) == IF kind = "string" THEN v ELSE Base64Int24(v)

\* What notify_string_cb, notify_int_cb or the callback of an enumeration, which names each
\* of its values and shows others as numbers, shows.
Shows(kind, payload) == IF kind = "string" THEN payload ELSE Debase64Int24(payload)
===============================================================================
