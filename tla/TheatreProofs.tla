----------------------------- MODULE TheatreProofs -----------------------------
(***************************************************************************)
(* The living room, for any devices, any inputs that are selected by hand, *)
(* any number of reports on their way and any number of bytes in a read:   *)
(* what the listener believes of the receiver and of airplay once all is   *)
(* heard, and what it therefore does to the receiver and the television.   *)
(***************************************************************************)
EXTENDS Theatre, SequenceTheorems, WellFoundedInduction, TLAPS

Half   == {"on", "off"} \X {1, 2}
Rep    == [stat : Stats, value : Source \union {"on", "off"}]
Heards == Source \union {Unset, "up", "really_up", "down", "on", "off", "other"}

-----------------------------------------------------------------------------
(* Lemmas about sequences.                                                 *)

\* What a sequence is with another behind it.
LEMMA Behind ==
    ASSUME NEW R, NEW r \in Seq(R), NEW q \in Seq(R)
    PROVE  /\ r \o q \in Seq(R) /\ Len(r) \in Nat /\ Len(q) \in Nat
           /\ DOMAIN r = 1 .. Len(r) /\ DOMAIN q = 1 .. Len(q)
           /\ DOMAIN (r \o q) = 1 .. Len(r) + Len(q) /\ Len(r \o q) = Len(r) + Len(q)
           /\ \A i \in 1 .. Len(r) : (r \o q)[i] = r[i]
           /\ \A i \in 1 .. Len(q) : Len(r) + i \in 1 .. Len(r) + Len(q) /\ (r \o q)[Len(r) + i] = q[i]
           /\ \A i \in 1 .. Len(r) + Len(q) :
                 i \in 1 .. Len(r) \/ \E j \in 1 .. Len(q) : i = Len(r) + j
<1> DEFINE s == r \o q
<1>1. /\ s \in Seq(R) /\ Len(s) = Len(r) + Len(q) /\ Len(r) \in Nat /\ Len(q) \in Nat
      /\ \A i \in 1 .. Len(r) + Len(q) : s[i] = IF i <= Len(r) THEN r[i] ELSE q[i - Len(r)]
    BY ConcatProperties
<1> HIDE DEF s
<1>2. DOMAIN r = 1 .. Len(r) /\ DOMAIN q = 1 .. Len(q) /\ DOMAIN s = 1 .. Len(r) + Len(q)
    BY <1>1
<1>3. \A i \in 1 .. Len(r) : s[i] = r[i]
    BY <1>1
<1>4. ASSUME NEW i \in 1 .. Len(q)
      PROVE  Len(r) + i \in 1 .. Len(r) + Len(q) /\ s[Len(r) + i] = q[i]
  <2>1. Len(r) + i \in 1 .. Len(r) + Len(q) /\ ~(Len(r) + i <= Len(r)) /\ (Len(r) + i) - Len(r) = i
      BY <1>1
  <2> QED
      BY <1>1, <2>1
<1>5. ASSUME NEW i \in 1 .. Len(r) + Len(q), i \notin 1 .. Len(r)
      PROVE  \E j \in 1 .. Len(q) : i = Len(r) + j
  <2>1. i - Len(r) \in 1 .. Len(q) /\ i = Len(r) + (i - Len(r))
      BY <1>1, <1>5
  <2> QED
      BY <2>1
<1> QED
    BY <1>1, <1>2, <1>3, <1>4, <1>5 DEF s

\* Reports of something else say nothing new of stat.
LEMMA SaysNoMore ==
    ASSUME NEW r \in Seq(Rep), NEW q \in Seq(Rep), NEW stat, NEW v,
           SaysLast(r, stat, v), About(q, stat) = {}
    PROVE  /\ SaysLast(r \o q, stat, v)
           /\ About(r \o q, stat) = {} => About(r, stat) = {}
<1> DEFINE s == r \o q
<1>1. /\ Len(r) \in Nat /\ Len(q) \in Nat
      /\ DOMAIN r = 1 .. Len(r) /\ DOMAIN q = 1 .. Len(q) /\ DOMAIN s = 1 .. Len(r) + Len(q)
      /\ \A i \in 1 .. Len(r) : s[i] = r[i]
      /\ \A i \in 1 .. Len(q) : s[Len(r) + i] = q[i]
      /\ \A i \in 1 .. Len(r) + Len(q) : i \in 1 .. Len(r) \/ \E j \in 1 .. Len(q) : i = Len(r) + j
    BY Behind
<1> HIDE DEF s
<1>2. ASSUME NEW i \in About(s, stat)
      PROVE  i \in About(r, stat) /\ s[i] = r[i]
  <2>1. i \in 1 .. Len(r) + Len(q) /\ s[i].stat = stat
      BY <1>1 DEF About
  <2>2. ASSUME NEW j \in 1 .. Len(q), i = Len(r) + j
        PROVE  FALSE
    <3>1. j \in About(q, stat)
        BY <1>1, <2>1, <2>2 DEF About
    <3> QED
        BY <3>1
  <2>3. i \in 1 .. Len(r)
      BY <1>1, <2>1, <2>2
  <2> QED
      BY <1>1, <2>1, <2>3 DEF About
<1>3. \A i \in About(r, stat) : i \in About(s, stat)
    BY <1>1 DEF About
<1>4. SaysLast(s, stat, v)
    BY <1>2, <1>3 DEF SaysLast
<1>5. About(s, stat) = {} => About(r, stat) = {}
    BY <1>3
<1> QED
    BY <1>4, <1>5 DEF s

\* Reports of stat say the last of it, whatever was said before.
LEMMA SaysNow ==
    ASSUME NEW r \in Seq(Rep), NEW q \in Seq(Rep), NEW stat, NEW v,
           SaysLast(q, stat, v), About(q, stat) # {}
    PROVE  SaysLast(r \o q, stat, v) /\ About(r \o q, stat) # {}
<1> DEFINE s == r \o q
<1>1. /\ Len(r) \in Nat /\ Len(q) \in Nat
      /\ DOMAIN r = 1 .. Len(r) /\ DOMAIN q = 1 .. Len(q) /\ DOMAIN s = 1 .. Len(r) + Len(q)
      /\ \A i \in 1 .. Len(r) : s[i] = r[i]
      /\ \A i \in 1 .. Len(q) : Len(r) + i \in 1 .. Len(r) + Len(q) /\ s[Len(r) + i] = q[i]
      /\ \A i \in 1 .. Len(r) + Len(q) : i \in 1 .. Len(r) \/ \E j \in 1 .. Len(q) : i = Len(r) + j
    BY Behind
<1> HIDE DEF s
<1>2. \A j \in About(q, stat) : Len(r) + j \in About(s, stat) /\ j \in 1 .. Len(q)
    BY <1>1 DEF About
<1>3. PICK k \in About(q, stat) : TRUE
    OBVIOUS
<1>4. ASSUME NEW i \in About(s, stat), \A j \in About(s, stat) : j <= i
      PROVE  s[i].value = v
  <2>1. Len(r) + k <= i /\ k \in 1 .. Len(q) /\ i \in 1 .. Len(r) + Len(q) /\ s[i].stat = stat
      BY <1>1, <1>2, <1>3, <1>4 DEF About
  <2>2. PICK j \in 1 .. Len(q) : i = Len(r) + j
    <3>1. i \notin 1 .. Len(r)
        BY <1>1, <2>1
    <3> QED
        BY <1>1, <2>1, <3>1
  <2>3. j \in About(q, stat) /\ s[i] = q[j]
      BY <1>1, <2>1, <2>2 DEF About
  <2>4. ASSUME NEW n \in About(q, stat)
        PROVE  n <= j
      BY <1>1, <1>2, <1>4, <2>2
  <2> QED
      BY <2>3, <2>4 DEF SaysLast
<1>5. About(s, stat) # {}
    BY <1>2, <1>3
<1> QED
    BY <1>4, <1>5 DEF s, SaysLast

\* Among some places of a sequence there is a last.
LEMMA LastOfSome ==
    ASSUME NEW n \in Nat, NEW P \in SUBSET (1 .. n), P # {}
    PROVE  \E i \in P : \A j \in P : j <= i
<1> DEFINE T == { n - i : i \in P }
<1>1. PICK m \in T : \A k \in T : ~(k < m)
  <2>1. T \in SUBSET Nat /\ T # {}
    <3>1. \A i \in P : n - i \in Nat
        OBVIOUS
    <3>2. T \subseteq Nat
        BY <3>1, Zenon
    <3> QED
        BY <3>2
  <2> HIDE DEF T
  <2>2. PICK m \in T : \A k \in T : <<k, m>> \notin OpToRel(<, Nat)
      BY <2>1, NatLessThanWellFounded, WFMin, Zenon
  <2>3. \A k \in T : ~(k < m)
      BY <2>1, <2>2, Zenon DEF OpToRel
  <2> QED
      BY <2>3
<1>2. PICK i \in P : m = n - i
    OBVIOUS
<1>3. ASSUME NEW j \in P
      PROVE  j <= i
  <2>1. n - j \in T /\ n - j \in Nat /\ n - i \in Nat
      BY <1>2
  <2>2. ~(n - j < n - i)
      BY <1>1, <1>2, <2>1
  <2> QED
      BY <2>1, <2>2
<1> QED
    BY <1>3

-----------------------------------------------------------------------------
(* The receiver and the television.                                        *)

\* What the receiver does of itself or for a command it reports, and truly.
LEMMA StereoReports ==
    ASSUME reports \in Seq(Rep), power \in {"on", "off"}, source \in Source, stray \in BOOLEAN,
           \A stat \in Stats : SaysLast(reports, stat, Actual(stat)),
           NEW p \in {"on", "off"}, NEW s \in Seq(Source), Stereo(p, s)
    PROVE  /\ reports' \in Seq(Rep) /\ power' \in {"on", "off"} /\ source' \in Source /\ stray' \in BOOLEAN
           /\ \A stat \in Stats :
                 /\ SaysLast(reports', stat, Actual(stat)')
                 /\ About(reports', stat) = {} => About(reports, stat) = {} /\ Actual(stat)' = Actual(stat)
           /\ OnUnread \/ (p = "on" /\ power = "off") => OnUnread'
           /\ power' = p
<1> DEFINE a == IF p = power THEN <<>> ELSE Reported("power", <<p>>)
           b == Reported("audio_source", s)
           r == reports \o a
<1>1. /\ power' = p /\ reports' = r \o b /\ source' = (IF s = <<>> THEN source ELSE s[Len(s)])
      /\ stray' = (stray \/ (p = "off" /\ "power" \in unasked /\ tv = "on"))
    BY DEF Stereo
<1>2. Len(s) \in Nat /\ DOMAIN s = 1 .. Len(s) /\ \A i \in 1 .. Len(s) : s[i] \in Source
    OBVIOUS
<1>3. /\ b \in Seq(Rep) /\ DOMAIN b = 1 .. Len(s)
      /\ \A i \in 1 .. Len(s) : b[i].stat = "audio_source" /\ b[i].value = s[i]
    BY <1>2 DEF Reported, Rep, Stats
<1>4. /\ a \in Seq(Rep)
      /\ p = power => a = <<>>
      /\ p # power => a = << [stat |-> "power", value |-> p] >>
  <2>1. Reported("power", <<p>>) = << [stat |-> "power", value |-> p] >>
      BY DEF Reported
  <2>2. << [stat |-> "power", value |-> p] >> \in Seq(Rep) /\ <<>> \in Seq(Rep)
      BY DEF Rep, Stats
  <2> QED
      BY <2>1, <2>2
<1> HIDE DEF a, b
<1>5. source' \in Source /\ (s # <<>> => Len(s) \in 1 .. Len(s))
    BY <1>1, <1>2
<1>6. /\ r \in Seq(Rep) /\ r \o b \in Seq(Rep)
      /\ DOMAIN reports = 1 .. Len(reports) /\ DOMAIN r = 1 .. Len(r)
      /\ DOMAIN r = 1 .. Len(reports) + Len(a) /\ DOMAIN (r \o b) = 1 .. Len(r) + Len(b)
      /\ Len(reports) \in Nat /\ Len(a) \in Nat /\ Len(b) \in Nat /\ Len(r) \in Nat
      /\ \A i \in 1 .. Len(reports) : r[i] = reports[i]
      /\ \A i \in 1 .. Len(a) : Len(reports) + i \in 1 .. Len(reports) + Len(a) /\ r[Len(reports) + i] = a[i]
      /\ \A i \in 1 .. Len(r) : (r \o b)[i] = r[i]
  <2>1. r \in Seq(Rep)
      BY <1>4, Behind
  <2> QED
      BY <1>3, <1>4, <2>1, Behind
<1> HIDE DEF r
<1>7. About(a, "audio_source") = {} /\ About(b, "power") = {}
    BY <1>3, <1>4 DEF About
<1>8. SaysLast(r, "power", p) /\ (About(r, "power") = {} => About(reports, "power") = {} /\ p = power)
  <2>1. CASE p = power
    <3>1. About(a, "power") = {} /\ SaysLast(reports, "power", p)
        BY <1>4, <2>1 DEF About, Actual, Stats
    <3> QED
        BY <1>4, <2>1, <3>1, SaysNoMore DEF r
  <2>2. CASE p # power
    <3>1. About(a, "power") # {} /\ SaysLast(a, "power", p)
        BY <1>4, <2>2 DEF About, SaysLast
    <3> QED
        BY <1>4, <3>1, SaysNow DEF r
  <2> QED
      BY <2>1, <2>2
<1>9. /\ SaysLast(reports', "power", power')
      /\ About(reports', "power") = {} => About(reports, "power") = {} /\ power' = power
    BY <1>1, <1>3, <1>6, <1>7, <1>8, SaysNoMore
<1>10. SaysLast(r, "audio_source", source) /\ (About(r, "audio_source") = {} => About(reports, "audio_source") = {})
  <2>1. SaysLast(reports, "audio_source", source)
      BY DEF Actual, Stats
  <2> QED
      BY <1>4, <1>7, <2>1, SaysNoMore DEF r
<1>11. /\ SaysLast(reports', "audio_source", source')
       /\ About(reports', "audio_source") = {} => About(reports, "audio_source") = {} /\ source' = source
  <2>1. CASE s = <<>>
    <3>1. About(b, "audio_source") = {} /\ source' = source
        BY <1>1, <1>2, <1>3, <2>1 DEF About
    <3> QED
        BY <1>1, <1>3, <1>6, <1>10, <3>1, SaysNoMore
  <2>2. CASE s # <<>>
    <3>1. Len(s) \in About(b, "audio_source") /\ \A j \in About(b, "audio_source") : j \in 1 .. Len(s)
        BY <1>3, <1>5, <2>2 DEF About
    <3>2. SaysLast(b, "audio_source", source')
      <4>1. ASSUME NEW i \in About(b, "audio_source"), \A j \in About(b, "audio_source") : j <= i
            PROVE  b[i].value = source'
          BY <1>1, <1>2, <1>3, <2>2, <3>1, <4>1
      <4> QED
          BY <4>1 DEF SaysLast
    <3> QED
        BY <1>1, <1>3, <1>6, <3>1, <3>2, SaysNow
  <2> QED
      BY <2>1, <2>2
<1>12. OnUnread \/ (p = "on" /\ power = "off") => OnUnread'
  <2>1. ASSUME NEW i \in DOMAIN r, r[i] = [stat |-> "power", value |-> "on"]
        PROVE  OnUnread'
    <3>1. i \in 1 .. Len(r) + Len(b) /\ i \in 1 .. Len(r)
        BY <1>6
    <3>2. i \in DOMAIN reports' /\ reports'[i] = [stat |-> "power", value |-> "on"]
        BY <1>1, <1>6, <2>1, <3>1
    <3> QED
        BY <3>2 DEF OnUnread
  <2>2. CASE OnUnread
    <3>1. PICK i \in DOMAIN reports : reports[i] = [stat |-> "power", value |-> "on"]
        BY <2>2 DEF OnUnread
    <3>2. i \in DOMAIN r /\ r[i] = reports[i]
        BY <1>6
    <3> QED
        BY <2>1, <3>1, <3>2
  <2>3. CASE p = "on" /\ power = "off"
    <3>1. a = << [stat |-> "power", value |-> "on"] >>
        BY <1>4, <2>3
    <3>2. Len(a) = 1 /\ a[1] = [stat |-> "power", value |-> "on"]
        BY <3>1
    <3>3. Len(reports) + 1 \in DOMAIN r /\ r[Len(reports) + 1] = a[1]
        BY <1>6, <3>2
    <3> QED
        BY <2>1, <3>2, <3>3
  <2> QED
      BY <2>2, <2>3
<1>13. \A stat \in Stats : stat = "power" \/ stat = "audio_source"
    BY DEF Stats
<1> QED
    BY <1>1, <1>5, <1>6, <1>9, <1>11, <1>12, <1>13 DEF Actual

OutsideTypeOK ==
    /\ power \in {"on", "off"} /\ source \in Source /\ tv \in {"on", "off"}
    /\ reports \in Seq(Rep) /\ stray \in BOOLEAN

\* The primed forms, unfolded as far as the proofs need them.
LEMMA ReportsFollowIs ==
    ReportsFollow' <=>
        /\ ~up' => reports' = <<>> /\ unasked' = {}
        /\ \A stat \in Stats :
              /\ SaysLast(reports', stat, Actual(stat)')
              /\ up' /\ stat \notin unasked' /\ About(reports', stat) = {} => values'[stat] = Actual(stat)'
BY DEF ReportsFollow, SaysLast, About

\* Whatever commands a session sends, what is heard of them stays true; and a television
\* it switches on will hear when the receiver goes off.
LEMMA CommandsKeep ==
    ASSUME OutsideTypeOK, ReportsFollow, OffIsNews, up, up' = up, unasked' = unasked,
           values'["power"] = values["power"], values'["audio_source"] = values["audio_source"],
           \/ UNCHANGED <<stereoVars, tv, stray>>
           \/ \E p \in {"on", "off"}, s \in Seq(Source) :
                 Stereo(p, s) /\ (tv' = tv \/ (p = "on" /\ tv' = "on"))
           \/ UNCHANGED stereoVars /\ tv' = "on" /\ stray' = TRUE
    PROVE  ReportsFollow' /\ OffIsNews' /\ OutsideTypeOK'
<1>1. \A stat \in Stats : /\ SaysLast(reports, stat, Actual(stat))
                          /\ stat \notin unasked /\ About(reports, stat) = {} => values[stat] = Actual(stat)
    BY DEF ReportsFollow
<1>2. \A stat \in Stats : values'[stat] = values[stat]
    BY DEF Stats
<1>3. ASSUME UNCHANGED stereoVars, tv' \in {"on", "off"}, stray' \in BOOLEAN
      PROVE  ReportsFollow' /\ OutsideTypeOK' /\ (OnUnread <=> OnUnread')
  <2>1. power' = power /\ source' = source /\ reports' = reports
      BY <1>3 DEF stereoVars
  <2>2. OutsideTypeOK' /\ (OnUnread <=> OnUnread')
      BY <1>3, <2>1 DEF OutsideTypeOK, OnUnread
  <2>3. \A stat \in Stats : Actual(stat)' = Actual(stat)
      BY <2>1 DEF Actual
  <2> QED
      BY <1>1, <1>2, <2>1, <2>2, <2>3, ReportsFollowIs
<1>4. CASE UNCHANGED <<stereoVars, tv, stray>>
  <2>1. tv' = tv /\ stray' = stray /\ UNCHANGED stereoVars /\ power' = power
      BY <1>4 DEF stereoVars
  <2>2. ReportsFollow' /\ OutsideTypeOK' /\ (OnUnread <=> OnUnread')
      BY <1>3, <2>1 DEF OutsideTypeOK
  <2> QED
      BY <2>1, <2>2 DEF OffIsNews
<1>5. ASSUME NEW p \in {"on", "off"}, NEW s \in Seq(Source), Stereo(p, s),
             tv' = tv \/ (p = "on" /\ tv' = "on")
      PROVE  ReportsFollow' /\ OffIsNews' /\ OutsideTypeOK'
  <2>1. /\ reports' \in Seq(Rep) /\ power' \in {"on", "off"} /\ source' \in Source /\ stray' \in BOOLEAN
        /\ \A stat \in Stats :
              /\ SaysLast(reports', stat, Actual(stat)')
              /\ About(reports', stat) = {} => About(reports, stat) = {} /\ Actual(stat)' = Actual(stat)
        /\ OnUnread \/ (p = "on" /\ power = "off") => OnUnread'
        /\ power' = p
      BY <1>1, <1>5, StereoReports DEF OutsideTypeOK
  <2>2. ReportsFollow'
      BY <1>1, <1>2, <2>1, ReportsFollowIs
  <2>3. OutsideTypeOK'
      BY <1>5, <2>1 DEF OutsideTypeOK
  <2>4. stray' = (stray \/ (p = "off" /\ "power" \in unasked /\ tv = "on"))
      BY <1>5 DEF Stereo
  <2>5. ASSUME tv' = "on", ~stray'
        PROVE  values["power"] # "off" \/ OnUnread' \/ (up /\ "power" \in unasked /\ power' = "on")
    <3>1. CASE tv = "on"
        BY <2>1, <2>4, <2>5, <3>1 DEF OffIsNews, OutsideTypeOK
    <3>2. CASE tv # "on"
      <4>1. p = "on"
          BY <1>5, <2>5, <3>2
      <4>2. CASE power = "off" \/ OnUnread
          BY <2>1, <4>1, <4>2
      <4>3. CASE power # "off" /\ "power" \notin unasked /\ ~OnUnread
        <5>1. power = "on"
            BY <4>3 DEF OutsideTypeOK
        <5>2. SaysLast(reports, "power", "on")
            BY <1>1, <5>1 DEF Actual, Stats
        <5>3. CASE About(reports, "power") = {}
            BY <1>1, <4>3, <5>1, <5>3 DEF Actual, Stats
        <5>4. CASE About(reports, "power") # {}
          <6>1. Len(reports) \in Nat /\ DOMAIN reports = 1 .. Len(reports)
                /\ \A i \in 1 .. Len(reports) : reports[i] \in Rep
              BY DEF OutsideTypeOK
          <6>2. PICK i \in About(reports, "power") : \A j \in About(reports, "power") : j <= i
              BY <5>4, <6>1, LastOfSome DEF About
          <6>3. reports[i] = [stat |-> "power", value |-> "on"]
              BY <5>2, <6>1, <6>2 DEF SaysLast, About, Rep
          <6> QED
              BY <4>3, <6>1, <6>2, <6>3 DEF OnUnread, About
        <5> QED
            BY <5>3, <5>4
      <4>4. CASE "power" \in unasked
          BY <2>1, <4>1, <4>4
      <4> QED
          BY <4>2, <4>3, <4>4
    <3> QED
        BY <3>1, <3>2
  <2> QED
      BY <2>2, <2>3, <2>5 DEF OffIsNews
<1>6. CASE UNCHANGED stereoVars /\ tv' = "on" /\ stray' = TRUE
    BY <1>3, <1>6 DEF OffIsNews
<1> QED
    BY <1>4, <1>5, <1>6

\* A line about a device changes what is believed of it, and leads to nothing but commands.
LEMMA UpdateCommands ==
    ASSUME NEW d \in Device, NEW v, UpdateDevice(d, v), TheatreTypeOK
    PROVE  /\ values' = [values EXCEPT ![d] = v] /\ up' = up
           /\ \/ UNCHANGED <<stereoVars, tv, stray>>
              \/ \E p \in {"on", "off"}, s \in Seq(Source) :
                    Stereo(p, s) /\ (tv' = tv \/ (p = "on" /\ tv' = "on"))
              \/ UNCHANGED stereoVars /\ tv' = "on" /\ stray' = TRUE
<1>1. values' = [values EXCEPT ![d] = v] /\ up' = up
    BY DEF UpdateDevice, Heard
<1>2. power \in {"on", "off"} /\ \A x \in Source : <<x>> \in Seq(Source)
    BY DEF TheatreTypeOK
<1>3. \A e \in Device : SourceOf[e] \in Source
    BY TheatreAssumption DEF AllDevices, SourceOf, Source
<1> DEFINE Commands == \/ UNCHANGED <<stereoVars, tv, stray>>
                       \/ \E p \in {"on", "off"}, s \in Seq(Source) :
                             Stereo(p, s) /\ (tv' = tv \/ (p = "on" /\ tv' = "on"))
                       \/ UNCHANGED stereoVars /\ tv' = "on" /\ stray' = TRUE
<1> SUFFICES Commands
    BY <1>1
<1>4. CASE UNCHANGED <<stereoVars, tv, stray>>
    BY <1>4
<1>5. ASSUME NEW s \in Seq(Source), PowerOn(s)
      PROVE  Commands
    BY <1>5 DEF PowerOn
<1>6. CASE SwitchFrom(SourceOf[d], values')
  <2>1. tv' = tv
      BY <1>6 DEF SwitchFrom
  <2>2. CASE UNCHANGED <<stereoVars, stray>>
      BY <2>1, <2>2
  <2>3. CASE Stereo(power, <<"dvd">>) \/ Stereo("off", <<>>)
    <3>1. <<"dvd">> \in Seq(Source) /\ <<>> \in Seq(Source) /\ "off" \in {"on", "off"}
        BY <1>2 DEF Source
    <3> QED
        BY <1>2, <2>1, <2>3, <3>1
  <2>4. ASSUME NEW i \in OnIn(values'), Stereo(power, <<SourceOf[Chain[i]]>>)
        PROVE  Commands
    <3>1. <<SourceOf[Chain[i]]>> \in Seq(Source)
        BY <1>2, <1>3 DEF OnIn
    <3> QED
        BY <1>2, <2>1, <2>4, <3>1
  <2> QED
      BY <1>6, <2>2, <2>3, <2>4 DEF SwitchFrom
<1>7. CASE \E s \in Seq(Source) : PowerOn(s)
    BY <1>5, <1>7
<1>8. CASE Stereo(power, <<"dss", "aux1">>) /\ UNCHANGED tv
  <2>1. <<"dss", "aux1">> \in Seq(Source)
      BY DEF Source
  <2> QED
      BY <1>2, <1>8, <2>1
<1>9. <<"aux1", "dss", "aux1">> \in Seq(Source) /\ <<SourceOf[d]>> \in Seq(Source)
    BY <1>2, <1>3 DEF Source
<1> QED
    BY <1>1, <1>4, <1>6, <1>7, <1>8, <1>9 DEF UpdateDevice

\* One report less: what is left says the same at last, and if nothing of stat is left, the
\* report was the last of it, and true.
LEMMA SaysStill ==
    ASSUME NEW r \in Seq(Rep), r # <<>>, NEW stat, NEW v, SaysLast(r, stat, v)
    PROVE  /\ Tail(r) \in Seq(Rep) /\ r[1] \in Rep /\ 1 \in DOMAIN r
           /\ \A i \in DOMAIN r : i = 1 \/ \E j \in DOMAIN Tail(r) : Tail(r)[j] = r[i]
           /\ \A j \in DOMAIN Tail(r) : \E i \in DOMAIN r : Tail(r)[j] = r[i]
           /\ SaysLast(Tail(r), stat, v)
           /\ About(Tail(r), stat) = {} => IF r[1].stat = stat THEN r[1].value = v ELSE About(r, stat) = {}
<1> DEFINE t == Tail(r)
<1>1. /\ Len(r) \in Nat \ {0} /\ DOMAIN r = 1 .. Len(r) /\ t \in Seq(Rep) /\ Len(t) = Len(r) - 1
      /\ DOMAIN t = 1 .. Len(r) - 1
      /\ \A j \in 1 .. Len(r) - 1 : t[j] = r[j + 1]
  <2>1. t \in Seq(Rep) /\ Len(t) = Len(r) - 1 /\ \A j \in 1 .. Len(t) : t[j] = r[j + 1]
      BY HeadTailProperties
  <2>2. Len(r) \in Nat \ {0} /\ DOMAIN r = 1 .. Len(r)
      OBVIOUS
  <2> HIDE DEF t
  <2> QED
      BY <2>1, <2>2
<1> HIDE DEF t
<1>2. r[1] \in Rep /\ 1 \in DOMAIN r
    BY <1>1
<1>3. ASSUME NEW i \in DOMAIN r, i # 1
      PROVE  i - 1 \in DOMAIN t /\ t[i - 1] = r[i]
  <2>1. i - 1 \in 1 .. Len(r) - 1 /\ (i - 1) + 1 = i
      BY <1>1, <1>3
  <2> QED
      BY <1>1, <2>1
<1>4. ASSUME NEW j \in DOMAIN t
      PROVE  j + 1 \in DOMAIN r /\ t[j] = r[j + 1]
    BY <1>1
<1>5. SaysLast(t, stat, v)
  <2>1. ASSUME NEW j \in About(t, stat), \A n \in About(t, stat) : n <= j
        PROVE  t[j].value = v
    <3>1. j \in 1 .. Len(r) - 1 /\ j + 1 \in About(r, stat) /\ t[j] = r[j + 1]
        BY <1>1, <1>4 DEF About
    <3>2. ASSUME NEW n \in About(r, stat)
          PROVE  n <= j + 1
      <4>1. CASE n = 1
          BY <3>1, <4>1
      <4>2. CASE n # 1
        <5>1. n - 1 \in About(t, stat) /\ n \in 1 .. Len(r)
            BY <1>1, <1>3, <4>2 DEF About
        <5> QED
            BY <2>1, <3>1, <5>1
      <4> QED
          BY <4>1, <4>2
    <3> QED
        BY <3>1, <3>2 DEF SaysLast
  <2> QED
      BY <2>1 DEF SaysLast
<1>6. ASSUME About(t, stat) = {}
      PROVE  IF r[1].stat = stat THEN r[1].value = v ELSE About(r, stat) = {}
  <2>1. \A n \in About(r, stat) : n = 1 /\ r[1].stat = stat
      BY <1>3, <1>6 DEF About
  <2>2. CASE r[1].stat = stat
    <3>1. 1 \in About(r, stat) /\ \A n \in About(r, stat) : n <= 1
        BY <1>2, <2>1, <2>2 DEF About
    <3> QED
        BY <2>2, <3>1 DEF SaysLast
  <2>3. CASE r[1].stat # stat
      BY <2>1, <2>3
  <2> QED
      BY <2>2, <2>3
<1> QED
    BY <1>1, <1>2, <1>3, <1>4, <1>5, <1>6 DEF t

InsideTypeOK == up \in BOOLEAN /\ values \in [Device \union Stats -> Heards] /\ unasked \subseteq Stats

\* A device of the house is not a code of the receiver.
LEMMA DeviceIsNoStat ==
    /\ \A d \in Device : d \notin Stats
    /\ \A stat \in Stats : stat \in {"power", "audio_source"}
    /\ "power" \in Stats /\ "audio_source" \in Stats /\ "airplay" \in Device
BY TheatreAssumption DEF AllDevices, Stats

\* A line about a device, from whatever input.
LEMMA UpdateKeeps ==
    ASSUME TheatreTypeOK, ReportsFollow, OffIsNews, up, unasked' = unasked,
           NEW d \in Device, NEW v \in Heards, UpdateDevice(d, v)
    PROVE  ReportsFollow' /\ OffIsNews' /\ OutsideTypeOK' /\ InsideTypeOK'
<1>1. /\ values' = [values EXCEPT ![d] = v] /\ up' = up
      /\ \/ UNCHANGED <<stereoVars, tv, stray>>
         \/ \E p \in {"on", "off"}, s \in Seq(Source) :
               Stereo(p, s) /\ (tv' = tv \/ (p = "on" /\ tv' = "on"))
         \/ UNCHANGED stereoVars /\ tv' = "on" /\ stray' = TRUE
    BY UpdateCommands
<1>2. OutsideTypeOK /\ values \in [Device \union Stats -> Heards] /\ unasked \subseteq Stats /\ up \in BOOLEAN
    BY DEF TheatreTypeOK, OutsideTypeOK, Rep, Heards
<1>3. values'["power"] = values["power"] /\ values'["audio_source"] = values["audio_source"]
    BY <1>1, <1>2, DeviceIsNoStat
<1>4. InsideTypeOK'
    BY <1>1, <1>2 DEF InsideTypeOK
<1> QED
    BY <1>1, <1>2, <1>3, <1>4, CommandsKeep

\* Steps that change neither the receiver nor what was heard of it.
LEMMA ReceiverSame ==
    ASSUME TheatreTypeOK, ReportsFollow, OffIsNews, UNCHANGED <<insideVars, stereoVars, tv, unasked, stray>>
    PROVE  ReportsFollow' /\ OffIsNews' /\ OutsideTypeOK' /\ InsideTypeOK'
<1>1. /\ up' = up /\ values' = values /\ power' = power /\ source' = source /\ reports' = reports
      /\ tv' = tv /\ unasked' = unasked /\ stray' = stray
    BY DEF insideVars, stereoVars
<1>2. \A stat \in Stats : Actual(stat)' = Actual(stat)
    BY <1>1 DEF Actual
<1>3. ReportsFollow'
    BY <1>1, <1>2, ReportsFollowIs DEF ReportsFollow
<1>4. OffIsNews'
    BY <1>1 DEF OffIsNews, OnUnread
<1>5. OutsideTypeOK' /\ InsideTypeOK'
    BY <1>1 DEF TheatreTypeOK, OutsideTypeOK, InsideTypeOK, Rep, Heards
<1> QED
    BY <1>3, <1>4, <1>5

\* Every step keeps what is said and believed of the receiver true, and the news to come.
LEMMA ReceiverNext ==
    ASSUME TheatreInv, [TheatreNext]_theatreVars
    PROVE  ReportsFollow' /\ OffIsNews' /\ OutsideTypeOK' /\ InsideTypeOK'
<1> USE DEF TheatreInv
<1>1. OutsideTypeOK /\ InsideTypeOK
    BY DEF TheatreTypeOK, OutsideTypeOK, InsideTypeOK, Rep, Heards
<1>2. /\ ~up => reports = <<>> /\ unasked = {}
      /\ \A stat \in Stats :
            /\ SaysLast(reports, stat, Actual(stat))
            /\ up /\ stat \notin unasked /\ About(reports, stat) = {} => values[stat] = Actual(stat)
    BY DEF ReportsFollow
<1>3. About(<<>>, "power") = {} /\ About(<<>>, "audio_source") = {} /\ <<>> \in Seq(Rep)
      /\ \A stat, v : SaysLast(<<>>, stat, v)
    BY DEF About, SaysLast
<1>4. CASE Start
  <2>1. /\ ~up /\ up' = TRUE /\ unasked' = Stats /\ values' = values /\ power' = power
        /\ source' = source /\ reports' = reports /\ tv' = tv /\ stray' = stray
      BY <1>4 DEF Start, stereoVars
  <2>2. OutsideTypeOK' /\ InsideTypeOK'
      BY <1>1, <2>1 DEF OutsideTypeOK, InsideTypeOK
  <2>3. \A stat \in Stats : Actual(stat)' = Actual(stat)
      BY <2>1 DEF Actual
  <2>4. ReportsFollow'
      BY <1>2, <2>1, <2>3, ReportsFollowIs
  <2>5. OffIsNews'
      BY <1>2, <2>1 DEF OffIsNews, OnUnread
  <2> QED
      BY <2>2, <2>4, <2>5
<1>5. CASE SessionEnds
  <2>1. /\ up /\ up' = FALSE /\ unasked' = {} /\ values' \in {values, NothingHeard} /\ power' = power
        /\ source' = source /\ reports' = <<>> /\ tv' = tv
        /\ stray' = (stray \/ (tv = "on" /\ ("power" \in unasked \/ OnUnread)))
      BY <1>5 DEF SessionEnds
  <2>2. NothingHeard \in [Device \union Stats -> Heards] /\ NothingHeard["power"] = Unset /\ Unset # "off"
      BY DeviceIsNoStat DEF NothingHeard, Heards, Unset
  <2>3. OutsideTypeOK' /\ InsideTypeOK'
      BY <1>1, <1>3, <2>1, <2>2 DEF OutsideTypeOK, InsideTypeOK
  <2>4. ReportsFollow'
      BY <1>3, <2>1, ReportsFollowIs
  <2>5. OffIsNews'
      BY <1>1, <2>1, <2>2 DEF OffIsNews, OutsideTypeOK
  <2> QED
      BY <2>3, <2>4, <2>5
<1>6. CASE HearReport
  <2> DEFINE r   == reports[1]
             off == r.stat = "power" /\ r.value = "off" /\ values["power"] # "off"
  <2>1. /\ up /\ reports # <<>> /\ reports' = Tail(reports) /\ values' = Heard(r.stat, r.value)
        /\ tv' \in (IF off THEN {"off", tv} ELSE {tv})
        /\ stray' = (CASE tv' = "off" \/ r = [stat |-> "power", value |-> "on"] -> FALSE
                       [] off   -> TRUE
                       [] OTHER -> stray)
        /\ up' = up /\ power' = power /\ source' = source /\ unasked' = unasked
      BY <1>6 DEF HearReport, airVars
  <2>2. /\ Tail(reports) \in Seq(Rep) /\ r \in Rep /\ 1 \in DOMAIN reports
        /\ \A i \in DOMAIN reports : i = 1 \/ \E j \in DOMAIN reports' : reports'[j] = reports[i]
        /\ \A stat \in Stats :
              /\ SaysLast(reports', stat, Actual(stat))
              /\ About(reports', stat) = {} =>
                    IF r.stat = stat THEN r.value = Actual(stat) ELSE About(reports, stat) = {}
    <3>1. reports \in Seq(Rep)
        BY <1>1 DEF OutsideTypeOK
    <3>2. ASSUME NEW stat \in Stats
          PROVE  /\ SaysLast(Tail(reports), stat, Actual(stat))
                 /\ About(Tail(reports), stat) = {} =>
                       IF reports[1].stat = stat THEN reports[1].value = Actual(stat)
                       ELSE About(reports, stat) = {}
      <4>1. SaysLast(reports, stat, Actual(stat))
          BY <1>2
      <4> QED
          BY <2>1, <3>1, <4>1, SaysStill
    <3>3. SaysLast(reports, "power", Actual("power"))
        BY <1>2, DeviceIsNoStat
    <3>4. /\ Tail(reports) \in Seq(Rep) /\ r \in Rep /\ 1 \in DOMAIN reports
          /\ \A i \in DOMAIN reports : i = 1 \/ \E j \in DOMAIN Tail(reports) : Tail(reports)[j] = reports[i]
        BY <2>1, <3>1, <3>3, SaysStill
    <3> QED
        BY <2>1, <3>2, <3>4
  <2>3. r.stat \in Stats /\ r.value \in Heards /\ r = [stat |-> r.stat, value |-> r.value]
      BY <2>2 DEF Rep, Heards
  <2>4. values' \in [Device \union Stats -> Heards] /\ values' = [values EXCEPT ![r.stat] = r.value]
      BY <1>1, <2>1, <2>3 DEF Heard, InsideTypeOK
  <2>5. OutsideTypeOK' /\ InsideTypeOK'
    <3>1. stray' \in BOOLEAN /\ tv' \in {"on", "off"}
        BY <1>1, <2>1 DEF OutsideTypeOK
    <3> QED
        BY <1>1, <2>1, <2>2, <2>4, <3>1 DEF OutsideTypeOK, InsideTypeOK
  <2>6. \A stat \in Stats : Actual(stat)' = Actual(stat)
      BY <2>1 DEF Actual
  <2>7. ReportsFollow'
    <3>1. ASSUME NEW stat \in Stats, stat \notin unasked, About(reports', stat) = {}
          PROVE  values'[stat] = Actual(stat)
      <4>1. CASE r.stat = stat
          BY <1>1, <2>2, <2>4, <3>1, <4>1 DEF InsideTypeOK
      <4>2. CASE r.stat # stat
          BY <1>1, <1>2, <2>1, <2>2, <2>4, <3>1, <4>2 DEF InsideTypeOK
      <4> QED
          BY <4>1, <4>2
    <3> QED
        BY <2>1, <2>2, <2>6, <3>1, ReportsFollowIs
  <2>8. OffIsNews'
    <3> SUFFICES ASSUME tv' = "on", ~stray'
                 PROVE  values'["power"] # "off" \/ OnUnread' \/ (up /\ "power" \in unasked /\ power = "on")
        BY <2>1 DEF OffIsNews
    <3>1. CASE r = [stat |-> "power", value |-> "on"]
        BY <1>1, <2>3, <2>4, <3>1, DeviceIsNoStat DEF InsideTypeOK
    <3>2. CASE r # [stat |-> "power", value |-> "on"] /\ ~off
      <4>1. stray' = stray /\ tv' = tv
          BY <2>1, <3>2
      <4>2. CASE values["power"] # "off"
        <5>1. r.stat # "power" \/ r.value # "off"
            BY <3>2, <4>2
        <5>2. values'["power"] # "off"
            BY <1>1, <2>3, <2>4, <4>2, <5>1, DeviceIsNoStat DEF InsideTypeOK
        <5> QED
            BY <5>2
      <4>3. CASE OnUnread
        <5>1. PICK i \in DOMAIN reports : reports[i] = [stat |-> "power", value |-> "on"]
            BY <4>3 DEF OnUnread
        <5>2. \E j \in DOMAIN reports' : reports'[j] = reports[i]
            BY <2>2, <3>2, <5>1
        <5> QED
            BY <5>1, <5>2 DEF OnUnread
      <4> QED
          BY <4>1, <4>2, <4>3 DEF OffIsNews
    <3>3. CASE r # [stat |-> "power", value |-> "on"] /\ off
        BY <2>1, <3>3
    <3> QED
        BY <3>1, <3>2, <3>3
  <2> QED
      BY <2>5, <2>7, <2>8
<1>7. ASSUME NEW d \in Device, NEW v \in Values(d), Line(d, v)
      PROVE  ReportsFollow' /\ OffIsNews' /\ OutsideTypeOK' /\ InsideTypeOK'
  <2>1. v \in Heards
      BY DEF Values, Heards
  <2> QED
      BY <1>7, <2>1, UpdateKeeps DEF Line
<1>8. ASSUME NEW k \in 1 .. MaxBytes, Receive(k)
      PROVE  ReportsFollow' /\ OffIsNews' /\ OutsideTypeOK' /\ InsideTypeOK'
  <2> DEFINE s == buffer \o SubSeq(wire, 1, k)
             n == { i \in DOMAIN s : Ends(s[i]) }
  <2>1. /\ conn = "reading" /\ unasked' = unasked /\ k \in 1 .. Len(wire)
        /\ \/ UNCHANGED <<insideVars, stereoVars, tv, stray>>
           \/ \E i \in n : HearLine(SubSeq(s, 1, i))
      BY <1>8 DEF Receive
  <2>2. up
      BY <2>1 DEF LinesUnderWay
  <2>3. s \in Seq(Half)
    <3>1. SubSeq(wire, 1, k) \in Seq(Half) /\ buffer \in Seq(Half)
        BY <2>1 DEF TheatreTypeOK, Half
    <3> QED
        BY <3>1, ConcatProperties
  <2> HIDE DEF s
  <2>4. CASE UNCHANGED <<insideVars, stereoVars, tv, stray>>
      BY <2>1, <2>4, ReceiverSame
  <2>5. ASSUME NEW i \in n, HearLine(SubSeq(s, 1, i))
        PROVE  ReportsFollow' /\ OffIsNews' /\ OutsideTypeOK' /\ InsideTypeOK'
    <3>1. i \in 1 .. Len(s) /\ Len(s) \in Nat
        BY <2>3
    <3>2. SubSeq(s, 1, i)[1] = s[1] /\ s[1] \in Half
        BY <2>3, <3>1
    <3>3. SubSeq(s, 1, i)[1][1] \in Heards /\ "other" \in Heards
        BY <3>2 DEF Half, Heards
    <3>4. CASE UNCHANGED <<insideVars, stereoVars, tv, stray>>
        BY <2>1, <3>4, ReceiverSame
    <3>5. CASE UpdateDevice("airplay", SubSeq(s, 1, i)[1][1]) \/ UpdateDevice("airplay", "other")
        BY <2>1, <2>2, <3>3, <3>5, UpdateKeeps, DeviceIsNoStat
    <3> QED
        BY <2>5, <3>4, <3>5 DEF HearLine
  <2> QED
      BY <2>1, <2>4, <2>5
<1>9. CASE ConnectionEnds \/ Reconnects \/ AirplayChanges \/ AirplayGoesOn \/ UNCHANGED theatreVars
    BY <1>9, ReceiverSame DEF ConnectionEnds, Reconnects, AirplayChanges, AirplayGoesOn, theatreVars
<1>10. ASSUME NEW p \in {"on", "off"}, NEW s \in Seq(Source), UserDoes(p, s)
       PROVE  ReportsFollow' /\ OffIsNews' /\ OutsideTypeOK' /\ InsideTypeOK'
  <2>1. up' = up /\ values' = values /\ tv' = tv /\ unasked' = unasked
      BY <1>10 DEF UserDoes, insideVars
  <2>2. InsideTypeOK'
      BY <1>1, <2>1 DEF InsideTypeOK
  <2>3. CASE up
      BY <1>1, <1>10, <2>1, <2>2, <2>3, CommandsKeep DEF UserDoes
  <2>4. CASE ~up
    <3>1. /\ power' = p /\ source' = (IF s = <<>> THEN source ELSE s[1])
          /\ reports' = reports /\ stray' = stray
        BY <1>10, <2>4 DEF UserDoes
    <3>2. source' \in Source
        BY <1>1, <3>1 DEF OutsideTypeOK
    <3>3. OutsideTypeOK'
        BY <1>1, <2>1, <3>1, <3>2 DEF OutsideTypeOK
    <3>4. ReportsFollow'
        BY <1>2, <1>3, <2>1, <2>4, <3>1, ReportsFollowIs
    <3>5. OffIsNews'
        BY <2>1, <2>4, <3>1 DEF OffIsNews, OnUnread
    <3> QED
        BY <2>2, <3>3, <3>4, <3>5
  <2> QED
      BY <2>3, <2>4
<1>11. CASE \E s \in UserSource : UserSelects(s)
  <2>1. PICK s \in UserSource : UserSelects(s)
      BY <1>11
  <2>2. <<s>> \in Seq(Source) /\ power \in {"on", "off"}
      BY <1>1, TheatreAssumption DEF OutsideTypeOK
  <2> QED
      BY <1>10, <2>1, <2>2 DEF UserSelects
<1>12. CASE UserSwitches
  <2>1. PICK p \in {"on", "off"} : UserDoes(p, <<>>)
      BY <1>12 DEF UserSwitches
  <2>2. <<>> \in Seq(Source)
      OBVIOUS
  <2> QED
      BY <1>10, <2>1, <2>2
<1>13. ASSUME NEW stat \in Stats, Answers(stat)
       PROVE  ReportsFollow' /\ OffIsNews' /\ OutsideTypeOK' /\ InsideTypeOK'
  <2> DEFINE q == << [stat |-> stat, value |-> Actual(stat)] >>
  <2>1. /\ stat \in unasked /\ unasked' = unasked \ {stat} /\ reports' = reports \o q
        /\ up' = up /\ values' = values /\ power' = power /\ source' = source /\ tv' = tv /\ stray' = stray
    <3>1. Reported(stat, <<Actual(stat)>>) = q
        BY DEF Reported
    <3>2. reports' = reports \o Reported(stat, <<Actual(stat)>>)
        BY <1>13 DEF Answers, Actual
    <3> QED
        BY <1>13, <3>1, <3>2 DEF Answers, insideVars
  <2>2. q \in Seq(Rep) /\ Len(q) = 1 /\ q[1] = [stat |-> stat, value |-> Actual(stat)]
      BY <1>1 DEF Rep, Actual, OutsideTypeOK
  <2> HIDE DEF q
  <2>3. /\ About(q, stat) # {} /\ SaysLast(q, stat, Actual(stat))
        /\ \A other \in Stats : other # stat => About(q, other) = {}
    <3>1. DOMAIN q = {1}
        BY <2>2
    <3> QED
        BY <2>2, <3>1 DEF About, SaysLast
  <2>4. /\ reports \in Seq(Rep) /\ reports' \in Seq(Rep)
        /\ \A i \in DOMAIN reports : i \in DOMAIN reports' /\ reports'[i] = reports[i]
        /\ Len(reports) + 1 \in DOMAIN reports' /\ reports'[Len(reports) + 1] = q[1]
    <3>1. /\ reports \o q \in Seq(Rep) /\ Len(reports) \in Nat /\ DOMAIN reports = 1 .. Len(reports)
          /\ DOMAIN (reports \o q) = 1 .. Len(reports) + Len(q)
          /\ \A i \in 1 .. Len(reports) : (reports \o q)[i] = reports[i]
          /\ \A i \in 1 .. Len(q) : (reports \o q)[Len(reports) + i] = q[i]
      <4>1. reports \in Seq(Rep) /\ q \in Seq(Rep)
          BY <1>1, <2>2 DEF OutsideTypeOK
      <4>2. /\ reports \o q \in Seq(Rep) /\ Len(reports) \in Nat /\ DOMAIN reports = 1 .. Len(reports)
            /\ DOMAIN (reports \o q) = 1 .. Len(reports) + Len(q)
          BY ONLY <4>1, Behind
      <4>3. /\ \A i \in 1 .. Len(reports) : (reports \o q)[i] = reports[i]
            /\ \A i \in 1 .. Len(q) : (reports \o q)[Len(reports) + i] = q[i]
          BY ONLY <4>1, Behind
      <4> QED
          BY ONLY <4>2, <4>3
    <3> QED
        BY <1>1, <2>1, <2>2, <3>1 DEF OutsideTypeOK
  <2>5. \A other \in Stats : Actual(other)' = Actual(other)
      BY <2>1 DEF Actual
  <2>6. ASSUME NEW other \in Stats
        PROVE  /\ SaysLast(reports', other, Actual(other))
               /\ up /\ other \notin unasked' /\ About(reports', other) = {} => values[other] = Actual(other)
    <3>1. CASE other = stat
        BY <2>1, <2>2, <2>3, <2>4, <3>1, SaysNow
    <3>2. CASE other # stat
      <4>1. SaysLast(reports', other, Actual(other)) /\ (About(reports', other) = {} => About(reports, other) = {})
          BY <1>2, <2>1, <2>2, <2>3, <2>4, <3>2, SaysNoMore
      <4> QED
          BY <1>2, <2>1, <3>2, <4>1
    <3> QED
        BY <3>1, <3>2
  <2>7. ReportsFollow'
      BY <1>2, <2>1, <2>5, <2>6, ReportsFollowIs
  <2>8. OffIsNews'
    <3>1. OnUnread => OnUnread'
        BY <2>4 DEF OnUnread
    <3>2. CASE stat = "power" /\ power = "on"
      <4>1. Actual(stat) = "on"
          BY <3>2 DEF Actual
      <4>2. reports'[Len(reports) + 1] = [stat |-> "power", value |-> "on"] /\ Len(reports) + 1 \in DOMAIN reports'
          BY <2>2, <2>4, <3>2, <4>1
      <4>3. OnUnread'
          BY ONLY <4>2 DEF OnUnread
      <4> QED
          BY <4>3 DEF OffIsNews
    <3>3. CASE ~(stat = "power" /\ power = "on")
        BY <2>1, <3>1, <3>3 DEF OffIsNews
    <3> QED
        BY <3>2, <3>3
  <2> QED
      BY <1>1, <2>1, <2>4, <2>7, <2>8 DEF OutsideTypeOK, InsideTypeOK
<1> QED
    BY <1>4, <1>5, <1>6, <1>7, <1>8, <1>9, <1>11, <1>12, <1>13 DEF TheatreNext

-----------------------------------------------------------------------------
(* What is read from airplay.                                              *)

\* Steps that change neither the lines of airplay nor the buffer.
LEMMA LinesSame ==
    ASSUME LinesUnderWay, UNCHANGED <<buffer, playing, wire, mid, torn>>,
           (conn' = "none") <=> ~up', conn' # "reading" => (wire = <<>> /\ ~mid),
           values'["airplay"] = values["airplay"]
    PROVE  LinesUnderWay'
<1> SUFFICES ASSUME NEW s, s = buffer \o wire
             PROVE  LinesUnderWay'
    OBVIOUS
<1>1. buffer' = buffer /\ playing' = playing /\ wire' = wire /\ mid' = mid /\ torn' = torn
    OBVIOUS
<1>2. /\ \A i \in DOMAIN buffer : ~Ends(buffer[i])
      /\ (mid /\ s # <<>>) => s[Len(s)] = <<playing, 1>>
      /\ (~mid /\ wire # <<>>) => wire[Len(wire)] = <<playing, 2>>
      /\ \A i \in 2 .. Len(s) :
            /\ Ends(s[i]) => s[i - 1] = <<s[i][1], 1>>
            /\ \A j \in 1 .. i - 1 : Ends(s[j]) => (Ends(s[i]) <=> ~Ends(s[i - 1]))
      /\ ~torn => /\ s = <<>> => (~mid /\ values["airplay"] = playing)
                  /\ s # <<>> => ~Ends(s[1])
                  /\ (~mid /\ s # <<>>) => s[Len(s)] = <<playing, 2>>
                  /\ \A i \in 2 .. Len(s) : (Ends(s[i]) <=> ~Ends(s[i - 1]))
    BY DEF LinesUnderWay, Halves
<1> QED
  <2>0. Halves' = s
      BY <1>1 DEF Halves
  <2>1. (conn' = "none") <=> ~up'
      OBVIOUS
  <2>2. conn' # "reading" => (wire' = <<>> /\ ~mid')
      BY <1>1
  <2>3. \A i \in DOMAIN buffer' : ~Ends(buffer'[i])
      BY <1>1, <1>2
  <2>4. (mid' /\ s # <<>>) => s[Len(s)] = <<playing', 1>>
      BY <1>1, <1>2
  <2>5. (~mid' /\ wire' # <<>>) => wire'[Len(wire')] = <<playing', 2>>
      BY <1>1, <1>2
  <2>6. ~torn' => (s = <<>> => (~mid' /\ values'["airplay"] = playing'))
      BY <1>1, <1>2
  <2>7. ~torn' => /\ s # <<>> => ~Ends(s[1])
                  /\ (~mid' /\ s # <<>>) => s[Len(s)] = <<playing', 2>>
      BY <1>1, <1>2
  <2>8. ~torn' => \A i \in 2 .. Len(s) : (Ends(s[i]) <=> ~Ends(s[i - 1]))
      BY ONLY <1>1, <1>2
  <2> QED
      BY ONLY <1>2, <2>0, <2>1, <2>2, <2>3, <2>4, <2>5, <2>6, <2>7, <2>8 DEF LinesUnderWay, Ends

\* Airplay says another half.
LEMMA LinesMore ==
    ASSUME buffer \in Seq(Half), wire \in Seq(Half), mid \in BOOLEAN, LinesUnderWay,
           UNCHANGED <<buffer, conn, up, torn>>, values'["airplay"] = values["airplay"],
           conn = "reading", playing' \in {"on", "off"},
           NEW n \in {1, 2}, mid <=> n = 2, mid' = ~mid, mid => playing' = playing,
           wire' = Append(wire, <<playing', n>>)
    PROVE  LinesUnderWay'
<1> SUFFICES ASSUME NEW s, s = buffer \o wire, NEW t, t = buffer' \o wire',
                    NEW h, h = <<playing', n>>
             PROVE  LinesUnderWay'
    OBVIOUS
<1>1. /\ conn # "none" /\ up
      /\ \A i \in DOMAIN buffer : ~Ends(buffer[i])
      /\ (mid /\ s # <<>>) => s[Len(s)] = <<playing, 1>>
      /\ (~mid /\ wire # <<>>) => wire[Len(wire)] = <<playing, 2>>
      /\ \A i \in 2 .. Len(s) :
            /\ Ends(s[i]) => s[i - 1] = <<s[i][1], 1>>
            /\ \A j \in 1 .. i - 1 : Ends(s[j]) => (Ends(s[i]) <=> ~Ends(s[i - 1]))
      /\ ~torn => /\ s = <<>> => (~mid /\ values["airplay"] = playing)
                  /\ s # <<>> => ~Ends(s[1])
                  /\ (~mid /\ s # <<>>) => s[Len(s)] = <<playing, 2>>
                  /\ \A i \in 2 .. Len(s) : (Ends(s[i]) <=> ~Ends(s[i - 1]))
    BY DEF LinesUnderWay, Halves
<1>2. /\ s \in Seq(Half) /\ t = Append(s, h) /\ h \in Half /\ wire' = Append(wire, h) /\ buffer' = buffer
      /\ Len(s) \in Nat /\ Len(s) = Len(buffer) + Len(wire) /\ Len(wire) \in Nat /\ Len(buffer) \in Nat
      /\ DOMAIN buffer = 1 .. Len(buffer)
      /\ \A i \in 1 .. Len(buffer) : s[i] = buffer[i]
      /\ \A i \in 1 .. Len(wire) : s[Len(buffer) + i] = wire[i]
  <2>1. h \in Half
      BY DEF Half
  <2>2. t = Append(s, h)
    <3>1. /\ buffer \in Seq(Half) /\ wire \in Seq(Half) /\ s = buffer \o wire /\ t = buffer' \o wire'
          /\ wire' = Append(wire, h) /\ buffer' = buffer
        OBVIOUS
    <3> QED
        BY ONLY <2>1, <3>1
  <2>3. buffer \in Seq(Half) /\ wire \in Seq(Half) /\ s = buffer \o wire /\ wire' = Append(wire, h) /\ buffer' = buffer
      OBVIOUS
  <2>4. /\ s \in Seq(Half) /\ Len(buffer) \in Nat /\ Len(wire) \in Nat /\ Len(s) = Len(buffer) + Len(wire)
        /\ DOMAIN buffer = 1 .. Len(buffer)
        /\ \A i \in 1 .. Len(buffer) : s[i] = buffer[i]
        /\ \A i \in 1 .. Len(wire) : s[Len(buffer) + i] = wire[i]
      BY ONLY <2>3, Behind
  <2> QED
      BY ONLY <2>1, <2>2, <2>3, <2>4
<1>3. /\ t \in Seq(Half) /\ Len(t) = Len(s) + 1 /\ t[Len(s) + 1] = h /\ t # <<>>
      /\ \A i \in 1 .. Len(s) : t[i] = s[i]
    BY <1>2
<1>4. Ends(h) <=> n = 2
    BY DEF Ends
<1>5. wire' # <<>> /\ wire'[Len(wire')] = h
    BY <1>2
<1>6. s # <<>> => Len(s) \in 1 .. Len(s) /\ s[Len(s)] \in Half
    BY <1>2
<1>0. Halves' = t
    BY DEF Halves
<1>9. /\ (conn' = "none") <=> ~up'
      /\ conn' # "reading" => (wire' = <<>> /\ ~mid')
      /\ \A i \in DOMAIN buffer' : ~Ends(buffer'[i])
      /\ torn' = torn
    BY <1>1, <1>2
<1>7. CASE mid
  <2>1. n = 2 /\ ~mid' /\ playing' = playing /\ (s # <<>> => (s[Len(s)] = <<playing, 1>> /\ ~Ends(s[Len(s)])))
    <3>1. n = 2 /\ ~mid' /\ playing' = playing
        BY <1>7
    <3>2. s # <<>> => s[Len(s)] = <<playing, 1>>
        BY <1>1, <1>7
    <3>3. <<playing, 1>>[2] # 2
        OBVIOUS
    <3> QED
        BY ONLY <3>1, <3>2, <3>3 DEF Ends
  <2>2. ASSUME NEW i \in 2 .. Len(t)
        PROVE  /\ Ends(t[i]) => t[i - 1] = <<t[i][1], 1>>
               /\ \A j \in 1 .. i - 1 : Ends(t[j]) => (Ends(t[i]) <=> ~Ends(t[i - 1]))
    <3>1. CASE i = Len(s) + 1
      <4>1. s # <<>> /\ t[i] = h /\ t[i - 1] = s[Len(s)] /\ h[1] = playing
          BY <1>2, <1>3, <2>1, <3>1
      <4> QED
          BY <1>4, <2>1, <4>1
    <3>2. CASE i # Len(s) + 1
      <4>1. /\ i \in 2 .. Len(s) /\ i \in 1 .. Len(s) /\ i - 1 \in 1 .. Len(s)
            /\ \A j \in 1 .. i - 1 : j \in 1 .. Len(s)
          BY ONLY <1>2, <1>3, <3>2, i \in 2 .. Len(t)
      <4>2. /\ t[i] = s[i] /\ t[i - 1] = s[i - 1]
            /\ \A j \in 1 .. i - 1 : t[j] = s[j]
          BY ONLY <1>3, <4>1
      <4> QED
          BY ONLY <1>1, <4>1, <4>2
    <3> QED
        BY <3>1, <3>2
  <2>3. ASSUME ~torn
        PROVE  /\ ~Ends(t[1]) /\ t[Len(t)] = <<playing', 2>>
               /\ \A i \in 2 .. Len(t) : (Ends(t[i]) <=> ~Ends(t[i - 1]))
    <3>1. s # <<>>
        BY <1>1, <1>7, <2>3
    <3>2. 1 \in 1 .. Len(s) /\ t[1] = s[1] /\ t[Len(t)] = h
        BY <1>2, <1>3, <3>1
    <3>3. ASSUME NEW i \in 2 .. Len(t)
          PROVE  Ends(t[i]) <=> ~Ends(t[i - 1])
      <4>1. CASE i = Len(s) + 1
        <5>1. t[i] = h /\ t[i - 1] = s[Len(s)]
            BY <1>2, <1>3, <1>6, <3>1, <4>1
        <5> QED
            BY <1>4, <2>1, <3>1, <5>1
      <4>2. CASE i # Len(s) + 1
        <5>1. i \in 2 .. Len(s) /\ t[i] = s[i] /\ t[i - 1] = s[i - 1]
            BY <1>2, <1>3, <4>2
        <5> QED
            BY <1>1, <2>3, <5>1
      <4> QED
          BY <4>1, <4>2
    <3> QED
        BY <1>1, <2>1, <2>3, <3>1, <3>2, <3>3
  <2>4. (~mid' /\ wire' # <<>>) => wire'[Len(wire')] = <<playing', 2>>
      BY <1>5, <2>1
  <2>5. (~mid' /\ t # <<>>) => t[Len(t)] = <<playing', 2>>
      BY <1>3, <2>1
  <2> QED
      BY ONLY <1>0, <1>3, <1>9, <2>1, <2>2, <2>3, <2>4, <2>5 DEF LinesUnderWay, Ends
<1>8. CASE ~mid
  <2>1. n = 1 /\ mid' /\ ~Ends(h)
      BY <1>4, <1>8
  <2>2. ASSUME NEW j \in 1 .. Len(s), Ends(s[j])
        PROVE  Ends(s[Len(s)])
    <3>1. wire # <<>>
      <4>1. CASE wire = <<>>
        <5>1. Len(wire) = 0
            BY <4>1
        <5>2. j \in DOMAIN buffer /\ s[j] = buffer[j]
            BY ONLY <1>2, <5>1, j \in 1 .. Len(s)
        <5> QED
            BY <1>1, <2>2, <5>2
      <4> QED
          BY <4>1
    <3>2. s[Len(s)] = wire[Len(wire)] /\ wire[Len(wire)] = <<playing, 2>>
        BY <1>1, <1>2, <1>8, <3>1
    <3> QED
        BY <3>2 DEF Ends
  <2>3. ASSUME NEW i \in 2 .. Len(t)
        PROVE  /\ Ends(t[i]) => t[i - 1] = <<t[i][1], 1>>
               /\ \A j \in 1 .. i - 1 : Ends(t[j]) => (Ends(t[i]) <=> ~Ends(t[i - 1]))
    <3>1. CASE i = Len(s) + 1
      <4>1. /\ t[i] = h /\ i - 1 = Len(s) /\ Len(s) \in 1 .. Len(s)
            /\ \A j \in 1 .. i - 1 : j \in 1 .. Len(s)
          BY ONLY <1>2, <1>3, <3>1, i \in 2 .. Len(t)
      <4>2. t[i - 1] = s[Len(s)] /\ \A j \in 1 .. i - 1 : t[j] = s[j]
          BY ONLY <1>3, <4>1
      <4> QED
          BY <2>1, <2>2, <4>1, <4>2
    <3>2. CASE i # Len(s) + 1
      <4>1. /\ i \in 2 .. Len(s) /\ i \in 1 .. Len(s) /\ i - 1 \in 1 .. Len(s)
            /\ \A j \in 1 .. i - 1 : j \in 1 .. Len(s)
          BY ONLY <1>2, <1>3, <3>2, i \in 2 .. Len(t)
      <4>2. /\ t[i] = s[i] /\ t[i - 1] = s[i - 1]
            /\ \A j \in 1 .. i - 1 : t[j] = s[j]
          BY ONLY <1>3, <4>1
      <4> QED
          BY ONLY <1>1, <4>1, <4>2
    <3> QED
        BY <3>1, <3>2
  <2>4. ASSUME ~torn
        PROVE  /\ ~Ends(t[1]) /\ t[Len(t)] = <<playing', 1>>
               /\ \A i \in 2 .. Len(t) : (Ends(t[i]) <=> ~Ends(t[i - 1]))
    <3>1. t[Len(t)] = <<playing', 1>>
        BY <1>3, <2>1
    <3>2. CASE s = <<>>
      <4>1. Len(s) = 0
          BY <3>2
      <4> QED
          BY <1>3, <2>1, <3>1, <4>1
    <3>3. CASE s # <<>>
      <4>1. 1 \in 1 .. Len(s) /\ t[1] = s[1] /\ Ends(s[Len(s)])
          BY <1>1, <1>2, <1>3, <1>8, <2>4, <3>3 DEF Ends
      <4>2. ASSUME NEW i \in 2 .. Len(t)
            PROVE  Ends(t[i]) <=> ~Ends(t[i - 1])
        <5>1. CASE i = Len(s) + 1
          <6>1. t[i] = h /\ t[i - 1] = s[Len(s)]
              BY <1>2, <1>3, <1>6, <3>3, <5>1
          <6> QED
              BY <2>1, <4>1, <6>1
        <5>2. CASE i # Len(s) + 1
          <6>1. i \in 2 .. Len(s) /\ t[i] = s[i] /\ t[i - 1] = s[i - 1]
              BY <1>2, <1>3, <5>2
          <6> QED
              BY <1>1, <2>4, <6>1
        <5> QED
            BY <5>1, <5>2
      <4> QED
          BY <1>1, <2>4, <3>1, <3>3, <4>1, <4>2
    <3> QED
        BY <3>2, <3>3
  <2>5. (mid' /\ t # <<>>) => t[Len(t)] = <<playing', 1>>
      BY <1>3, <2>1
  <2> QED
      BY ONLY <1>0, <1>3, <1>9, <2>1, <2>3, <2>4, <2>5 DEF LinesUnderWay, Ends
<1> QED
    BY <1>7, <1>8

\* A read takes bytes from the front of what is under way.
LEMMA Reads ==
    ASSUME buffer \in Seq(Half), wire \in Seq(Half), NEW k \in 1 .. Len(wire)
    PROVE  LET s == buffer \o SubSeq(wire, 1, k)
               t == SubSeq(wire, k + 1, Len(wire))
               u == buffer \o wire
           IN  /\ s \in Seq(Half) /\ t \in Seq(Half) /\ u \in Seq(Half)
               /\ Len(s) \in Nat /\ Len(t) \in Nat /\ Len(u) = Len(s) + Len(t)
               /\ \A j \in 1 .. Len(s) : s[j] = u[j]
               /\ \A j \in 1 .. Len(t) : t[j] = u[Len(s) + j]
<1> DEFINE a == SubSeq(wire, 1, k)
           s == buffer \o a
           t == SubSeq(wire, k + 1, Len(wire))
           u == buffer \o wire
<1>1. /\ Len(wire) \in Nat /\ Len(buffer) \in Nat /\ k \in Nat /\ 1 <= k /\ k <= Len(wire)
      /\ \A j \in 1 .. Len(wire) : wire[j] \in Half
    OBVIOUS
<1>2. a \in Seq(Half) /\ Len(a) = k /\ \A j \in 1 .. k : a[j] = wire[j]
  <2>1. \A j \in 1 .. k : wire[j] \in Half
      BY <1>1
  <2>2. /\ a \in Seq(Half) /\ Len(a) = IF 1 <= k THEN k - 1 + 1 ELSE 0
        /\ \A j \in 1 .. k - 1 + 1 : a[j] = wire[1 + j - 1]
      BY <1>1, <2>1, SubSeqProperties
  <2> HIDE DEF a
  <2>3. ASSUME NEW j \in 1 .. k
        PROVE  a[j] = wire[j]
    <3>1. j \in 1 .. k - 1 + 1 /\ 1 + j - 1 = j
        BY <1>1
    <3> QED
        BY <2>2, <3>1
  <2> QED
      BY <1>1, <2>2, <2>3
<1>3. t \in Seq(Half) /\ Len(t) = Len(wire) - k /\ \A j \in 1 .. Len(wire) - k : t[j] = wire[k + j]
  <2>1. \A j \in k + 1 .. Len(wire) : wire[j] \in Half
      BY <1>1
  <2>2. /\ t \in Seq(Half)
        /\ Len(t) = IF k + 1 <= Len(wire) THEN Len(wire) - (k + 1) + 1 ELSE 0
        /\ \A j \in 1 .. Len(wire) - (k + 1) + 1 : t[j] = wire[(k + 1) + j - 1]
      BY <1>1, <2>1, SubSeqProperties
  <2> HIDE DEF t
  <2>3. ASSUME NEW j \in 1 .. Len(wire) - k
        PROVE  t[j] = wire[k + j]
    <3>1. j \in 1 .. Len(wire) - (k + 1) + 1 /\ (k + 1) + j - 1 = k + j
        BY <1>1
    <3> QED
        BY <2>2, <3>1
  <2>4. Len(t) = Len(wire) - k
      BY <1>1, <2>2
  <2> QED
      BY <2>2, <2>3, <2>4
<1> HIDE DEF a, t
<1>4. /\ s \in Seq(Half) /\ Len(s) = Len(buffer) + k
      /\ \A j \in 1 .. Len(buffer) + k :
            s[j] = IF j <= Len(buffer) THEN buffer[j] ELSE a[j - Len(buffer)]
    BY <1>2, ConcatProperties
<1>5. /\ u \in Seq(Half) /\ Len(u) = Len(buffer) + Len(wire)
      /\ \A j \in 1 .. Len(buffer) + Len(wire) :
            u[j] = IF j <= Len(buffer) THEN buffer[j] ELSE wire[j - Len(buffer)]
    BY ConcatProperties
<1> HIDE DEF s, u
<1>6. ASSUME NEW j \in 1 .. Len(s)
      PROVE  s[j] = u[j]
  <2>1. j \in 1 .. Len(buffer) + k /\ j \in 1 .. Len(buffer) + Len(wire)
      BY <1>1, <1>4
  <2>2. CASE j <= Len(buffer)
      BY <1>4, <1>5, <2>1, <2>2
  <2>3. CASE ~(j <= Len(buffer))
    <3>1. j - Len(buffer) \in 1 .. k
        BY <1>1, <2>1, <2>3
    <3>2. s[j] = a[j - Len(buffer)] /\ u[j] = wire[j - Len(buffer)]
        BY <1>4, <1>5, <2>1, <2>3
    <3> QED
        BY <1>2, <3>1, <3>2
  <2> QED
      BY <2>2, <2>3
<1>7. ASSUME NEW j \in 1 .. Len(t)
      PROVE  t[j] = u[Len(s) + j]
  <2>1. /\ j \in 1 .. Len(wire) - k /\ Len(s) + j \in 1 .. Len(buffer) + Len(wire)
        /\ ~(Len(s) + j <= Len(buffer)) /\ (Len(s) + j) - Len(buffer) = k + j
      BY <1>1, <1>3, <1>4
  <2>2. u[Len(s) + j] = wire[(Len(s) + j) - Len(buffer)]
      BY <1>5, <2>1
  <2> QED
      BY <1>3, <2>1, <2>2
<1>8. Len(s) \in Nat /\ Len(t) \in Nat /\ Len(u) = Len(s) + Len(t)
    BY <1>1, <1>3, <1>4, <1>5
<1> QED
    BY <1>3, <1>4, <1>5, <1>6, <1>7, <1>8 DEF a, s, t, u

\* What of the state airplay and its connection are.
AirTypeOK ==
    /\ conn \in {"none", "waiting", "connecting", "reading"}
    /\ playing \in {"on", "off"} /\ mid \in BOOLEAN /\ torn \in BOOLEAN
    /\ wire \in Seq(Half) /\ buffer \in Seq(Half)

\* LinesUnderWay, with a name for all that is kept and under way.
LEMMA LinesNow ==
    ASSUME AirTypeOK, LinesUnderWay, NEW u, u = buffer \o wire
    PROVE  /\ (conn = "none") <=> ~up
           /\ conn # "reading" => (wire = <<>> /\ ~mid)
           /\ \A i \in DOMAIN buffer : ~Ends(buffer[i])
           /\ (mid /\ u # <<>>) => u[Len(u)] = <<playing, 1>>
           /\ (~mid /\ wire # <<>>) => wire[Len(wire)] = <<playing, 2>>
           /\ \A i \in 2 .. Len(u) :
                 /\ Ends(u[i]) => u[i - 1] = <<u[i][1], 1>>
                 /\ \A j \in 1 .. i - 1 : Ends(u[j]) => (Ends(u[i]) <=> ~Ends(u[i - 1]))
           /\ ~torn => /\ u = <<>> => (~mid /\ values["airplay"] = playing)
                       /\ u # <<>> => ~Ends(u[1])
                       /\ (~mid /\ u # <<>>) => u[Len(u)] = <<playing, 2>>
                       /\ \A i \in 2 .. Len(u) : (Ends(u[i]) <=> ~Ends(u[i - 1]))
           /\ (~mid /\ wire # <<>>) => u[Len(u)] = <<playing, 2>>
<1>1. Halves = u
    BY DEF Halves
<1>2. (~mid /\ wire # <<>>) => u[Len(u)] = <<playing, 2>>
  <2>1. SUFFICES ASSUME ~mid, wire # <<>>
                 PROVE  u[Len(u)] = <<playing, 2>>
      OBVIOUS
  <2>2. wire[Len(wire)] = <<playing, 2>>
      BY <2>1 DEF LinesUnderWay
  <2>3. wire \in Seq(Half) /\ buffer \in Seq(Half)
      BY DEF AirTypeOK
  <2>4. Len(wire) \in 1 .. Len(wire)
      BY <2>1, <2>3
  <2>5. Len(u) = Len(buffer) + Len(wire) /\ \A i \in 1 .. Len(wire) : u[Len(buffer) + i] = wire[i]
      BY ONLY <2>3, Behind, u = buffer \o wire
  <2> QED
      BY ONLY <2>2, <2>4, <2>5
<1> QED
    BY ONLY <1>1, <1>2, LinesUnderWay DEF LinesUnderWay

\* Every line that is cut out behind a line of which all was heard is what airplay said.
LEMMA LinesReceived ==
    ASSUME TheatreTypeOK, AirTypeOK, LinesUnderWay, NEW k \in 1 .. MaxBytes, Receive(k)
    PROVE  LinesUnderWay' /\ AirTypeOK'
<1> SUFFICES ASSUME NEW s, s = buffer \o SubSeq(wire, 1, k), NEW t, t = SubSeq(wire, k + 1, Len(wire)),
                    NEW u, u = buffer \o wire
             PROVE  LinesUnderWay' /\ AirTypeOK'
    OBVIOUS
<1>1. /\ conn = "reading" /\ k \in 1 .. Len(wire) /\ wire' = t
      /\ conn' = conn /\ playing' = playing /\ mid' = mid
      /\ \/ /\ \A j \in DOMAIN s : ~Ends(s[j])
            /\ buffer' = s /\ values' = values /\ up' = up /\ torn' = torn
         \/ \E i \in DOMAIN s :
               /\ Ends(s[i]) /\ HearLine(SubSeq(s, 1, i)) /\ buffer' = <<>>
               /\ \A j \in DOMAIN s : Ends(s[j]) => j = i
               /\ torn' = (i < Len(s) \/ (torn /\ i # 2))
  <2>1. /\ conn = "reading" /\ k \in 1 .. Len(wire) /\ wire' = t
        /\ conn' = conn /\ playing' = playing /\ mid' = mid
      BY DEF Receive
  <2>2. CASE { i \in DOMAIN s : Ends(s[i]) } = {}
    <3>1. buffer' = s /\ values' = values /\ up' = up /\ torn' = torn
        BY <2>2 DEF Receive, insideVars
    <3> QED
        BY <2>1, <2>2, <3>1
  <2>3. CASE { i \in DOMAIN s : Ends(s[i]) } # {}
    <3>1. \E i \in { j \in DOMAIN s : Ends(s[j]) } :
            /\ { j \in DOMAIN s : Ends(s[j]) } = {i} /\ HearLine(SubSeq(s, 1, i)) /\ buffer' = <<>>
            /\ torn' = (i < Len(s) \/ (torn /\ i # 2))
        BY <2>3 DEF Receive
    <3> QED
        BY <2>1, <3>1
  <2> QED
      BY <2>2, <2>3
<1>2. wire \in Seq(Half) /\ buffer \in Seq(Half) /\ <<>> \in Seq(Half)
    BY DEF AirTypeOK
<1>3. /\ s \in Seq(Half) /\ t \in Seq(Half) /\ u \in Seq(Half)
      /\ Len(s) \in Nat /\ Len(t) \in Nat /\ Len(u) = Len(s) + Len(t)
      /\ \A j \in 1 .. Len(s) : s[j] = u[j]
      /\ \A j \in 1 .. Len(t) : t[j] = u[Len(s) + j]
  <2>1. k \in 1 .. Len(wire)
      BY <1>1
  <2>2. LET x == buffer \o SubSeq(wire, 1, k)
            y == SubSeq(wire, k + 1, Len(wire))
            z == buffer \o wire
        IN  /\ x \in Seq(Half) /\ y \in Seq(Half) /\ z \in Seq(Half)
            /\ Len(x) \in Nat /\ Len(y) \in Nat /\ Len(z) = Len(x) + Len(y)
            /\ \A j \in 1 .. Len(x) : x[j] = z[j]
            /\ \A j \in 1 .. Len(y) : y[j] = z[Len(x) + j]
      BY ONLY <1>2, <2>1, Reads
  <2> QED
      BY ONLY <2>2, s = buffer \o SubSeq(wire, 1, k), t = SubSeq(wire, k + 1, Len(wire)), u = buffer \o wire, Zenon
<1>4. /\ (conn = "none") <=> ~up
      /\ \A i \in 2 .. Len(u) :
            /\ Ends(u[i]) => u[i - 1] = <<u[i][1], 1>>
            /\ \A j \in 1 .. i - 1 : Ends(u[j]) => (Ends(u[i]) <=> ~Ends(u[i - 1]))
      /\ u # <<>>
      /\ u[Len(u)] = <<playing, IF mid THEN 1 ELSE 2>>
      /\ ~torn => /\ ~Ends(u[1])
                  /\ \A i \in 2 .. Len(u) : (Ends(u[i]) <=> ~Ends(u[i - 1]))
  <2>1. wire # <<>>
      BY <1>1, <1>2
  <2>2. u # <<>>
    <3>1. Len(wire) # 0 /\ Len(wire) \in Nat /\ Len(buffer) \in Nat
        BY <1>2, <2>1
    <3>2. Len(u) = Len(buffer) + Len(wire)
        BY ONLY <1>2, Behind, u = buffer \o wire
    <3>3. Len(u) # 0
        BY ONLY <3>1, <3>2
    <3> QED
        BY <3>3
  <2>3. mid \in BOOLEAN
      BY DEF AirTypeOK
  <2> QED
      BY <2>1, <2>2, <2>3, LinesNow
<1>5. t # <<>> => Len(t) \in 1 .. Len(t) /\ t[Len(t)] = <<playing, IF mid THEN 1 ELSE 2>>
  <2>1. SUFFICES ASSUME t # <<>>
                 PROVE  Len(t) \in 1 .. Len(t) /\ t[Len(t)] = u[Len(u)]
      BY <1>4
  <2>2. Len(t) \in 1 .. Len(t)
      BY <1>3, <2>1
  <2> QED
      BY ONLY <1>3, <2>2
<1>6. CASE /\ \A j \in DOMAIN s : ~Ends(s[j])
           /\ buffer' = s /\ values' = values /\ up' = up /\ torn' = torn
  <2>1. Halves' = u
    <3>1. s \o t \in Seq(Half) /\ Len(s \o t) = Len(u)
        BY ONLY <1>3, Behind
    <3>2. ASSUME NEW j \in 1 .. Len(s \o t)
          PROVE  (s \o t)[j] = u[j]
      <4>1. (s \o t)[j] = IF j <= Len(s) THEN s[j] ELSE t[j - Len(s)]
          BY ONLY <1>3, <3>1, ConcatProperties, j \in 1 .. Len(s \o t)
      <4>2. CASE j <= Len(s)
          BY ONLY <1>3, <3>1, <4>1, <4>2, j \in 1 .. Len(s \o t)
      <4>3. CASE ~(j <= Len(s))
        <5>1. j - Len(s) \in 1 .. Len(t) /\ Len(s) + (j - Len(s)) = j
            BY ONLY <1>3, <3>1, <4>3, j \in 1 .. Len(s \o t)
        <5> QED
            BY ONLY <1>3, <4>1, <4>3, <5>1
      <4> QED
          BY <4>2, <4>3
    <3>3. s \o t = u
        BY ONLY <1>3, <3>1, <3>2, SeqEqual
    <3> QED
        BY <1>1, <1>6, <3>3 DEF Halves
  <2>2. /\ (conn' = "none") <=> ~up'
        /\ conn' # "reading" => (wire' = <<>> /\ ~mid')
        /\ \A i \in DOMAIN buffer' : ~Ends(buffer'[i])
        /\ (mid' /\ u # <<>>) => u[Len(u)] = <<playing', 1>>
        /\ (~mid' /\ u # <<>>) => u[Len(u)] = <<playing', 2>>
        /\ (~mid' /\ wire' # <<>>) => wire'[Len(wire')] = <<playing', 2>>
        /\ torn' = torn
      BY <1>1, <1>4, <1>5, <1>6
  <2>3. LinesUnderWay'
      BY ONLY <1>4, <2>1, <2>2 DEF LinesUnderWay, Ends
  <2>4. AirTypeOK'
      BY <1>1, <1>3, <1>6 DEF AirTypeOK
  <2> QED
      BY <2>3, <2>4
<1>7. ASSUME NEW i \in DOMAIN s, Ends(s[i]), HearLine(SubSeq(s, 1, i)), buffer' = <<>>,
             \A j \in DOMAIN s : Ends(s[j]) => j = i,
             torn' = (i < Len(s) \/ (torn /\ i # 2))
      PROVE  LinesUnderWay' /\ AirTypeOK'
  <2>1. Halves' = t
    <3>1. <<>> \o t = t
        BY ONLY <1>3, ConcatEmptySeq
    <3> QED
        BY <1>1, <1>7, <3>1 DEF Halves
  <2>2. up' = up
      BY <1>7 DEF HearLine, UpdateDevice, insideVars
  <2>3. i \in 1 .. Len(s) /\ DOMAIN s = 1 .. Len(s)
      BY <1>3
  <2>4. ASSUME NEW m \in 2 .. Len(t)
        PROVE  /\ Len(s) + m \in 2 .. Len(u) /\ m \in 1 .. Len(t) /\ m - 1 \in 1 .. Len(t)
               /\ t[m] = u[Len(s) + m] /\ t[m - 1] = u[(Len(s) + m) - 1]
               /\ \A j \in 1 .. m - 1 : Len(s) + j \in 1 .. (Len(s) + m) - 1 /\ t[j] = u[Len(s) + j]
    <3>1. /\ Len(s) + m \in 2 .. Len(u) /\ m \in 1 .. Len(t) /\ m - 1 \in 1 .. Len(t)
          /\ Len(s) + (m - 1) = (Len(s) + m) - 1
          /\ \A j \in 1 .. m - 1 : Len(s) + j \in 1 .. (Len(s) + m) - 1 /\ j \in 1 .. Len(t)
        BY ONLY <1>3, m \in 2 .. Len(t)
    <3>2. t[m] = u[Len(s) + m] /\ t[m - 1] = u[Len(s) + (m - 1)]
        BY ONLY <1>3, <3>1
    <3>3. \A j \in 1 .. m - 1 : t[j] = u[Len(s) + j]
        BY ONLY <1>3, <3>1
    <3> QED
        BY ONLY <3>1, <3>2, <3>3
  <2>5. \A m \in 2 .. Len(t) :
           /\ Ends(t[m]) => t[m - 1] = <<t[m][1], 1>>
           /\ \A j \in 1 .. m - 1 : Ends(t[j]) => (Ends(t[m]) <=> ~Ends(t[m - 1]))
    <3> TAKE m \in 2 .. Len(t)
    <3>1. Ends(t[m]) => t[m - 1] = <<t[m][1], 1>>
      <4>1. Len(s) + m \in 2 .. Len(u) /\ t[m] = u[Len(s) + m] /\ t[m - 1] = u[(Len(s) + m) - 1]
          BY ONLY <2>4, m \in 2 .. Len(t)
      <4>2. Ends(u[Len(s) + m]) => u[(Len(s) + m) - 1] = <<u[Len(s) + m][1], 1>>
          BY ONLY <1>4, <4>1
      <4> QED
          BY ONLY <4>1, <4>2
    <3>2. ASSUME NEW j \in 1 .. m - 1, Ends(t[j])
          PROVE  Ends(t[m]) <=> ~Ends(t[m - 1])
      <4>1. Len(s) + m \in 2 .. Len(u) /\ Len(s) + j \in 1 .. (Len(s) + m) - 1 /\ Ends(u[Len(s) + j])
          BY ONLY <2>4, <3>2, m \in 2 .. Len(t)
      <4>2. Ends(u[Len(s) + m]) <=> ~Ends(u[(Len(s) + m) - 1])
          BY ONLY <1>4, <4>1
      <4> QED
          BY ONLY <2>4, <4>2, m \in 2 .. Len(t)
    <3> QED
        BY <3>1, <3>2
  <2>6. ASSUME ~torn'
        PROVE  /\ t = <<>> => (~mid' /\ values'["airplay"] = playing')
               /\ t # <<>> => ~Ends(t[1])
               /\ \A m \in 2 .. Len(t) : (Ends(t[m]) <=> ~Ends(t[m - 1]))
    <3>1. i = Len(s) /\ (torn => i = 2)
      <4>1. ~(i < Len(s)) /\ ~(torn /\ i # 2)
          BY <1>7, <2>6
      <4> QED
          BY ONLY <1>3, <2>3, <4>1
    <3>2. i = 2
      <4>1. CASE ~torn
        <5>1. 1 \in 1 .. Len(s) /\ s[1] = u[1] /\ ~Ends(u[1])
            BY <1>3, <1>4, <2>3, <4>1
        <5>2. i # 1
            BY <1>7, <5>1
        <5>3. 2 \in 1 .. Len(s) /\ 2 \in 2 .. Len(u) /\ 2 - 1 = 1
            BY ONLY <1>3, <2>3, <5>2
        <5>4. Ends(u[2]) <=> ~Ends(u[2 - 1])
            BY ONLY <1>4, <4>1, <5>3
        <5>5. Ends(s[2])
            BY <1>3, <5>1, <5>3, <5>4
        <5> QED
            BY <1>7, <2>3, <5>3, <5>5
      <4> QED
          BY <3>1, <4>1
    <3>3. /\ Len(s) = 2 /\ 1 \in 1 .. Len(s) /\ 2 \in 1 .. Len(s) /\ 2 \in 2 .. Len(u)
          /\ s[1] = u[1] /\ s[2] = u[2] /\ Ends(u[2])
      <4>1. Len(s) = 2
          BY <3>1, <3>2
      <4>2. 1 \in 1 .. Len(s) /\ 2 \in 1 .. Len(s) /\ 2 \in 2 .. Len(u)
          BY ONLY <1>3, <4>1
      <4>3. s[1] = u[1] /\ s[2] = u[2]
          BY ONLY <1>3, <4>2
      <4> QED
          BY <1>7, <3>2, <4>1, <4>2, <4>3
    <3>4. values'["airplay"] = u[2][1]
      <4>1. \A j \in 1 .. 2 : s[j] \in Half
          BY ONLY <1>3, <3>3
      <4>2. HearLine(SubSeq(s, 1, 2))
          BY <1>7, <3>2
      <4>3. Len(SubSeq(s, 1, 2)) = 2 /\ SubSeq(s, 1, 2)[1] = s[1]
        <5>1. /\ Len(SubSeq(s, 1, 2)) = IF 1 <= 2 THEN 2 - 1 + 1 ELSE 0
              /\ \A j \in 1 .. 2 - 1 + 1 : SubSeq(s, 1, 2)[j] = s[1 + j - 1]
            BY ONLY <4>1, SubSeqProperties
        <5>2. 2 - 1 + 1 = 2 /\ 1 \in 1 .. 2 - 1 + 1 /\ 1 + 1 - 1 = 1 /\ 1 <= 2
            OBVIOUS
        <5> QED
            BY ONLY <5>1, <5>2
      <4>4. UpdateDevice("airplay", s[1][1])
          BY ONLY <4>2, <4>3 DEF HearLine
      <4>5. values' = [values EXCEPT !["airplay"] = s[1][1]]
          BY <4>4 DEF UpdateDevice, Heard
      <4>6. values \in [Device \union Stats -> Heards] /\ "airplay" \in Device
          BY DeviceIsNoStat DEF TheatreTypeOK, Heards
      <4>7. values'["airplay"] = s[1][1]
          BY ONLY <4>5, <4>6
      <4>8. u[2 - 1] = <<u[2][1], 1>> /\ 2 - 1 = 1
          BY ONLY <1>4, <3>3
      <4> QED
          BY ONLY <3>3, <4>7, <4>8
    <3>5. t = <<>> => (~mid' /\ values'["airplay"] = playing')
      <4>1. SUFFICES ASSUME t = <<>>
                     PROVE  ~mid' /\ values'["airplay"] = playing'
          OBVIOUS
      <4>2. Len(u) = 2
        <5>1. Len(t) = 0
            BY ONLY <4>1
        <5>2. Len(u) = Len(s) + Len(t) /\ Len(s) = 2
            BY ONLY <1>3, <3>3
        <5> QED
            BY ONLY <5>1, <5>2
      <4>3. u[2] = <<playing, IF mid THEN 1 ELSE 2>>
          BY <1>4, <4>2
      <4>4. u[2][1] = playing /\ ~mid
          BY ONLY <3>3, <4>3 DEF Ends
      <4> QED
          BY <1>1, <3>4, <4>4
    <3>6. t # <<>> => ~Ends(t[1])
      <4>1. SUFFICES ASSUME t # <<>>
                     PROVE  ~Ends(t[1])
          OBVIOUS
      <4>2. 1 \in 1 .. Len(t) /\ 3 \in 2 .. Len(u) /\ 2 \in 1 .. 3 - 1 /\ 3 - 1 = 2 /\ Len(s) + 1 = 3
        <5>1. Len(t) \in 1 .. Len(t)
            BY <1>5, <4>1
        <5>2. Len(t) \in Nat /\ Len(t) >= 1 /\ Len(u) = 2 + Len(t)
            BY ONLY <1>3, <3>3, <5>1
        <5> QED
            BY ONLY <3>3, <5>2
      <4>3. t[1] = u[3]
          BY ONLY <1>3, <4>2
      <4>4. Ends(u[3]) <=> ~Ends(u[3 - 1])
          BY ONLY <1>4, <3>3, <4>2
      <4> QED
          BY ONLY <3>3, <4>2, <4>3, <4>4
    <3>7. ASSUME NEW m \in 2 .. Len(t)
          PROVE  Ends(t[m]) <=> ~Ends(t[m - 1])
      <4>1. Len(s) + m \in 2 .. Len(u) /\ 2 \in 1 .. (Len(s) + m) - 1
          BY ONLY <1>3, <2>4, <3>3, m \in 2 .. Len(t)
      <4>2. Ends(u[Len(s) + m]) <=> ~Ends(u[(Len(s) + m) - 1])
          BY ONLY <1>4, <3>3, <4>1
      <4> QED
          BY ONLY <2>4, <4>2, m \in 2 .. Len(t)
    <3> QED
        BY <3>5, <3>6, <3>7
  <2>7. /\ (conn' = "none") <=> ~up'
        /\ conn' # "reading" => (wire' = <<>> /\ ~mid')
        /\ \A j \in DOMAIN buffer' : ~Ends(buffer'[j])
        /\ (mid' /\ t # <<>>) => t[Len(t)] = <<playing', 1>>
        /\ (~mid' /\ t # <<>>) => t[Len(t)] = <<playing', 2>>
        /\ wire' = t
    <3>1. \A j \in DOMAIN buffer' : ~Ends(buffer'[j])
      <4>1. buffer' = <<>> /\ DOMAIN <<>> = {}
          BY <1>7
      <4> QED
          BY ONLY <4>1
    <3>2. /\ (mid /\ t # <<>>) => t[Len(t)] = <<playing, 1>>
          /\ (~mid /\ t # <<>>) => t[Len(t)] = <<playing, 2>>
        BY ONLY <1>5
    <3> QED
        BY ONLY <1>1, <1>4, <2>2, <3>1, <3>2
  <2>8. LinesUnderWay'
      BY ONLY <2>1, <2>5, <2>6, <2>7 DEF LinesUnderWay, Ends
  <2>9. AirTypeOK'
    <3>1. torn' \in BOOLEAN
        BY <1>7
    <3> QED
        BY <1>1, <1>2, <1>3, <1>7, <3>1 DEF AirTypeOK
  <2> QED
      BY <2>8, <2>9
<1> QED
    BY <1>1, <1>6, <1>7

\* One step of what airplay says and of what is kept of it.
LEMMA AirplayNext ==
    ASSUME TheatreInv, [TheatreNext]_theatreVars
    PROVE  LinesUnderWay' /\ AirTypeOK'
<1> SUFFICES ASSUME NEW u, u = buffer \o wire
             PROVE  LinesUnderWay' /\ AirTypeOK'
    OBVIOUS
<1>1. TheatreTypeOK /\ LinesUnderWay /\ AirTypeOK
    BY DEF TheatreInv, TheatreTypeOK, AirTypeOK, Half
<1>2. /\ (conn = "none") <=> ~up
      /\ conn # "reading" => (wire = <<>> /\ ~mid)
    BY <1>1 DEF LinesUnderWay
<1>3. ASSUME airVars' = airVars, up' = up, values'["airplay"] = values["airplay"]
      PROVE  LinesUnderWay' /\ AirTypeOK'
  <2>1. /\ conn' = conn /\ UNCHANGED <<buffer, playing, wire, mid, torn>>
      BY <1>3 DEF airVars
  <2>2. AirTypeOK'
      BY <1>1, <2>1 DEF AirTypeOK
  <2> QED
      BY <1>1, <1>2, <1>3, <2>1, <2>2, LinesSame
<1>4. ASSUME UNCHANGED <<buffer, playing, wire, mid, torn>>, values' = values,
             up', conn' \in {"waiting", "connecting"} \/ (conn = "connecting" /\ conn' = "reading"),
             conn # "reading"
      PROVE  LinesUnderWay' /\ AirTypeOK'
  <2>1. AirTypeOK'
      BY <1>1, <1>4 DEF AirTypeOK
  <2>2. LinesUnderWay'
      BY <1>1, <1>2, <1>4, LinesSame
  <2> QED
      BY <2>1, <2>2
<1>5. CASE Start
  <2>1. /\ UNCHANGED <<buffer, playing, wire, mid, torn>> /\ values' = values
        /\ ~up /\ up' /\ conn' \in {"waiting", "connecting"}
      BY <1>5 DEF Start, Connect
  <2> QED
      BY <1>2, <1>4, <2>1
<1>6. CASE SessionEnds
  <2>1. /\ up' = FALSE /\ conn' = "none" /\ buffer' = <<>> /\ wire' = <<>> /\ mid' = FALSE /\ torn' = TRUE
        /\ playing' = playing
      BY <1>6 DEF SessionEnds
  <2>2. <<>> \in Seq(Half)
      OBVIOUS
  <2>3. AirTypeOK'
      BY <1>1, <2>1, <2>2 DEF AirTypeOK
  <2>4. Halves' = <<>>
      BY <2>1 DEF Halves
  <2>5. Len(<<>>) = 0 /\ DOMAIN <<>> = {} /\ 2 .. 0 = {}
      OBVIOUS
  <2>6. LinesUnderWay'
      BY ONLY <2>1, <2>4, <2>5 DEF LinesUnderWay
  <2> QED
      BY <2>3, <2>6
<1>7. CASE HearReport
  <2>1. /\ airVars' = airVars /\ up' = up /\ reports # <<>>
        /\ values' = [values EXCEPT ![reports[1].stat] = reports[1].value]
      BY <1>7 DEF HearReport, Heard
  <2>2. values \in [Device \union Stats -> Heards] /\ reports \in Seq(Rep)
      BY <1>1 DEF TheatreTypeOK, Heards, Rep
  <2>3. reports[1] \in Rep
      BY <2>1, <2>2
  <2>4. reports[1].stat \in Stats /\ "airplay" \in Device /\ "airplay" \notin Stats
      BY <2>3, DeviceIsNoStat DEF Rep
  <2>5. values'["airplay"] = values["airplay"]
      BY ONLY <2>1, <2>2, <2>4
  <2> QED
      BY <1>3, <2>1, <2>5
<1>8. ASSUME NEW d \in Device, NEW v \in Values(d), Line(d, v)
      PROVE  LinesUnderWay' /\ AirTypeOK'
  <2>1. airVars' = airVars /\ up' = up /\ values' = [values EXCEPT ![d] = v] /\ d # "airplay"
      BY <1>8 DEF Line, UpdateDevice, Heard
  <2>2. values \in [Device \union Stats -> Heards] /\ "airplay" \in Device
      BY <1>1, DeviceIsNoStat DEF TheatreTypeOK, Heards
  <2>3. values'["airplay"] = values["airplay"]
      BY ONLY <2>1, <2>2
  <2> QED
      BY <1>3, <2>1, <2>3
<1>9. ASSUME NEW k \in 1 .. MaxBytes, Receive(k)
      PROVE  LinesUnderWay' /\ AirTypeOK'
    BY <1>1, <1>9, LinesReceived
<1>10. CASE ConnectionEnds
  <2>1. /\ conn = "reading" /\ conn' \in {"waiting", "connecting"} /\ up' = up /\ values' = values
        /\ torn' = (torn \/ mid \/ wire # <<>>) /\ wire' = <<>> /\ mid' = FALSE
        /\ buffer' = buffer /\ playing' = playing
      BY <1>10 DEF ConnectionEnds, Connect, insideVars
  <2>2. <<>> \in Seq(Half) /\ torn' \in BOOLEAN
      BY <2>1
  <2>3. AirTypeOK'
      BY <1>1, <2>1, <2>2 DEF AirTypeOK
  <2>4. buffer \in Seq(Half) /\ buffer \o <<>> = buffer
      BY <1>1, ConcatEmptySeq DEF AirTypeOK
  <2>5. Halves' = buffer
      BY <2>1, <2>4 DEF Halves
  <2>6. \A i \in 1 .. Len(buffer) : ~Ends(buffer[i])
      BY <1>1, <2>4 DEF LinesUnderWay
  <2>7. ASSUME ~torn'
        PROVE  buffer = <<>> /\ values["airplay"] = playing
    <3>1. ~torn /\ ~mid /\ wire = <<>>
        BY <2>1, <2>7
    <3>2. Halves = buffer
        BY <2>4, <3>1 DEF Halves
    <3>3. buffer # <<>> => buffer[Len(buffer)] = <<playing, 2>>
        BY <1>1, <3>1, <3>2 DEF LinesUnderWay
    <3>4. CASE buffer # <<>>
      <4>1. Len(buffer) \in 1 .. Len(buffer)
          BY <2>4, <3>4
      <4> QED
          BY <2>6, <3>3, <3>4, <4>1 DEF Ends
    <3>5. buffer = <<>> => values["airplay"] = playing
        BY <1>1, <3>1, <3>2 DEF LinesUnderWay
    <3> QED
        BY <3>4, <3>5
  <2>8. /\ DOMAIN buffer = 1 .. Len(buffer) /\ Len(buffer) \in Nat /\ Len(<<>>) = 0
        /\ \A i \in 2 .. Len(buffer) : i \in 1 .. Len(buffer) /\ \A j \in 1 .. i - 1 : j \in 1 .. Len(buffer)
    <3>1. DOMAIN buffer = 1 .. Len(buffer) /\ Len(buffer) \in Nat /\ Len(<<>>) = 0
        BY <2>4
    <3> QED
        BY ONLY <3>1
  <2>9. \A i \in 2 .. Len(buffer) :
           /\ Ends(buffer[i]) => buffer[i - 1] = <<buffer[i][1], 1>>
           /\ \A j \in 1 .. i - 1 : Ends(buffer[j]) => (Ends(buffer[i]) <=> ~Ends(buffer[i - 1]))
      BY ONLY <2>6, <2>8
  <2>10. (conn' = "none") <=> ~up'
      BY <1>2, <2>1
  <2>11. ~torn' => /\ buffer = <<>> => (~mid' /\ values'["airplay"] = playing')
                   /\ buffer = <<>>
      BY <2>1, <2>7
  <2>12. \A i \in DOMAIN buffer' : ~Ends(buffer'[i])
      BY ONLY <2>1, <2>6, <2>8
  <2>13. LinesUnderWay'
      BY ONLY <2>1, <2>5, <2>8, <2>9, <2>10, <2>11, <2>12 DEF LinesUnderWay
  <2> QED
      BY <2>3, <2>13
<1>11. CASE Reconnects
  <2>1. /\ UNCHANGED <<buffer, playing, wire, mid, torn>> /\ values' = values /\ up' = up
        /\ conn' \in {"waiting", "connecting"} \/ (conn = "connecting" /\ conn' = "reading")
        /\ conn \in {"waiting", "connecting"}
      BY <1>11 DEF Reconnects, ConnectDone, TimerExpires, Connect, insideVars
  <2> QED
      BY <1>2, <1>4, <2>1
<1>12. CASE AirplayChanges
  <2>1. /\ ~mid /\ playing' = IF playing = "on" THEN "off" ELSE "on"
        /\ up' = up /\ values' = values /\ conn' = conn /\ buffer' = buffer
        /\ IF conn = "reading" THEN wire' = Append(wire, <<playing', 1>>) /\ mid' = TRUE /\ torn' = torn
           ELSE torn' = TRUE /\ wire' = wire /\ mid' = mid
      BY <1>12 DEF AirplayChanges, insideVars
  <2>2. playing' \in {"on", "off"} /\ mid \in BOOLEAN /\ wire \in Seq(Half) /\ buffer \in Seq(Half)
      BY <1>1, <2>1 DEF AirTypeOK
  <2>3. CASE conn = "reading"
    <3>1. <<playing', 1>> \in Half
        BY <2>2 DEF Half
    <3>2. wire' = Append(wire, <<playing', 1>>) /\ mid' = TRUE /\ torn' = torn
        BY <2>1, <2>3
    <3>3. wire' \in Seq(Half)
        BY <2>2, <3>1, <3>2
    <3>4. AirTypeOK'
        BY <1>1, <2>1, <2>2, <3>2, <3>3 DEF AirTypeOK
    <3>5. /\ UNCHANGED <<buffer, conn, up, torn>> /\ values'["airplay"] = values["airplay"]
          /\ (mid <=> 1 = 2) /\ (mid => playing' = playing) /\ 1 \in {1, 2}
        BY ONLY <2>1, <3>2
    <3>6. mid' = ~mid
        BY ONLY <2>1, <2>2, <3>2
    <3>7. LinesUnderWay'
        BY ONLY <1>1, <2>2, <2>3, <3>2, <3>5, <3>6, LinesMore
    <3> QED
        BY <3>4, <3>7
  <2>4. CASE conn # "reading"
    <3>1. torn' = TRUE /\ wire' = wire /\ mid' = mid /\ wire = <<>>
        BY <1>2, <2>1, <2>4
    <3>2. AirTypeOK'
        BY <1>1, <2>1, <2>2, <3>1 DEF AirTypeOK
    <3>3. Halves' = u /\ Halves = u
        BY <2>1, <3>1 DEF Halves
    <3>4. /\ \A i \in DOMAIN buffer : ~Ends(buffer[i])
          /\ \A i \in 2 .. Len(u) :
                /\ Ends(u[i]) => u[i - 1] = <<u[i][1], 1>>
                /\ \A j \in 1 .. i - 1 : Ends(u[j]) => (Ends(u[i]) <=> ~Ends(u[i - 1]))
        BY ONLY <1>1, <3>3 DEF LinesUnderWay
    <3>5. LinesUnderWay'
        BY ONLY <1>2, <2>1, <3>1, <3>3, <3>4 DEF LinesUnderWay, Ends
    <3> QED
        BY <3>2, <3>5
  <2> QED
      BY <2>3, <2>4
<1>13. CASE AirplayGoesOn
  <2>1. /\ mid /\ wire' = Append(wire, <<playing, 2>>) /\ mid' = FALSE /\ playing' = playing
        /\ UNCHANGED <<buffer, conn, up, torn>> /\ values' = values
      BY <1>13 DEF AirplayGoesOn, insideVars
  <2>2. playing' \in {"on", "off"} /\ mid \in BOOLEAN /\ wire \in Seq(Half) /\ buffer \in Seq(Half)
      BY <1>1, <2>1 DEF AirTypeOK
  <2>3. wire' \in Seq(Half)
    <3>1. <<playing, 2>> \in Half
        BY <2>1, <2>2 DEF Half
    <3> QED
        BY <2>1, <2>2, <3>1
  <2>4. AirTypeOK'
      BY <1>1, <2>1, <2>2, <2>3 DEF AirTypeOK
  <2>5. conn = "reading" /\ wire' = Append(wire, <<playing', 2>>) /\ mid' = ~mid
        /\ values'["airplay"] = values["airplay"] /\ (mid <=> 2 = 2) /\ (mid => playing' = playing) /\ 2 \in {1, 2}
      BY <1>2, <2>1
  <2>6. UNCHANGED <<buffer, conn, up, torn>>
      BY <2>1
  <2>7. LinesUnderWay'
      BY ONLY <1>1, <2>2, <2>5, <2>6, LinesMore
  <2> QED
      BY <2>4, <2>7
<1>14. ASSUME NEW p, NEW q, UserDoes(p, q)
       PROVE  LinesUnderWay' /\ AirTypeOK'
    BY <1>3, <1>14 DEF UserDoes, insideVars
<1>15. ASSUME NEW stat \in Stats, Answers(stat)
       PROVE  LinesUnderWay' /\ AirTypeOK'
    BY <1>3, <1>15 DEF Answers, insideVars
<1>16. CASE UNCHANGED theatreVars
    BY <1>3, <1>16 DEF theatreVars, insideVars
<1> QED
    BY <1>5, <1>6, <1>7, <1>8, <1>9, <1>10, <1>11, <1>12, <1>13, <1>14, <1>15, <1>16
    DEF TheatreNext, UserSelects, UserSwitches

-----------------------------------------------------------------------------
(* Theorems.                                                               *)

\* What the listener heard, and what is on its way to it, are where TheatreInv says: behind an
\* end of one of airplay's lines there is nothing but lines, the last report of the receiver's
\* power and of its input is true, and a television that is on will hear that the receiver goes off.
THEOREM TheatreInvHolds == TheatreSpec => []TheatreInv
<1>1. TheatreInit => TheatreInv
  <2> SUFFICES ASSUME TheatreInit
               PROVE  TheatreInv
      OBVIOUS
  <2>1. /\ up = FALSE /\ values = NothingHeard /\ conn = "none" /\ buffer = <<>>
        /\ power = "off" /\ source \in UserSource /\ tv = "off" /\ reports = <<>> /\ unasked = {}
        /\ playing = "off" /\ wire = <<>> /\ mid = FALSE /\ stray = FALSE /\ torn = TRUE
      BY DEF TheatreInit
  <2>2. \A X : <<>> \in Seq(X)
      OBVIOUS
  <2>3. NothingHeard \in [Device \union Stats -> Heards]
      BY DEF NothingHeard, Heards
  <2>4. TheatreTypeOK
      BY <2>1, <2>2, <2>3, TheatreAssumption DEF TheatreTypeOK, Heards
  <2>5. Halves = <<>> /\ Len(<<>>) = 0 /\ DOMAIN <<>> = {} /\ 2 .. 0 = {}
      BY <2>1 DEF Halves
  <2>6. LinesUnderWay
      BY ONLY <2>1, <2>5 DEF LinesUnderWay
  <2>7. About(<<>>, "power") = {} /\ \A stat, v : SaysLast(<<>>, stat, v)
      BY DEF About, SaysLast
  <2>8. ReportsFollow
      BY <2>1, <2>7 DEF ReportsFollow
  <2>9. OffIsNews
      BY <2>1 DEF OffIsNews
  <2> QED
      BY <2>4, <2>6, <2>8, <2>9 DEF TheatreInv
<1>2. TheatreInv /\ [TheatreNext]_theatreVars => TheatreInv'
  <2> SUFFICES ASSUME TheatreInv, [TheatreNext]_theatreVars
               PROVE  TheatreInv'
      OBVIOUS
  <2>1. ReportsFollow' /\ OffIsNews' /\ OutsideTypeOK' /\ InsideTypeOK'
      BY ReceiverNext
  <2>2. LinesUnderWay' /\ AirTypeOK'
      BY AirplayNext
  <2>3. TheatreTypeOK'
      BY ONLY <2>1, <2>2 DEF TheatreTypeOK, OutsideTypeOK, InsideTypeOK, AirTypeOK, Half, Rep, Heards
  <2> QED
      BY <2>1, <2>2, <2>3 DEF TheatreInv
<1> QED
    BY <1>1, <1>2, PTL DEF TheatreSpec

\* However its lines were cut into reads and whatever was glued together, once everything airplay
\* said is read, and none of it was torn since the last whole line, it is believed to be what it
\* said last: what tcp_input keeps and throws away costs no more than what `torn' admits.
THEOREM AirplayAlwaysBelieved == TheatreSpec => []AirplayIsBelieved
<1>1. TheatreInv => AirplayIsBelieved
  <2> SUFFICES ASSUME TheatreInv, conn = "reading", wire = <<>>, ~mid, ~torn
               PROVE  values["airplay"] = playing
      BY DEF AirplayIsBelieved
  <2>1. LinesUnderWay /\ buffer \in Seq(Half)
      BY DEF TheatreInv, TheatreTypeOK, Half
  <2>2. Halves = buffer
      BY <2>1, ConcatEmptySeq DEF Halves
  <2>3. CASE buffer # <<>>
    <3>1. Len(buffer) \in DOMAIN buffer
        BY <2>1, <2>3
    <3>2. ~Ends(buffer[Len(buffer)]) /\ buffer[Len(buffer)] = <<playing, 2>>
        BY <2>1, <2>2, <2>3, <3>1 DEF LinesUnderWay
    <3> QED
        BY <3>2 DEF Ends
  <2>4. CASE buffer = <<>>
      BY <2>1, <2>2, <2>4 DEF LinesUnderWay
  <2> QED
      BY <2>3, <2>4
<1> QED
    BY <1>1, TheatreInvHolds, PTL

\* In whatever order the receiver goes on and off, by hand or by command, while its reports are
\* under way: once everything is heard the television went off with it, but for what `stray'
\* admits; and it is taken from a receiver that is on only if its going on is still to be read.
THEOREM TelevisionAlwaysFollows == TheatreSpec => TelevisionFollowsReceiver
<1>1. TheatreInv => (Quiet /\ power = "off" /\ tv = "on" => stray)
  <2> SUFFICES ASSUME TheatreInv, Quiet, power = "off", tv = "on", ~stray
               PROVE  FALSE
      OBVIOUS
  <2>1. About(<<>>, "power") = {}
      BY DEF About
  <2>2. values["power"] = Actual("power") /\ Actual("power") = "off"
      BY <2>1, DeviceIsNoStat DEF TheatreInv, ReportsFollow, Quiet, Actual
  <2>3. ~OnUnread
      BY DEF Quiet, OnUnread
  <2>4. values["power"] # "off"
      BY <2>3 DEF TheatreInv, OffIsNews, Quiet
  <2> QED
      BY <2>2, <2>4
<1>2. TheatreInv /\ [TheatreNext]_theatreVars
      => (tv = "on" /\ tv' = "off" /\ power = "on" => OnUnread')
  <2> SUFFICES ASSUME TheatreInv, [TheatreNext]_theatreVars, tv = "on", tv' = "off", power = "on"
               PROVE  OnUnread'
      OBVIOUS
  <2>1. tv' # tv /\ tv' # "on"
      OBVIOUS
  <2>2. ASSUME NEW d, NEW v, UpdateDevice(d, v)
        PROVE  FALSE
      BY <2>1, <2>2 DEF UpdateDevice, SwitchFrom, PowerOn
  <2>3. ASSUME NEW k, Receive(k)
        PROVE  FALSE
      BY <2>1, <2>2, <2>3 DEF Receive, HearLine
  <2>4. CASE HearReport
    <3>1. /\ reports # <<>> /\ reports' = Tail(reports)
          /\ reports[1].stat = "power" /\ reports[1].value = "off"
        BY <2>1, <2>4 DEF HearReport
    <3>2. reports \in Seq(Rep) /\ SaysLast(reports, "power", "on")
      <4>1. SaysLast(reports, "power", Actual("power")) /\ Actual("power") = power
          BY DeviceIsNoStat DEF TheatreInv, ReportsFollow, Actual
      <4> QED
          BY <4>1 DEF TheatreInv, TheatreTypeOK, Rep
    <3>3. /\ Tail(reports) \in Seq(Rep) /\ SaysLast(Tail(reports), "power", "on")
          /\ About(Tail(reports), "power") # {}
        BY ONLY <3>1, <3>2, SaysStill
    <3> DEFINE P == About(Tail(reports), "power")
    <3>4. Len(Tail(reports)) \in Nat /\ DOMAIN Tail(reports) = 1 .. Len(Tail(reports))
        BY ONLY <3>3
    <3>5. P \in SUBSET (1 .. Len(Tail(reports))) /\ P # {}
        BY ONLY <3>3, <3>4 DEF About
    <3>6. \E i \in P : \A j \in P : j <= i
        BY ONLY <3>4, <3>5, LastOfSome
    <3>7. PICK i \in P : \A j \in P : j <= i
        BY ONLY <3>6
    <3>8. i \in DOMAIN Tail(reports) /\ Tail(reports)[i].stat = "power" /\ Tail(reports)[i].value = "on"
        BY ONLY <3>3, <3>7 DEF About, SaysLast
    <3>9. Tail(reports)[i] \in Rep
        BY ONLY <3>3, <3>4, <3>8
    <3>10. Tail(reports)[i] = [stat |-> "power", value |-> "on"]
        BY ONLY <3>8, <3>9 DEF Rep
    <3> QED
        BY <3>1, <3>8, <3>10 DEF OnUnread
  <2>5. CASE \/ Start \/ SessionEnds \/ ConnectionEnds \/ Reconnects \/ AirplayChanges \/ AirplayGoesOn
             \/ \E s \in UserSource : UserSelects(s)
             \/ UserSwitches
             \/ \E stat \in Stats : Answers(stat)
             \/ UNCHANGED theatreVars
      BY <2>1, <2>5 DEF Start, SessionEnds, ConnectionEnds, Reconnects, AirplayChanges, AirplayGoesOn,
                        UserSelects, UserSwitches, UserDoes, Answers, theatreVars
  <2> QED
      BY <2>2, <2>3, <2>4, <2>5 DEF TheatreNext, Line
<1> QED
    BY <1>1, <1>2, TheatreInvHolds, PTL DEF TheatreSpec, TelevisionFollowsReceiver

\* Whatever else is going on, a device that goes off while the receiver's state is known takes the
\* receiver only from its own source, and only to a device that is on, or to dvd; and the receiver
\* is switched off only if no device of the chain is on.
THEOREM OffAlwaysTakesItsOwn == TheatreSpec => OffTakesOnlyItsOwn
<1> DEFINE TakesItsOwn(d) ==
       /\ Quiet /\ values[d] # values'[d] /\ values'[d] # OnValue(d) /\ values'[d] # "up"
       /\ <<power, source>>' # <<power, source>>
       => /\ source = SourceOf[d]
          /\ \/ source' = "dvd"
             \/ \E e \in Device : On(e)' /\ source' = SourceOf[e]
             \/ power' = "off" /\ \A i \in DOMAIN Chain : Chain[i] \in Device => ~On(Chain[i])'
<1>1. ASSUME TheatreInv, [TheatreNext]_theatreVars
      PROVE  \A d \in Device : TakesItsOwn(d)
  <2> SUFFICES ASSUME NEW d \in Device, Quiet, values[d] # values'[d], values'[d] # OnValue(d),
                      ~(power' = power /\ source' = source)
               PROVE  /\ source = SourceOf[d]
                      /\ \/ source' = "dvd"
                         \/ \E e \in Device : On(e)' /\ source' = SourceOf[e]
                         \/ power' = "off" /\ \A i \in DOMAIN Chain : Chain[i] \in Device => ~On(Chain[i])'
      OBVIOUS
  <2>1. values["audio_source"] = source
    <3>1. About(<<>>, "audio_source") = {}
        BY DEF About
    <3> QED
        BY <1>1, <3>1, DeviceIsNoStat DEF TheatreInv, ReportsFollow, Quiet, Actual
  <2>2. values \in [Device \union Stats -> Heards] /\ d # "audio_source"
      BY <1>1, DeviceIsNoStat DEF TheatreInv, TheatreTypeOK, Heards
  <2>3. ASSUME NEW e \in Device, NEW v, UpdateDevice(e, v)
        PROVE  /\ source = SourceOf[d]
               /\ \/ source' = "dvd"
                  \/ \E f \in Device : On(f)' /\ source' = SourceOf[f]
                  \/ power' = "off" /\ \A i \in DOMAIN Chain : Chain[i] \in Device => ~On(Chain[i])'
    <3>1. values' = [values EXCEPT ![e] = v]
        BY <2>3 DEF UpdateDevice, Heard
    <3>2. e = d /\ values'[d] = v /\ values'["audio_source"] = source
        BY <2>1, <2>2, <3>1, DeviceIsNoStat
    <3>3. SwitchFrom(SourceOf[d], values')
        BY <2>3, <3>2 DEF UpdateDevice
    <3>4. \A x : Stereo(power, <<x>>) => source' = x
        BY DEF Stereo
    <3>5. \A i \in DOMAIN Chain : i \in OnIn(values') <=> Chain[i] \in Device /\ On(Chain[i])'
        BY DEF OnIn, On
    <3>6. CASE \E i \in OnIn(values') : Stereo(power, <<SourceOf[Chain[i]]>>)
      <4>1. PICK i \in OnIn(values') : Stereo(power, <<SourceOf[Chain[i]]>>)
          BY <3>6
      <4>2. i \in DOMAIN Chain
          BY <4>1 DEF OnIn
      <4>3. Chain[i] \in Device /\ On(Chain[i])' /\ source' = SourceOf[Chain[i]]
          BY <3>4, <3>5, <4>1, <4>2
      <4>4. source = SourceOf[d]
          BY <3>2, <3>3 DEF SwitchFrom, stereoVars
      <4> QED
          BY <4>3, <4>4
    <3>7. CASE OnIn(values') = {} /\ (Stereo(power, <<"dvd">>) \/ Stereo("off", <<>>))
      <4>1. source' = "dvd" \/ power' = "off"
          BY <3>4, <3>7 DEF Stereo
      <4>2. source = SourceOf[d]
          BY <3>2, <3>3 DEF SwitchFrom, stereoVars
      <4> QED
          BY <3>5, <3>7, <4>1, <4>2
    <3> QED
        BY <3>3, <3>6, <3>7 DEF SwitchFrom, stereoVars
  <2>4. ASSUME NEW k, Receive(k)
        PROVE  \E e \in Device : \E v : UpdateDevice(e, v)
      BY <2>4, DeviceIsNoStat DEF Receive, HearLine, insideVars, stereoVars
  <2>5. CASE \/ Start \/ SessionEnds \/ HearReport \/ ConnectionEnds \/ Reconnects
             \/ AirplayChanges \/ AirplayGoesOn
             \/ \E stat \in Stats : Answers(stat)
             \/ UNCHANGED theatreVars
      BY <2>5 DEF Start, SessionEnds, HearReport, ConnectionEnds, Reconnects, AirplayChanges, AirplayGoesOn,
                  Answers, stereoVars, theatreVars
  <2>6. CASE (\E s \in UserSource : UserSelects(s)) \/ UserSwitches
      BY <2>6 DEF UserSelects, UserSwitches, UserDoes, insideVars
  <2> QED
      BY <1>1, <2>3, <2>4, <2>5, <2>6 DEF TheatreNext, Line
<1> QED
    BY <1>1, TheatreInvHolds, PTL DEF TheatreSpec, OffTakesOnlyItsOwn
===============================================================================
