----------------------------- MODULE DriverProofs -----------------------------
(***************************************************************************)
(* The two drivers.  Both are a backend_device, though they write from     *)
(* inside open() and from inside the read loop, so every theorem of        *)
(* BackendDeviceProofs holds for them.                                     *)
(*                                                                         *)
(* For any number of commands, any two letters each and any number of      *)
(* messages on their way: the television's driver has in its list, in      *)
(* their order, all that the television still owes, an answer is not taken *)
(* for that to an older command than its own, and as long as no answer is  *)
(* lost the written part of the list is what is owed.  What the receiver's *)
(* driver believes of the layers follows the receiver, and so asking for   *)
(* one more of them drops none.                                            *)
(***************************************************************************)
EXTENDS LgeStatus, MarantzStatus, BackendDeviceProofs, WellFoundedInduction

-----------------------------------------------------------------------------
(* The television: the device.                                             *)

\* The first match of an answer is a written message, and so is everything an
\* answer retires.
LEMMA RetiredByType ==
    ASSUME NEW letter, output \in OutputLists, WellFormed(output)
    PROVE  /\ RetiredBy(letter) \in 0 .. SentLen(output)
           /\ 1 \in MatchesFor(letter) => RetiredBy(letter) = 1
           /\ \A i \in MatchesFor(letter) : RetiredBy(letter) \in 1 .. i
<1>1. SentLen(output) \in Nat
    BY SentLenType DEF OutputLists
<1>2. CASE MatchesFor(letter) = {}
    BY <1>1, <1>2 DEF RetiredBy
<1>3. CASE MatchesFor(letter) # {}
  <2> DEFINE M == MatchesFor(letter)
  <2>1. M \subseteq Nat /\ M \subseteq 1 .. SentLen(output)
      BY <1>1 DEF MatchesFor
  <2>2. \E i \in M : \A j \in M : i <= j
    <3>1. M \subseteq Nat /\ M # {}
        BY <1>3, <2>1
    <3>2. PICK i \in M : \A j \in M : <<j, i>> \notin OpToRel(<, Nat)
        BY <3>1, NatLessThanWellFounded, WFMin, Zenon
    <3>3. \A j \in M : ~(j < i)
        BY <3>1, <3>2, Zenon DEF OpToRel
    <3> QED
        BY <3>1, <3>3
  <2>3. RetiredBy(letter) \in M /\ \A j \in M : RetiredBy(letter) <= j
      BY <1>3, <2>2 DEF RetiredBy
  <2> QED
      BY <1>1, <2>1, <2>3
<1> QED
    BY <1>2, <1>3

\* Every step of the driver is one of the device, or leaves the device alone.
LEMMA LgeStepIsDeviceStep ==
    ASSUME Inv, [LgeNext]_lgeVars
    PROVE  [Next]_vars
<1>1. output \in OutputLists /\ WellFormed(output)
    BY DEF Inv, TypeOK, IteratorsValid
<1>2. ASSUME NEW letter, Packet(RetiredBy(letter))
      PROVE  [Next]_vars
  <2>1. RetiredBy(letter) \in 0 .. SentLen(output) /\ SentLen(output) \in 0 .. Len(output.list)
      BY <1>1, RetiredByType, SentLenType
  <2>2. CASE RetiredBy(letter) = 0
    <3>1. output' = output
        BY <1>1, <1>2, <2>2, PopNIsRepeatedPop DEF Packet
    <3> QED
        BY <1>2, <3>1 DEF Packet, vars
  <2>3. CASE RetiredBy(letter) # 0
    <3>1. RetiredBy(letter) \in 1 .. Len(output.list)
        BY <1>1, <2>1, <2>3 DEF OutputLists
    <3> QED
        BY <1>2, <3>1 DEF Next
  <2> QED
      BY <2>2, <2>3
<1>3. ASSUME NEW m \in Msg, LgeSend(m)
      PROVE  [Next]_vars
    BY <1>3 DEF LgeSend, Next
<1>4. CASE LgeWriteTimeout
    BY <1>4 DEF LgeWriteTimeout, Next
<1>5. ASSUME NEW w \in BOOLEAN, Answer(w)
      PROVE  [Next]_vars
    BY <1>2, <1>5 DEF Answer, UpdateStatus
<1>6. ASSUME NEW letter \in Letters, NEW w \in BOOLEAN, Stray(letter, w)
      PROVE  [Next]_vars
    BY <1>2, <1>6 DEF Stray, UpdateStatus
<1>7. ASSUME NEW i \in 1 .. Len(inflight), LoseAnswer(i)
      PROVE  [Next]_vars
    BY <1>7 DEF LoseAnswer
<1>8. CASE LgeReopen
    BY <1>8 DEF LgeReopen, Next
<1>9. CASE LgeEof
    BY <1>9 DEF LgeEof, Next
<1>10. CASE LgeExit
    BY <1>10 DEF LgeExit, Next
<1>11. CASE LgeTick
    BY <1>11 DEF LgeTick, Next
<1>12. CASE UNCHANGED lgeVars
    BY <1>12 DEF lgeVars, vars
<1> QED
    BY <1>3, <1>4, <1>5, <1>6, <1>7, <1>8, <1>9, <1>10, <1>11, <1>12 DEF LgeNext

\* The driver keeps the device's invariant.
LEMMA LgeInvHolds == LgeSpec => []Inv
<1>1. LgeInit => Inv
    BY InitInv DEF LgeInit
<1>2. Inv /\ [LgeNext]_lgeVars => Inv'
    BY LgeStepIsDeviceStep, NextInv
<1> QED
    BY <1>1, <1>2, PTL DEF LgeSpec

\* The television's line is a backend_device.
THEOREM LgeIsBackendDevice == LgeSpec => Spec
<1>1. LgeInit => Init
    BY DEF LgeInit
<1>2. Inv /\ [LgeNext]_lgeVars => [Next]_vars
    BY LgeStepIsDeviceStep
<1> QED
    BY <1>1, <1>2, LgeInvHolds, PTL DEF LgeSpec, Spec

\* Hence the television's line keeps what a backend_device promises: its writes
\* respect the rest of the command before, and it is an ordered line.
THEOREM LgeKeepsThePromises == LgeSpec => RestRespected /\ StepsOfOutputLine
BY LgeIsBackendDevice, RestAlwaysRespected, DeviceIsOutputLine, PTL

-----------------------------------------------------------------------------
(* The television: the list against what it owes.                          *)

\* A write puts the message it delivers behind the written ones; a message that
\* has to wait leaves them alone.
LEMMA WriteDelivers ==
    ASSUME NEW o \in OutputLists, WellFormed(o), WriteCb(o)
    PROVE  \/ SentNodes(output') = SentNodes(o) /\ SentLen(output') = SentLen(o)
           \/ /\ SentLen(output') = SentLen(o) + 1
              /\ SentNodes(output') = Append(SentNodes(o), output'.list[SentLen(output')])
<1>1. CASE o.send_iter = End
    BY <1>1, WriteCbKeeps
<1>2. CASE o.send_iter # End
  <2>1. /\ output' = ToSend(o) /\ output'.list = o.list /\ SentLen(output') = SentLen(o) + 1
      BY <1>2, WriteCbKeeps, ToSendAdvances
  <2>2. SentNodes(ToSend(o)) = Append(SentNodes(o), o.list[SentLen(o) + 1])
      BY <1>2, ToSendNodes, SendIterAt
  <2> QED
      BY <2>1, <2>2
<1> QED
    BY <1>1, <1>2

\* send() delivers nothing yet, or its own message or one before it.
LEMMA SendDelivers ==
    ASSUME Inv, NEW m \in Msg, Send(m)
    PROVE  \/ SentNodes(output') = SentNodes(output) /\ SentLen(output') = SentLen(output)
           \/ /\ SentLen(output') = SentLen(output) + 1
              /\ SentNodes(output') = Append(SentNodes(output), output'.list[SentLen(output')])
<1>1. output \in OutputLists /\ WellFormed(output)
    BY DEF Inv, TypeOK, IteratorsValid
<1>2. PICK a \in Addr \ Addrs(output) : SendOn(output, a, m)
    BY DEF Send
<1> DEFINE node == [addr |-> a, data |-> m]
           p == Push(output, node)
<1>3. node \in Node /\ node.addr \notin Addrs(output)
    BY <1>2 DEF Node
<1>4. /\ p \in OutputLists /\ WellFormed(p)
      /\ SentNodes(p) = SentNodes(output) /\ SentLen(p) = SentLen(output)
    BY <1>1, <1>3, PushAppends, PushNodes
<1>5. WriteCb(p) \/ output' = p
    BY <1>2 DEF SendOn
<1> QED
    BY <1>4, <1>5, WriteDelivers

\* While no answer is lost, the television's answer is for the front of the list.
LEMMA FrontMatches ==
    ASSUME NEW s, output \in OutputLists, WellFormed(output), SentNodes(output) = s, s # <<>>
    PROVE  /\ Head(s) = output.list[1]
           /\ 1 \in MatchesFor(SecondOf[Head(s).data])
           /\ 1 \in 0 .. SentLen(output)
<1>1. /\ s \in Seq(Node) /\ Len(s) = SentLen(output)
      /\ \A i \in 1 .. SentLen(output) : s[i] = output.list[i]
    BY NodesOf
<1>2. Len(s) \in Nat /\ Len(s) # 0 /\ 1 \in 1 .. SentLen(output) /\ 1 \in 0 .. SentLen(output)
    BY <1>1
<1>3. Head(s) = output.list[1]
    BY <1>1, <1>2
<1> QED
    BY <1>2, <1>3 DEF MatchesFor

\* It takes the front and nothing else off it.
LEMMA AnswerTakesTheFront ==
    ASSUME Inv, inflight # <<>>, SentNodes(output) = inflight,
           Packet(RetiredBy(SecondOf[Head(inflight).data]))
    PROVE  SentNodes(output') = Tail(inflight)
<1> DEFINE s == SentNodes(output)
           letter == SecondOf[Head(inflight).data]
<1>1. output \in OutputLists /\ WellFormed(output)
    BY DEF Inv, TypeOK, IteratorsValid
<1>2. s \in Seq(Node) /\ s # <<>>
    BY <1>1, NodesOf
<1>3. 1 \in MatchesFor(letter) /\ 1 \in 0 .. SentLen(output)
    BY <1>1, FrontMatches
<1>4. RetiredBy(letter) = 1
    BY <1>1, <1>3, RetiredByType
<1>5. SentNodes(output') = SubSeq(s, 1 + 1, Len(s))
    BY <1>1, <1>3, <1>4, PopNNodes DEF Packet
<1> QED
    BY <1>2, <1>5, TailIsSubSeq

\* Only an answer of the television is an event that shortens what it owes.
LEMMA OnlyAnswersAnswer ==
    ASSUME [LgeNext]_lgeVars, TvAnswered
    PROVE  \E w \in BOOLEAN : Answer(w)
BY DEF LgeNext, TvAnswered, LgeSend, LgeWriteTimeout, Stray, LoseAnswer, LgeReopen, LgeEof, LgeExit,
       LgeTick, lgeVars

\* Every step of driver and television keeps what is owed and what is written alike.
LEMMA ListIsWhatTvOwesStep ==
    ASSUME Inv, ListIsWhatTvOwes, [LgeNext]_lgeVars
    PROVE  ListIsWhatTvOwes'
<1>1. output \in OutputLists /\ WellFormed(output)
    BY DEF Inv, TypeOK, IteratorsValid
<1>2. output' \in OutputLists /\ WellFormed(output')
    BY LgeStepIsDeviceStep, NextInv DEF Inv, TypeOK, IteratorsValid
<1>3. ASSUME inflight' = <<>>, SentLen(output') = 0
      PROVE  SentNodes(output') = inflight'
    BY <1>2, <1>3, NodesOf
<1>4. ASSUME SentNodes(output) = inflight, inflight' = Delivered,
             \/ SentNodes(output') = SentNodes(output) /\ SentLen(output') = SentLen(output)
             \/ /\ SentLen(output') = SentLen(output) + 1
                /\ SentNodes(output') = Append(SentNodes(output), output'.list[SentLen(output')])
      PROVE  SentNodes(output') = inflight'
  <2>1. SentLen(output) \in Int
      BY <1>1, SentLenType DEF OutputLists
  <2> QED
      BY <1>4, <2>1 DEF Delivered
<1>5. ASSUME NEW m \in Msg, LgeSend(m)
      PROVE  ListIsWhatTvOwes'
    BY <1>3, <1>4, <1>5, SendDelivers DEF LgeSend, Judge, ListIsWhatTvOwes
<1>6. CASE LgeWriteTimeout
  <2>1. WriteCb(output)
      BY <1>6 DEF LgeWriteTimeout, WriteTimeout
  <2> QED
      BY <1>1, <1>3, <1>4, <1>6, <2>1, WriteDelivers DEF LgeWriteTimeout, Judge, ListIsWhatTvOwes
<1>7. ASSUME NEW w \in BOOLEAN, Answer(w)
      PROVE  ListIsWhatTvOwes'
  <2>1. /\ inflight # <<>> /\ inflight' = Tail(inflight)
        /\ Packet(RetiredBy(SecondOf[Head(inflight).data]))
      BY <1>7 DEF Answer, UpdateStatus
  <2>2. SentNodes(output) = inflight => SentNodes(output') = inflight'
      BY <2>1, AnswerTakesTheFront
  <2> QED
      BY <1>3, <1>7, <2>2 DEF Answer, Judge, ListIsWhatTvOwes
<1>8. ASSUME NEW letter \in Letters, NEW w \in BOOLEAN, Stray(letter, w)
      PROVE  ListIsWhatTvOwes'
    BY <1>3, <1>8 DEF Stray, Judge, ListIsWhatTvOwes
<1>9. ASSUME NEW i \in 1 .. Len(inflight), LoseAnswer(i)
      PROVE  ListIsWhatTvOwes'
    BY <1>3, <1>9 DEF LoseAnswer, Judge, ListIsWhatTvOwes
<1>10. CASE LgeReopen
    BY <1>3, <1>10 DEF LgeReopen, Judge, ListIsWhatTvOwes
<1>11. CASE LgeEof
    BY <1>11 DEF LgeEof, Eof, ListIsWhatTvOwes
<1>12. CASE LgeExit
  <2>1. inflight' = <<>> /\ SentLen(output') = 0
      BY <1>12, EmptyOutputWellFormed DEF LgeExit, Exit, Closed
  <2> QED
      BY <1>3, <2>1 DEF ListIsWhatTvOwes
<1>13. CASE LgeTick
    BY <1>13 DEF LgeTick, Tick, ListIsWhatTvOwes
<1>14. CASE UNCHANGED lgeVars
    BY <1>14 DEF lgeVars, ListIsWhatTvOwes
<1> QED
    BY <1>5, <1>6, <1>7, <1>8, <1>9, <1>10, <1>11, <1>12, <1>13, <1>14 DEF LgeNext

\* As long as no answer is lost, the written part of the list is what the
\* television owes, however many messages are on their way.
THEOREM LgeListIsWhatTvOwes == LgeSpec => []ListIsWhatTvOwes
<1>1. LgeInit => ListIsWhatTvOwes
  <2>1. SUFFICES ASSUME LgeInit
                 PROVE  SentNodes(output) = inflight
      BY DEF ListIsWhatTvOwes
  <2>2. output = EmptyOutput /\ inflight = <<>>
      BY <2>1 DEF LgeInit, Init
  <2> QED
      BY <2>2, EmptyOutputWellFormed, NodesOf
<1>2. Inv /\ ListIsWhatTvOwes /\ [LgeNext]_lgeVars => ListIsWhatTvOwes'
    BY ListIsWhatTvOwesStep
<1> QED
    BY <1>1, <1>2, LgeInvHolds, PTL DEF LgeSpec

\* Then every answer is reported under the codes of the command it answers, and a malformed one
\* under none.
THEOREM LgeNamesAnswersRight == LgeSpec => AnswersNamedRight
<1>1. ASSUME Inv, ListIsWhatTvOwes, lossless, NEW w \in BOOLEAN, Answer(w)
      PROVE  /\ event'.kind = "matched"
             /\ event'.notified = IF w THEN CodesOf(Head(inflight).data) ELSE {}
  <2> DEFINE letter == SecondOf[Head(inflight).data]
             m == Head(inflight).data
  <2>1. /\ output \in OutputLists /\ WellFormed(output)
        /\ SentNodes(output) = inflight /\ inflight # <<>>
        /\ UpdateStatus(letter, w, m)
      BY <1>1 DEF Inv, TypeOK, IteratorsValid, ListIsWhatTvOwes, Answer
  <2>2. 1 \in MatchesFor(letter) /\ m = output.list[1].data
      BY <2>1, FrontMatches
  <2>3. RetiredBy(letter) = 1
      BY <2>1, <2>2, RetiredByType
  <2>4. event' = Matched(m, IF w THEN CodesFor(FirstOf[m], letter) ELSE {})
      BY <2>1, <2>2, <2>3 DEF UpdateStatus
  <2>5. CodesFor(FirstOf[m], letter) = CodesOf(m)
      BY DEF CodesOf
  <2> HIDE DEF letter
  <2>6. event'.kind = "matched" /\ event'.notified = IF w THEN CodesOf(m) ELSE {}
      BY <2>4, <2>5 DEF Matched
  <2> QED
      BY <2>6
<1>2. Inv /\ ListIsWhatTvOwes /\ [LgeNext]_lgeVars =>
        [ \A wellFormed \in BOOLEAN : (lossless /\ Answer(wellFormed)) =>
            /\ event'.kind = "matched"
            /\ event'.notified = IF wellFormed THEN CodesOf(Head(inflight).data) ELSE {} ]_lgeVars
    BY <1>1
<1> QED
    BY <1>2, LgeInvHolds, LgeListIsWhatTvOwes, PTL DEF LgeSpec, AnswersNamedRight

-----------------------------------------------------------------------------
(* The television: whatever answers are lost.                              *)

\* What the driver remembers of what the television owes, with the sequences'
\* types: the inductive invariant behind the rest.
Remembered ==
    /\ inflight \in Seq(Node)
    /\ OwedAnswersRemembered

\* How a subsequence remains one, in the ways the steps change the two sequences: a
\* message is written.
LEMMA BothAppended ==
    ASSUME NEW s \in Seq(Node), NEW t \in Seq(Node), NEW n, IsSubsequence(s, t)
    PROVE  IsSubsequence(Append(s, n), Append(t, n))
<1> DEFINE u == Append(s, n)
           v == Append(t, n)
<1>1. PICK f \in [DOMAIN s -> DOMAIN t] :
          /\ \A i \in DOMAIN s : s[i] = t[f[i]]
          /\ \A i, j \in DOMAIN s : i < j => f[i] < f[j]
    BY DEF IsSubsequence
<1>2. /\ Len(s) \in Nat /\ DOMAIN s = 1 .. Len(s) /\ DOMAIN u = 1 .. Len(s) + 1
      /\ Len(t) \in Nat /\ DOMAIN t = 1 .. Len(t) /\ DOMAIN v = 1 .. Len(t) + 1
      /\ u[Len(s) + 1] = n /\ v[Len(t) + 1] = n
      /\ \A i \in 1 .. Len(s) : u[i] = s[i]
      /\ \A i \in 1 .. Len(t) : v[i] = t[i]
    OBVIOUS
<1> DEFINE g == [i \in DOMAIN u |-> IF i = Len(s) + 1 THEN Len(t) + 1 ELSE f[i]]
<1> HIDE DEF u, v
<1>3. g \in [DOMAIN u -> DOMAIN v]
    BY <1>1, <1>2
<1>4. \A i \in DOMAIN u : u[i] = v[g[i]]
    BY <1>1, <1>2
<1>5. \A i, j \in DOMAIN u : i < j => g[i] < g[j]
    BY <1>1, <1>2
<1> HIDE DEF g
<1>6. IsSubsequence(u, v)
    BY <1>3, <1>4, <1>5 DEF IsSubsequence
<1> QED
    BY <1>6 DEF u, v

\* An answer is lost: one is missing from the first.
LEMMA OneLost ==
    ASSUME NEW s \in Seq(Node), NEW t \in Seq(Node), IsSubsequence(s, t), NEW k \in 1 .. Len(s)
    PROVE  LET u == SubSeq(s, 1, k - 1) \o SubSeq(s, k + 1, Len(s))
           IN  u \in Seq(Node) /\ IsSubsequence(u, t)
<1> DEFINE a == SubSeq(s, 1, k - 1)
           b == SubSeq(s, k + 1, Len(s))
           u == a \o b
<1>1. PICK f \in [DOMAIN s -> DOMAIN t] :
          /\ \A i \in DOMAIN s : s[i] = t[f[i]]
          /\ \A i, j \in DOMAIN s : i < j => f[i] < f[j]
    BY DEF IsSubsequence
<1>2. Len(s) \in Nat /\ DOMAIN s = 1 .. Len(s) /\ k - 1 \in 0 .. Len(s) /\ k \in 0 .. Len(s)
    OBVIOUS
<1>3. a \in Seq(Node) /\ Len(a) = k - 1 /\ \A i \in 1 .. k - 1 : a[i] = s[i]
    BY <1>2, PrefixOf
<1>4. b \in Seq(Node) /\ Len(b) = Len(s) - k /\ \A i \in 1 .. Len(s) - k : b[i] = s[k + i]
    BY <1>2, SuffixOf
<1> HIDE DEF a, b
<1>5. /\ u \in Seq(Node) /\ Len(u) = Len(a) + Len(b)
      /\ \A i \in 1 .. Len(a) + Len(b) : u[i] = IF i <= Len(a) THEN a[i] ELSE b[i - Len(a)]
    BY <1>3, <1>4, ConcatProperties
<1>6. /\ DOMAIN u = 1 .. Len(s) - 1
      /\ \A i \in 1 .. Len(s) - 1 : u[i] = IF i < k THEN s[i] ELSE s[i + 1]
  <2>1. Len(a) + Len(b) = Len(s) - 1
      BY <1>2, <1>3, <1>4
  <2>2. DOMAIN u = 1 .. Len(s) - 1
      BY <1>5, <2>1
  <2>3. ASSUME NEW i \in 1 .. Len(s) - 1
        PROVE  u[i] = IF i < k THEN s[i] ELSE s[i + 1]
    <3>1. u[i] = IF i <= k - 1 THEN a[i] ELSE b[i - (k - 1)]
        BY <1>3, <1>5, <2>1, <2>3
    <3>2. CASE i <= k - 1
        BY <1>2, <1>3, <3>1, <3>2
    <3>3. CASE i > k - 1
      <4>1. i - (k - 1) \in 1 .. Len(s) - k /\ k + (i - (k - 1)) = i + 1
          BY <1>2, <3>3
      <4> QED
          BY <1>2, <1>4, <3>1, <3>3, <4>1
    <3>4. k \in Int /\ i \in Int
        BY <1>2
    <3>5. i <= k - 1 \/ i > k - 1
        BY <3>4
    <3> QED
        BY <3>2, <3>3, <3>5
  <2> QED
      BY <2>2, <2>3
<1> DEFINE g == [i \in DOMAIN u |-> IF i < k THEN f[i] ELSE f[i + 1]]
<1> HIDE DEF u
<1>7. g \in [DOMAIN u -> DOMAIN t]
    BY <1>1, <1>2, <1>6
<1>8. \A i \in DOMAIN u : u[i] = t[g[i]]
    BY <1>1, <1>2, <1>6
<1>9. \A i, j \in DOMAIN u : i < j => g[i] < g[j]
    BY <1>1, <1>2, <1>6
<1> HIDE DEF g
<1>10. IsSubsequence(u, t)
    BY <1>7, <1>8, <1>9 DEF IsSubsequence
<1> QED
    BY <1>5, <1>10 DEF u, a, b

\* The answer to the oldest question is read: its message is somewhere in the second, and
\* that and all before it may be retired.
LEMMA FrontAnswered ==
    ASSUME NEW s \in Seq(Node), NEW t \in Seq(Node), IsSubsequence(s, t), s # <<>>
    PROVE  \E k \in 1 .. Len(t) :
              /\ t[k] = Head(s)
              /\ \A r \in 0 .. k : IsSubsequence(Tail(s), SubSeq(t, r + 1, Len(t)))
<1>1. PICK f \in [DOMAIN s -> DOMAIN t] :
          /\ \A i \in DOMAIN s : s[i] = t[f[i]]
          /\ \A i, j \in DOMAIN s : i < j => f[i] < f[j]
    BY DEF IsSubsequence
<1> DEFINE q == Tail(s)
<1>2. /\ Len(s) \in Nat \ {0} /\ DOMAIN s = 1 .. Len(s) /\ Head(s) = s[1]
      /\ Len(t) \in Nat /\ DOMAIN t = 1 .. Len(t)
      /\ DOMAIN q = 1 .. Len(s) - 1
      /\ \A i \in 1 .. Len(s) - 1 : q[i] = s[i + 1]
    OBVIOUS
<1> HIDE DEF q
<1>3. f[1] \in 1 .. Len(t) /\ t[f[1]] = Head(s)
    BY SMTT(30), <1>1, <1>2
<1>4. ASSUME NEW r \in 0 .. f[1]
      PROVE  IsSubsequence(q, SubSeq(t, r + 1, Len(t)))
  <2> DEFINE v == SubSeq(t, r + 1, Len(t))
  <2>1. r \in 0 .. Len(t)
      BY <1>2, <1>3
  <2>2. v \in Seq(Node) /\ Len(v) = Len(t) - r /\ \A i \in 1 .. Len(t) - r : v[i] = t[r + i]
      BY <2>1, SuffixOf
  <2>3. DOMAIN v = 1 .. Len(t) - r
      BY <2>2
  <2> HIDE DEF v
  <2> DEFINE g == [i \in DOMAIN q |-> f[i + 1] - r]
  <2>4. ASSUME NEW i \in 1 .. Len(s) - 1
        PROVE  f[i + 1] \in 1 .. Len(t) /\ f[1] < f[i + 1]
    <3>1. 1 \in DOMAIN s /\ i + 1 \in DOMAIN s /\ 1 < i + 1
        BY <1>2
    <3> QED
        BY <1>1, <1>2, <3>1
  <2>5. g \in [DOMAIN q -> DOMAIN v]
    <3>1. \A i \in 1 .. Len(s) - 1 : f[i + 1] - r \in 1 .. Len(t) - r
        BY <1>2, <1>3, <2>1, <2>4
    <3> QED
        BY <1>2, <2>3, <3>1
  <2>6. ASSUME NEW i \in DOMAIN q
        PROVE  q[i] = v[g[i]]
    <3>1. q[i] = t[f[i + 1]] /\ g[i] \in 1 .. Len(t) - r /\ g[i] = f[i + 1] - r
        BY <1>1, <1>2, <2>3, <2>5
    <3>2. r + g[i] = f[i + 1]
        BY <1>2, <2>1, <2>4, <3>1
    <3> QED
        BY <2>2, <3>1, <3>2
  <2>7. \A i, j \in DOMAIN q : i < j => g[i] < g[j]
    <3>1. ASSUME NEW i \in 1 .. Len(s) - 1, NEW j \in 1 .. Len(s) - 1, i < j
          PROVE  f[i + 1] - r < f[j + 1] - r
      <4>1. i + 1 \in DOMAIN s /\ j + 1 \in DOMAIN s /\ i + 1 < j + 1
          BY <1>2, <3>1
      <4>2. f[i + 1] < f[j + 1] /\ f[i + 1] \in Int /\ f[j + 1] \in Int
          BY <1>1, <2>4, <4>1
      <4> QED
          BY <4>2
    <3> QED
        BY <1>2, <3>1
  <2> HIDE DEF g
  <2>8. IsSubsequence(q, v)
      BY <2>5, <2>6, <2>7 DEF IsSubsequence
  <2> QED
      BY <2>8 DEF v
<1> QED
    BY <1>3, <1>4 DEF q

\* No message at all is a part of anything.
LEMMA NothingOwed ==
    ASSUME NEW t \in Seq(Node)
    PROVE  IsSubsequence(<<>>, t)
<1> DEFINE f == [i \in DOMAIN << >> |-> 1]
<1>1. f \in [DOMAIN << >> -> DOMAIN t]
    OBVIOUS
<1>2. \A i \in DOMAIN << >> : FALSE
    OBVIOUS
<1> QED
    BY <1>1, <1>2 DEF IsSubsequence

\* What an answer retires: messages up to the one it answers, of those the driver
\* remembers.
LEMMA AnswerRetires ==
    ASSUME Inv, inflight \in Seq(Node), IsSubsequence(inflight, SentNodes(output)),
           NEW w \in BOOLEAN, Answer(w)
    PROVE  LET letter == SecondOf[Head(inflight).data]
               m      == Head(inflight).data
           IN  /\ \E k \in 1 .. SentLen(output) :
                     /\ output.list[k] = Head(inflight)
                     /\ SentLen(output) - SentLen(output') \in 1 .. k
               /\ MatchesFor(letter) # {}
               /\ event' = Matched(m, IF w THEN CodesFor(FirstOf[output.list[RetiredBy(letter)].data], letter)
                                           ELSE {})
               /\ inflight' = Tail(inflight)
               /\ IsSubsequence(Tail(inflight), SentNodes(output'))
<1> DEFINE letter == SecondOf[Head(inflight).data]
           m == Head(inflight).data
           s == SentNodes(output)
           r == RetiredBy(letter)
<1>1. output \in OutputLists /\ WellFormed(output)
    BY DEF Inv, TypeOK, IteratorsValid
<1>2. inflight # <<>> /\ inflight' = Tail(inflight) /\ UpdateStatus(letter, w, m)
    BY DEF Answer
<1>3. /\ s \in Seq(Node) /\ Len(s) = SentLen(output)
      /\ \A i \in 1 .. SentLen(output) : s[i] = output.list[i]
    BY <1>1, NodesOf
<1>4. PICK k \in 1 .. Len(s) :
          /\ s[k] = Head(inflight)
          /\ \A n \in 0 .. k : IsSubsequence(Tail(inflight), SubSeq(s, n + 1, Len(s)))
    BY <1>2, <1>3, FrontAnswered
<1>5. output.list[k] = Head(inflight) /\ k \in MatchesFor(letter)
    BY <1>3, <1>4 DEF MatchesFor
<1>6. r \in 0 .. SentLen(output) /\ r \in 1 .. k
    BY <1>1, <1>5, RetiredByType
<1>7. output' = PopN(output, r)
    BY <1>2 DEF UpdateStatus, Packet
<1>8. SentLen(output') = SentLen(output) - r /\ SentNodes(output') = SubSeq(s, r + 1, Len(s))
    BY <1>1, <1>6, <1>7, PopNRetires, PopNNodes
<1>9. SentLen(output) \in Nat /\ r \in 0 .. k
    BY <1>1, <1>6, SentLenType DEF OutputLists
<1>10. IsSubsequence(Tail(inflight), SentNodes(output'))
    BY <1>4, <1>8, <1>9
<1>11. event' = Matched(m, IF w THEN CodesFor(FirstOf[output.list[r].data], letter) ELSE {})
    BY <1>2, <1>5 DEF UpdateStatus
<1>12. SentLen(output) - SentLen(output') \in 1 .. k
    BY <1>6, <1>8, <1>9
<1> QED
    BY <1>2, <1>3, <1>4, <1>5, <1>10, <1>11, <1>12

\* Every step keeps that.
LEMMA RememberedStep ==
    ASSUME Inv, Remembered, [LgeNext]_lgeVars
    PROVE  Remembered'
<1>1. output \in OutputLists /\ WellFormed(output)
    BY DEF Inv, TypeOK, IteratorsValid
<1>2. output' \in OutputLists /\ WellFormed(output')
    BY LgeStepIsDeviceStep, NextInv DEF Inv, TypeOK, IteratorsValid
<1>3. /\ SentNodes(output) \in Seq(Node) /\ SentNodes(output') \in Seq(Node)
      /\ SentLen(output) \in Int
  <2>1. ASSUME NEW o \in OutputLists, WellFormed(o)
        PROVE  SentNodes(o) \in Seq(Node) /\ SentLen(o) \in Int
      BY <2>1, NodesOf, SentLenType DEF OutputLists
  <2> QED
      BY <1>1, <1>2, <2>1
<1>4. ASSUME inflight' = <<>>
      PROVE  Remembered'
  <2>1. \A t : t = SentNodes(output') => IsSubsequence(<<>>, t)
      BY <1>3, NothingOwed
  <2>2. IsSubsequence(inflight, SentNodes(output))'
      BY <1>4, <2>1 DEF IsSubsequence
  <2> QED
      BY <1>4, <2>2 DEF Remembered, OwedAnswersRemembered
\* A step that delivers what it writes.
<1>5. ASSUME inflight' = Delivered, Judge(TRUE, TRUE),
             \/ SentNodes(output') = SentNodes(output) /\ SentLen(output') = SentLen(output)
             \/ /\ SentLen(output') = SentLen(output) + 1
                /\ SentNodes(output') = Append(SentNodes(output), output'.list[SentLen(output')])
      PROVE  Remembered'
  <2>1. CASE SentNodes(output') = SentNodes(output) /\ SentLen(output') = SentLen(output)
    <3>1. inflight' = inflight
        BY <1>3, <1>5, <2>1 DEF Delivered
    <3>2. inflight' = <<>> \/ (aligned' => aligned)
        BY <1>5 DEF Judge
    <3> QED
        BY <1>4, <2>1, <3>1, <3>2 DEF Remembered, OwedAnswersRemembered, IsSubsequence
  <2>2. CASE /\ SentLen(output') = SentLen(output) + 1
             /\ SentNodes(output') = Append(SentNodes(output), output'.list[SentLen(output')])
    <3> DEFINE n == output'.list[SentLen(output')]
    <3>1. inflight' = Append(inflight, n)
        BY <1>3, <1>5, <2>2 DEF Delivered
    <3>2. n \in Node
      <4>1. SentLen(output') \in 1 .. Len(output'.list)
        <5>1. SentLen(output') \in 0 .. Len(output'.list) /\ SentLen(output) \in 0 .. Len(output.list)
            BY <1>1, <1>2, SentLenType
        <5>2. Len(output.list) \in Nat /\ Len(output'.list) \in Nat
            BY <1>1, <1>2 DEF OutputLists
        <5> QED
            BY <2>2, <5>1, <5>2
      <4>2. output'.list \in Seq(Node)
          BY <1>2 DEF OutputLists
      <4> QED
          BY <4>1, <4>2, ElementOfSeq
    <3>3. inflight' \in Seq(Node)
        BY <3>1, <3>2 DEF Remembered
    <3>4. inflight' = <<>> \/ (aligned' => aligned)
        BY <1>5 DEF Judge
    <3>5. aligned => IsSubsequence(Append(inflight, n), Append(SentNodes(output), n))
        BY <1>3, BothAppended DEF Remembered, OwedAnswersRemembered
    <3>6. ASSUME aligned PROVE OwedAnswersRemembered'
        BY <2>2, <3>1, <3>5, <3>6 DEF OwedAnswersRemembered, IsSubsequence
    <3>7. aligned' => OwedAnswersRemembered'
      <4>1. CASE inflight' = <<>>
          BY <1>4, <4>1 DEF Remembered
      <4> QED
          BY <3>4, <3>6, <4>1
    <3> QED
        BY <3>3, <3>7 DEF Remembered, OwedAnswersRemembered
  <2> QED
      BY <1>5, <2>1, <2>2
<1>6. ASSUME NEW m \in Msg, LgeSend(m)
      PROVE  Remembered'
    BY <1>5, <1>6, SendDelivers DEF LgeSend
<1>7. CASE LgeWriteTimeout
    BY <1>1, <1>5, <1>7, WriteDelivers DEF LgeWriteTimeout, WriteTimeout
<1>8. ASSUME NEW w \in BOOLEAN, Answer(w)
      PROVE  Remembered'
  <2>1. inflight # <<>> /\ inflight' = Tail(inflight) /\ Judge(TRUE, TRUE)
      BY <1>8 DEF Answer
  <2>2. inflight' \in Seq(Node)
      BY <2>1 DEF Remembered
  <2>3. aligned => IsSubsequence(Tail(inflight), SentNodes(output'))
      BY <1>8, AnswerRetires DEF Remembered, OwedAnswersRemembered
  <2>4. CASE aligned'
    <3>1. CASE inflight' = <<>>
        BY <1>4, <3>1
    <3>2. CASE aligned
        BY <2>1, <2>2, <2>3, <3>2 DEF Remembered, OwedAnswersRemembered, IsSubsequence
    <3> QED
        BY <2>1, <2>4, <3>1, <3>2 DEF Judge
  <2> QED
      BY <2>2, <2>4 DEF Remembered, OwedAnswersRemembered
<1>9. ASSUME inflight' = inflight, aligned' = (inflight' = <<>>)
      PROVE  Remembered'
    BY <1>4, <1>9 DEF Remembered, OwedAnswersRemembered
<1>10. ASSUME NEW letter \in Letters, NEW w \in BOOLEAN, Stray(letter, w)
       PROVE  Remembered'
    BY <1>9, <1>10 DEF Stray, Judge
<1>11. ASSUME NEW i \in 1 .. Len(inflight), LoseAnswer(i)
       PROVE  Remembered'
  <2> DEFINE u == SubSeq(inflight, 1, i - 1) \o SubSeq(inflight, i + 1, Len(inflight))
  <2>1. inflight' = u /\ output' = output /\ Judge(TRUE, FALSE)
      BY <1>11 DEF LoseAnswer, vars
  <2>2. u \in Seq(Node)
    <3>1. inflight \in Seq(Node) /\ i - 1 \in 0 .. Len(inflight) /\ i \in 0 .. Len(inflight)
        BY DEF Remembered
    <3>2. SubSeq(inflight, 1, i - 1) \in Seq(Node) /\ SubSeq(inflight, i + 1, Len(inflight)) \in Seq(Node)
        BY <3>1, PrefixOf, SuffixOf
    <3> QED
        BY <3>2
  <2>3. aligned => IsSubsequence(u, SentNodes(output))
      BY <1>3, OneLost DEF Remembered, OwedAnswersRemembered
  <2> HIDE DEF u
  <2>4. aligned' => inflight' = <<>> \/ aligned
      BY <2>1 DEF Judge
  <2>5. CASE inflight' = <<>>
      BY <1>4, <2>5
  <2>6. CASE inflight' # <<>>
    <3>1. SentNodes(output') = SentNodes(output) /\ inflight' = u
        BY <2>1
    <3>2. aligned' => IsSubsequence(u, SentNodes(output'))
        BY <2>3, <2>4, <2>6, <3>1
    <3> QED
        BY <2>2, <3>1, <3>2 DEF Remembered, OwedAnswersRemembered, IsSubsequence
  <2> QED
      BY <2>5, <2>6
<1>12. CASE LgeReopen
    BY <1>9, <1>12 DEF LgeReopen, Judge
<1>13. ASSUME UNCHANGED <<output, inflight, aligned>>
       PROVE  Remembered'
    BY <1>13 DEF Remembered, OwedAnswersRemembered
<1>14. CASE LgeEof
    BY <1>13, <1>14 DEF LgeEof, Eof
<1>15. CASE LgeExit
    BY <1>4, <1>15 DEF LgeExit
<1>16. CASE LgeTick
    BY <1>13, <1>16 DEF LgeTick, Tick
<1>17. CASE UNCHANGED lgeVars
    BY <1>13, <1>17 DEF lgeVars
<1> QED
    BY <1>6, <1>7, <1>8, <1>10, <1>11, <1>12, <1>14, <1>15, <1>16, <1>17 DEF LgeNext

\* So it holds always.
LEMMA RememberedHolds == LgeSpec => []Remembered
<1>1. LgeInit => Remembered
  <2>1. SUFFICES ASSUME LgeInit
                 PROVE  Remembered
      OBVIOUS
  <2>2. output = EmptyOutput /\ inflight = <<>>
      BY <2>1 DEF LgeInit, Init
  <2>3. SentNodes(output) \in Seq(Node)
      BY <2>2, EmptyOutputWellFormed, NodesOf
  <2> QED
      BY <2>2, <2>3, NothingOwed DEF Remembered, OwedAnswersRemembered
<1>2. Inv /\ Remembered /\ [LgeNext]_lgeVars => Remembered'
    BY RememberedStep
<1> QED
    BY <1>1, <1>2, LgeInvHolds, PTL DEF LgeSpec

\* Lost answers alone never make the driver forget a command that will still be
\* answered, however many are under way.
THEOREM LgeRemembersOwedAnswers == LgeSpec => []OwedAnswersRemembered
<1>1. Remembered => OwedAnswersRemembered
    BY DEF Remembered
<1> QED
    BY <1>1, RememberedHolds, PTL

\* So no answer is thrown away, and none retires a message written later than the
\* one it answers.
THEOREM LgeAnswersFindTheirCommand == LgeSpec => AnswersFindTheirCommand
<1> DEFINE Found == /\ event'.kind = "matched"
                    /\ \E k \in 1 .. SentLen(output) :
                         /\ output.list[k] = Head(inflight)
                         /\ SentLen(output) - SentLen(output') \in 1 .. k
<1>1. ASSUME Inv, Remembered, [LgeNext]_lgeVars, aligned, TvAnswered
      PROVE  Found
  <2>1. PICK w \in BOOLEAN : Answer(w)
      BY <1>1, OnlyAnswersAnswer
  <2>2. inflight \in Seq(Node) /\ IsSubsequence(inflight, SentNodes(output))
      BY <1>1 DEF Remembered, OwedAnswersRemembered
  <2>3. \E m, codes : event' = Matched(m, codes)
      BY <1>1, <2>1, <2>2, AnswerRetires
  <2>4. event'.kind = "matched"
      BY <2>3 DEF Matched
  <2> QED
      BY <1>1, <2>1, <2>2, <2>4, AnswerRetires
<1>2. Inv /\ Remembered /\ [LgeNext]_lgeVars => [(aligned /\ TvAnswered) => Found]_lgeVars
    BY <1>1
<1> QED
    BY <1>2, LgeInvHolds, RememberedHolds, PTL DEF LgeSpec, AnswersFindTheirCommand

-----------------------------------------------------------------------------
(* The receiver: the device.                                               *)

\* send() of m from a list that has just been popped, or not, keeps Inv.
LEMMA SendOnInv ==
    ASSUME Inv, daemon = "running", UNCHANGED <<loopexit, daemon>>,
           NEW o \in OutputLists, WellFormed(o), o.send_iter = output.send_iter,
           NEW a \in Addr \ Addrs(o), NEW m \in Msg,
           SendOn(o, a, m)
    PROVE  Inv'
<1>1. /\ loopexit \in BOOLEAN
      /\ write_ev \in Nat \union {NotPending} /\ rest \in Nat /\ wrote \in BOOLEAN
    BY DEF Inv, TypeOK
<1> DEFINE p == Push(o, [addr |-> a, data |-> m])
<1>2. p \in OutputLists /\ WellFormed(p) /\ p.send_iter # End
  <2>1. [addr |-> a, data |-> m] \in Node
      BY DEF Node
  <2> QED
      BY <2>1, PushAppends
<1>3. CASE write_ev = NotPending
  <2>1. WriteCb(p)
      BY <1>3 DEF SendOn
  <2>2. /\ output' \in OutputLists /\ WellFormed(output')
        /\ write_ev' \in Nat /\ rest' = write_ev' /\ wrote' = TRUE
      BY <1>2, <2>1, WriteCbKeeps
  <2> QED
      BY <1>1, <2>2
      DEF Inv, TypeOK, IteratorsValid, TimerCoversRest, IdleOutsideSession, NotPending
<1>4. CASE write_ev # NotPending
  <2>1. output' = p /\ write_ev' = write_ev /\ rest' = rest /\ wrote' = wrote
      BY <1>4 DEF SendOn
  <2> QED
      BY <1>1, <1>2, <1>4, <2>1
      DEF Inv, TypeOK, IteratorsValid, TimerCoversRest, IdleOutsideSession
<1> QED
    BY <1>3, <1>4

\* The list update_status() goes on with has valid iterators, and the same send_iter.
LEMMA UnawaitedWellFormed ==
    ASSUME Inv
    PROVE  /\ Unawaited \in OutputLists
           /\ WellFormed(Unawaited)
           /\ Unawaited.send_iter = output.send_iter
<1>1. output \in OutputLists /\ WellFormed(output)
    BY DEF Inv, TypeOK, IteratorsValid
<1>2. SentLen(output) \in 0 .. SentLen(output)
    BY <1>1, SentLenType
<1> QED
    BY <1>1, <1>2, PopNRetires DEF Unawaited, PopN

\* Taking the answered messages off the list keeps Inv.
LEMMA UnawaitedInv ==
    ASSUME Inv, output' = Unawaited,
           UNCHANGED <<write_ev, loopexit, daemon, rest, wrote>>, daemon = "running"
    PROVE  Inv'
BY UnawaitedWellFormed
DEF Inv, TypeOK, IteratorsValid, TimerCoversRest, IdleOutsideSession

\* So does open(), whose message is the first and is written at once.
LEMMA MaOpenInv ==
    ASSUME Inv, MaOpen
    PROVE  Inv'
<1>1. PICK a \in Addr : WriteCb(Push(EmptyOutput, [addr |-> a, data |-> AstOf[{1}]]))
    BY DEF MaOpen
<1> DEFINE p == Push(EmptyOutput, [addr |-> a, data |-> AstOf[{1}]])
<1>2. p \in OutputLists /\ WellFormed(p) /\ p.send_iter # End
  <2>1. {1} \in SUBSET Layers
      BY DEF Layers
  <2>2. [addr |-> a, data |-> AstOf[{1}]] \in Node
      BY <2>1, MarantzAssumption DEF Node
  <2>3. Addrs(EmptyOutput) = {}
      BY DEF Addrs, EmptyOutput
  <2> QED
      BY <2>2, <2>3, EmptyOutputWellFormed, PushAppends
<1>3. /\ output' \in OutputLists /\ WellFormed(output')
      /\ write_ev' \in Nat /\ rest' = write_ev' /\ wrote' = TRUE
    BY <1>1, <1>2, WriteCbKeeps
<1>4. loopexit' \in BOOLEAN /\ daemon' = "running"
    BY DEF MaOpen
<1>5. TypeOK' /\ TimerCoversRest'
    BY <1>3, <1>4 DEF TypeOK, TimerCoversRest, NotPending
<1> QED
    BY <1>3, <1>4, <1>5 DEF Inv, IteratorsValid, IdleOutsideSession, NotPending

\* Every step of the driver keeps the invariant of the device.
LEMMA MaNextInv ==
    ASSUME Inv, MaTypeOK, [MaNext]_maVars
    PROVE  Inv'
<1>1. CASE MaOpen
    BY <1>1, MaOpenInv
<1>2. ASSUME NEW m \in Ask, MaSend(m)
      PROVE  Inv'
  <2>1. m \in Msg
      BY MarantzAssumption
  <2>2. Send(m)
      BY <1>2 DEF MaSend, MaSendOn, Send
  <2> QED
      BY <2>1, <2>2, SendInv
<1>3. CASE MaWriteTimeout
  <2>1. WriteTimeout
      BY <1>3 DEF MaWriteTimeout, Transmit, WriteTimeout
  <2> QED
      BY <2>1, WriteTimeoutInv
<1>4. CASE UpdateFeedback
    BY <1>4, UnawaitedInv DEF UpdateFeedback
<1>5. CASE UpdateValue
  <2> DEFINE layer == LayerOf[Head(incoming).code]
  <2>1. CASE layer \in Layers \ auto_status_feedback_layer
    <3>1. PICK a \in Addr \ Addrs(Unawaited) :
              MaSendOn(Unawaited, a, AstOf[Wanted(layer)], Tail(incoming))
        BY <1>5, <2>1 DEF UpdateValue
    <3>2. AstOf[Wanted(layer)] \in Msg
      <4>1. Wanted(layer) \in SUBSET Layers
          BY <2>1 DEF Wanted, MaTypeOK
      <4> QED
          BY <4>1, MarantzAssumption
    <3> QED
        BY <1>5, <3>1, <3>2, UnawaitedWellFormed, SendOnInv DEF UpdateValue, MaSendOn
  <2>2. CASE layer \notin Layers \ auto_status_feedback_layer
      BY <1>5, <2>2, UnawaitedInv DEF UpdateValue
  <2> QED
      BY <2>1, <2>2
<1>6. CASE UpdateNull \/ MaExit
  <2>1. Exit
      BY <1>6 DEF UpdateNull, MaExit
  <2> QED
      BY <2>1, NextInv DEF Next
<1>7. CASE \/ \E code \in Info : Report(code)
           \/ \E i \in DOMAIN incoming : LosePacket(i)
           \/ UNCHANGED maVars
  <2>1. UNCHANGED vars
      BY <1>7 DEF Report, LosePacket, maVars, vars
  <2> QED
      BY <2>1, NextInv
<1>8. CASE MaEof
    BY <1>8, NextInv DEF MaEof, Next
<1>9. CASE MaTick
    BY <1>9, NextInv DEF MaTick, Next
<1> QED
    BY <1>1, <1>2, <1>3, <1>4, <1>5, <1>6, <1>7, <1>8, <1>9 DEF MaNext

-----------------------------------------------------------------------------
(* The receiver: the belief.                                               *)

\* The last answer on its way is m and, if there is none, the belief is m as read.
Agree(in, m, belief) == LastAst(in, m) /\ (NoAst(in) => belief = Parsed(m))

\* Two sequences one behind the other.
LEMMA Joined ==
    ASSUME NEW S, NEW a \in Seq(S), NEW b \in Seq(S)
    PROVE  /\ a \o b \in Seq(S) /\ Len(a \o b) = Len(a) + Len(b)
           /\ \A i \in 1 .. Len(a \o b) :
                 (a \o b)[i] = IF i <= Len(a) THEN a[i] ELSE b[i - Len(a)]
OBVIOUS

\* An answer put at the end is the last one, whatever went before it.
LEMMA AgreeAppendAst ==
    ASSUME NEW in \in Seq(Packets), NEW m \in SUBSET Layers, NEW belief
    PROVE  Append(in, Ast(m)) \in Seq(Packets) /\ Agree(Append(in, Ast(m)), m, belief)
<1> DEFINE new == Append(in, Ast(m))
<1>1. Ast(m) \in Packets /\ IsAst(Ast(m)) /\ Ast(m).ast = m
    BY DEF Ast, Packets, IsAst
<1>2. /\ new \in Seq(Packets) /\ Len(in) \in Nat
      /\ DOMAIN new = 1 .. Len(in) + 1
      /\ new[Len(in) + 1] = Ast(m)
    BY <1>1
<1>3. ~NoAst(new)
    BY <1>1, <1>2 DEF NoAst
<1>4. LastAst(new, m)
  <2>1. ASSUME NEW i \in DOMAIN new, \A j \in DOMAIN new : j > i => ~IsAst(new[j])
        PROVE  new[i].ast = m
    <3>1. i = Len(in) + 1
        BY <1>1, <1>2, <2>1
    <3> QED
        BY <1>1, <1>2, <3>1
  <2> QED
      BY <2>1 DEF LastAst
<1> QED
    BY <1>2, <1>3, <1>4 DEF Agree

\* A value put at the end changes nothing.
LEMMA AgreeAppendValue ==
    ASSUME NEW in \in Seq(Packets), NEW m, NEW belief, NEW code \in Info,
           Agree(in, m, belief)
    PROVE  /\ Append(in, Value(code)) \in Seq(Packets)
           /\ Agree(Append(in, Value(code)), m, belief)
<1> DEFINE new == Append(in, Value(code))
<1>1. Value(code) \in Packets /\ ~IsAst(Value(code))
    BY DEF Value, Packets, IsAst
<1>2. /\ new \in Seq(Packets) /\ Len(in) \in Nat
      /\ DOMAIN new = 1 .. Len(in) + 1 /\ DOMAIN in = 1 .. Len(in)
      /\ new[Len(in) + 1] = Value(code)
      /\ \A i \in 1 .. Len(in) : new[i] = in[i]
    BY <1>1
<1> HIDE DEF new
<1>3. NoAst(new) => NoAst(in)
    BY <1>2 DEF NoAst
<1>4. LastAst(new, m)
  <2>1. ASSUME NEW i \in DOMAIN new, IsAst(new[i]),
               \A j \in DOMAIN new : j > i => ~IsAst(new[j])
        PROVE  new[i].ast = m
    <3>1. i \in DOMAIN in /\ new[i] = in[i]
        BY <1>1, <1>2, <2>1
    <3>2. \A j \in DOMAIN in : j > i => ~IsAst(in[j])
        BY <1>2, <2>1
    <3> QED
        BY <2>1, <3>1, <3>2 DEF Agree, LastAst
  <2> QED
      BY <2>1 DEF LastAst
<1> QED
    BY <1>2, <1>3, <1>4 DEF Agree, new

\* Taking a packet out of the sequence, wherever it is, unless it is an answer.
LEMMA AgreeRemove ==
    ASSUME NEW in \in Seq(Packets), NEW m, NEW belief, NEW k \in DOMAIN in,
           NEW new \in Seq(Packets), Len(new) = Len(in) - 1,
           \A i \in 1 .. Len(new) : new[i] = IF i < k THEN in[i] ELSE in[i + 1],
           ~IsAst(in[k]), Agree(in, m, belief)
    PROVE  Agree(new, m, belief)
<1>1. /\ Len(in) \in Nat /\ Len(new) \in Nat /\ k \in 1 .. Len(in)
      /\ DOMAIN in = 1 .. Len(in) /\ DOMAIN new = 1 .. Len(new)
    OBVIOUS
<1>2. ASSUME NEW j \in DOMAIN in, IsAst(in[j])
      PROVE  \E i \in DOMAIN new : /\ new[i] = in[j]
                                   /\ i = IF j < k THEN j ELSE j - 1
  <2>1. j # k
      BY <1>2
  <2>2. CASE j < k
      BY <1>1, <2>2
  <2>3. CASE j > k
    <3>1. j - 1 \in 1 .. Len(new) /\ ~(j - 1 < k) /\ (j - 1) + 1 = j
        BY <1>1, <2>3
    <3>2. new[j - 1] = in[(j - 1) + 1]
        BY <3>1
    <3> QED
        BY <1>1, <2>3, <3>1, <3>2
  <2> QED
      BY <1>1, <2>1, <2>2, <2>3
<1>3. NoAst(new) => NoAst(in)
    BY <1>2 DEF NoAst
<1>4. LastAst(new, m)
  <2>1. ASSUME NEW i \in DOMAIN new, IsAst(new[i]),
               \A j \in DOMAIN new : j > i => ~IsAst(new[j])
        PROVE  new[i].ast = m
    <3> DEFINE at == IF i < k THEN i ELSE i + 1
    <3>1. at \in DOMAIN in /\ in[at] = new[i]
        BY <1>1
    <3>2. ASSUME NEW j \in DOMAIN in, j > at, IsAst(in[j])
          PROVE  FALSE
      <4>1. PICK n \in DOMAIN new : new[n] = in[j] /\ n = IF j < k THEN j ELSE j - 1
          BY <1>2, <3>2
      <4>2. n > i
          BY <1>1, <3>2, <4>1
      <4> QED
          BY <2>1, <3>2, <4>1, <4>2
    <3> HIDE DEF at
    <3>3. in[at].ast = m
        BY <2>1, <3>1, <3>2 DEF Agree, LastAst
    <3> QED
        BY <3>1, <3>3
  <2> QED
      BY <2>1 DEF LastAst
<1> QED
    BY <1>3, <1>4 DEF Agree

\* Taking the packet at the front, when it is a value.
LEMMA AgreeTailValue ==
    ASSUME NEW in \in Seq(Packets), NEW m, NEW belief, in # <<>>,
           ~IsAst(Head(in)), Agree(in, m, belief)
    PROVE  Tail(in) \in Seq(Packets) /\ Agree(Tail(in), m, belief)
<1>1. /\ Len(in) \in Nat /\ 1 \in DOMAIN in /\ in[1] = Head(in)
      /\ Tail(in) \in Seq(Packets) /\ Len(Tail(in)) = Len(in) - 1
      /\ \A i \in 1 .. Len(Tail(in)) : Tail(in)[i] = in[i + 1]
    OBVIOUS
<1>2. \A i \in 1 .. Len(Tail(in)) : Tail(in)[i] = IF i < 1 THEN in[i] ELSE in[i + 1]
    BY <1>1
<1> QED
    BY <1>1, <1>2, AgreeRemove

\* Taking the packet at the front, when it is an answer, and believing it.
LEMMA AgreeTailAst ==
    ASSUME NEW in \in Seq(Packets), NEW m, NEW belief, in # <<>>,
           IsAst(Head(in)), Agree(in, m, belief)
    PROVE  Tail(in) \in Seq(Packets) /\ Agree(Tail(in), m, Parsed(Head(in).ast))
<1>1. /\ Len(in) \in Nat /\ 1 \in DOMAIN in /\ in[1] = Head(in)
      /\ DOMAIN in = 1 .. Len(in)
      /\ Tail(in) \in Seq(Packets) /\ Len(Tail(in)) = Len(in) - 1
      /\ DOMAIN Tail(in) = 1 .. Len(in) - 1
      /\ \A i \in 1 .. Len(in) - 1 : Tail(in)[i] = in[i + 1]
    OBVIOUS
<1> DEFINE new == Tail(in)
<1> HIDE DEF new
<1>2. ASSUME NEW j \in DOMAIN in, j > 1
      PROVE  j - 1 \in DOMAIN new /\ new[j - 1] = in[j]
  <2>1. j - 1 \in 1 .. Len(in) - 1 /\ (j - 1) + 1 = j
      BY <1>1, <1>2
  <2>2. Tail(in)[j - 1] = in[(j - 1) + 1]
      BY <1>1, <2>1
  <2> QED
      BY <1>1, <2>1, <2>2 DEF new
<1>3. LastAst(new, m)
  <2>1. ASSUME NEW i \in DOMAIN new, IsAst(new[i]),
               \A j \in DOMAIN new : j > i => ~IsAst(new[j])
        PROVE  new[i].ast = m
    <3>1. i \in 1 .. Len(in) - 1
        BY <1>1, <2>1 DEF new
    <3>2. new[i] = in[i + 1] /\ i + 1 \in DOMAIN in
        BY <1>1, <3>1 DEF new
    <3>3. ASSUME NEW j \in DOMAIN in, j > i + 1
          PROVE  ~IsAst(in[j])
      <4>1. j > 1 /\ j - 1 > i
          BY <1>1, <3>1, <3>3
      <4>2. j - 1 \in DOMAIN new /\ new[j - 1] = in[j]
          BY <1>2, <4>1
      <4> QED
          BY <2>1, <4>1, <4>2
    <3> QED
        BY <2>1, <3>2, <3>3 DEF Agree, LastAst
  <2> QED
      BY <2>1 DEF LastAst
<1>4. NoAst(new) => Head(in).ast = m
  <2> SUFFICES ASSUME NoAst(new)
               PROVE  Head(in).ast = m
      OBVIOUS
  <2>1. \A j \in DOMAIN in : j > 1 => ~IsAst(in[j])
      BY <1>2 DEF NoAst
  <2>2. IsAst(in[1])
      BY <1>1
  <2>3. in[1].ast = m
      BY <1>1, <2>1, <2>2 DEF Agree, LastAst
  <2> QED
      BY <1>1, <2>3
<1> QED
    BY <1>1, <1>3, <1>4 DEF Agree, new

-----------------------------------------------------------------------------
(* The receiver: the steps.                                                *)

\* The part of MaInv that is about the receiver.
Believes ==
    /\ auto_status_feedback_layer \in SUBSET Layers
    /\ mask \in SUBSET Layers
    /\ incoming \in Seq(Packets)
    /\ inStep \in BOOLEAN
    /\ (daemon = "running" /\ inStep) => Agree(incoming, mask, auto_status_feedback_layer)

\* The empty line is a sequence of packets.
LEMMA NothingIncoming == <<>> \in Seq(Packets)
OBVIOUS

\* MaInv in the two parts that are proved one by one.
LEMMA MaInvIs == MaInv <=> Inv /\ Believes
BY DEF MaInv, MaTypeOK, Inv, Believes, Agree, LastAnswerTrue, BeliefFollowsReceiver

\* Whether the receiver misses what is written or takes it, and whether anything
\* is written or not, belief and receiver go on agreeing.
LEMMA ReceiverKeeps ==
    ASSUME NEW in \in Seq(Packets),
           mask \in SUBSET Layers, inStep \in BOOLEAN,
           inStep => Agree(in, mask, auto_status_feedback_layer'),
           auto_status_feedback_layer' \in SUBSET Layers,
           Misses(in) \/ \E m \in Msg : Takes(m, in)
    PROVE  Believes'
<1>1. CASE Misses(in)
    BY <1>1 DEF Misses, Believes
<1>2. ASSUME NEW m \in Msg, Takes(m, in)
      PROVE  Believes'
  <2>1. CASE \E layers \in SUBSET Layers :
                /\ mask' = layers
                /\ incoming' = Append(in, Ast(layers))
                /\ inStep' = TRUE
    <3>1. PICK layers \in SUBSET Layers :
              mask' = layers /\ incoming' = Append(in, Ast(layers)) /\ inStep' = TRUE
        BY <2>1
    <3>2. incoming' \in Seq(Packets) /\ Agree(incoming', mask', auto_status_feedback_layer')
        BY <3>1, AgreeAppendAst
    <3>3. inStep' \in BOOLEAN /\ mask' \in SUBSET Layers
        BY <3>1
    <3> QED
        BY <3>2, <3>3 DEF Believes
  <2>2. CASE m \in Ask /\ incoming' = Append(in, Value(AnswerTo[m])) /\ UNCHANGED <<mask, inStep>>
    <3>1. AnswerTo[m] \in Info
        BY <2>2, MarantzAssumption
    <3>2. incoming' \in Seq(Packets)
      <4>1. Value(AnswerTo[m]) \in Packets
          BY <3>1 DEF Value, Packets
      <4> QED
          BY <2>2, <4>1
    <3>3. inStep => Agree(incoming', mask, auto_status_feedback_layer')
        BY <2>2, <3>1, AgreeAppendValue
    <3> QED
        BY <2>2, <3>2, <3>3 DEF Believes
  <2> QED
      BY <1>2, <2>1, <2>2 DEF Takes
<1> QED
    BY <1>1, <1>2

\* What is written is a message.
LEMMA WrittenIsMsg ==
    ASSUME NEW o \in OutputLists, WellFormed(o), o.send_iter # End
    PROVE  NodeAt(o, o.send_iter).data \in Msg
<1>1. NodeAt(o, o.send_iter) = o.list[SentLen(o) + 1] /\ SentLen(o) + 1 \in 1 .. Len(o.list)
    BY SendIterAt
<1>2. o.list[SentLen(o) + 1] \in Node
    BY <1>1, ElementOfSeq DEF OutputLists
<1> QED
    BY <1>1, <1>2 DEF Node

\* send(), from whatever valid list, misses or reaches the receiver.
LEMMA MaSendOnReaches ==
    ASSUME NEW o \in OutputLists, WellFormed(o), NEW a \in Addr \ Addrs(o),
           NEW m \in Msg, NEW in, MaSendOn(o, a, m, in)
    PROVE  Misses(in) \/ \E n \in Msg : Takes(n, in)
<1> DEFINE p == Push(o, [addr |-> a, data |-> m])
<1>1. p \in OutputLists /\ WellFormed(p) /\ p.send_iter # End
  <2>1. [addr |-> a, data |-> m] \in Node
      BY DEF Node
  <2> QED
      BY <2>1, PushAppends
<1>2. NodeAt(p, p.send_iter).data \in Msg
    BY <1>1, WrittenIsMsg
<1>3. Misses(in) \/ Takes(NodeAt(p, p.send_iter).data, in)
    BY DEF MaSendOn
<1> QED
    BY <1>2, <1>3

\* Every step keeps what the driver believes true.
LEMMA BelievesNext ==
    ASSUME Inv, Believes, [MaNext]_maVars
    PROVE  Believes'
<1> USE DEF Believes
<1>0. output \in OutputLists /\ WellFormed(output)
    BY DEF Inv, TypeOK, IteratorsValid
<1>1. CASE MaOpen
  <2>1. auto_status_feedback_layer' = {} /\ {} \in SUBSET Layers
      BY <1>1 DEF MaOpen
  <2>2. PICK in \in {incoming, <<>>} :
            \/ incoming' = in /\ mask' = mask /\ inStep' = FALSE
            \/ Takes(AstOf[{1}], in)
      BY <1>1 DEF MaOpen
  <2>3. in \in Seq(Packets)
      BY <2>2, NothingIncoming
  <2>4. CASE incoming' = in /\ mask' = mask /\ inStep' = FALSE
      BY <2>1, <2>3, <2>4
  <2>5. CASE Takes(AstOf[{1}], in)
    <3>1. {1} \in SUBSET Layers /\ AstOf[{1}] \in Msg /\ AstOf[{1}] \notin Ask
        BY MarantzAssumption DEF Layers
    <3>2. PICK layers \in SUBSET Layers :
              mask' = layers /\ incoming' = Append(in, Ast(layers)) /\ inStep' = TRUE
        BY <2>5, <3>1 DEF Takes
    <3>3. incoming' \in Seq(Packets) /\ Agree(incoming', mask', auto_status_feedback_layer')
        BY <2>3, <3>2, AgreeAppendAst
    <3> QED
        BY <2>1, <3>2, <3>3
  <2> QED
      BY <2>2, <2>4, <2>5
<1>2. ASSUME NEW m \in Ask, MaSend(m)
      PROVE  Believes'
  <2>1. /\ daemon = "running" /\ auto_status_feedback_layer' = auto_status_feedback_layer
        /\ m \in Msg
      BY <1>2, MarantzAssumption DEF MaSend
  <2>2. PICK a \in Addr \ Addrs(output) : MaSendOn(output, a, m, incoming)
      BY <1>2 DEF MaSend
  <2>3. Misses(incoming) \/ \E n \in Msg : Takes(n, incoming)
      BY <1>0, <2>1, <2>2, MaSendOnReaches
  <2> QED
      BY <2>1, <2>3, ReceiverKeeps
<1>3. CASE MaWriteTimeout
  <2>1. daemon = "running" /\ auto_status_feedback_layer' = auto_status_feedback_layer
      BY <1>3 DEF MaWriteTimeout
  <2>2. Misses(incoming) \/ \E n \in Msg : Takes(n, incoming)
      BY <1>0, <1>3, WrittenIsMsg DEF MaWriteTimeout, Transmit
  <2> QED
      BY <2>1, <2>2, ReceiverKeeps
<1>4. CASE UpdateFeedback
  <2>1. /\ daemon = "running" /\ incoming # <<>> /\ IsAst(Head(incoming))
        /\ auto_status_feedback_layer' = Parsed(Head(incoming).ast)
        /\ Misses(Tail(incoming))
      BY <1>4 DEF UpdateFeedback
  <2>2. inStep => Agree(Tail(incoming), mask, auto_status_feedback_layer')
      BY <2>1, AgreeTailAst
  <2>3. Tail(incoming) \in Seq(Packets) /\ auto_status_feedback_layer' \in SUBSET Layers
      BY <2>1 DEF Parsed
  <2> QED
      BY <2>1, <2>2, <2>3, ReceiverKeeps
<1>5. CASE UpdateValue
  <2> DEFINE layer == LayerOf[Head(incoming).code]
  <2>1. /\ daemon = "running" /\ incoming # <<>> /\ ~IsAst(Head(incoming))
        /\ auto_status_feedback_layer' = auto_status_feedback_layer
      BY <1>5 DEF UpdateValue
  <2>2. Tail(incoming) \in Seq(Packets)
      BY <2>1
  <2>3. inStep => Agree(Tail(incoming), mask, auto_status_feedback_layer')
      BY <2>1, AgreeTailValue
  <2>4. Misses(Tail(incoming)) \/ \E n \in Msg : Takes(n, Tail(incoming))
    <3>1. CASE layer \in Layers \ auto_status_feedback_layer
      <4>1. PICK a \in Addr \ Addrs(Unawaited) :
                MaSendOn(Unawaited, a, AstOf[Wanted(layer)], Tail(incoming))
          BY <1>5, <3>1 DEF UpdateValue
      <4>2. Wanted(layer) \in SUBSET Layers
          BY <3>1 DEF Wanted
      <4>3. AstOf[Wanted(layer)] \in Msg
          BY <4>2, MarantzAssumption
      <4> QED
          BY <4>1, <4>3, UnawaitedWellFormed, MaSendOnReaches
    <3>2. CASE layer \notin Layers \ auto_status_feedback_layer
        BY <1>5, <3>2 DEF UpdateValue
    <3> QED
        BY <3>1, <3>2
  <2> QED
      BY <2>1, <2>2, <2>3, <2>4, ReceiverKeeps
<1>6. CASE UpdateNull \/ MaExit
  <2>1. /\ daemon' = "exited" /\ incoming' = <<>> /\ UNCHANGED <<mask, inStep>>
        /\ auto_status_feedback_layer' = auto_status_feedback_layer
      BY <1>6 DEF UpdateNull, MaExit, Exit, Misses
  <2>2. <<>> \in Seq(Packets)
      OBVIOUS
  <2> QED
      BY <2>1, <2>2
<1>7. ASSUME NEW code \in Info, Report(code)
      PROVE  Believes'
  <2>1. /\ incoming' = Append(incoming, Value(code))
        /\ UNCHANGED <<mask, inStep, daemon, auto_status_feedback_layer>>
      BY <1>7 DEF Report, Misses, vars
  <2>2. incoming' \in Seq(Packets)
    <3>1. Value(code) \in Packets
        BY DEF Value, Packets
    <3> QED
        BY <2>1, <3>1
  <2>3. (daemon = "running" /\ inStep) => Agree(incoming', mask, auto_status_feedback_layer)
      BY <2>1, AgreeAppendValue
  <2> QED
      BY <2>1, <2>2, <2>3
<1>8. ASSUME NEW k \in DOMAIN incoming, LosePacket(k)
      PROVE  Believes'
  <2> DEFINE front == SubSeq(incoming, 1, k - 1)
             back  == SubSeq(incoming, k + 1, Len(incoming))
             new   == front \o back
  <2>1. /\ incoming' = new
        /\ inStep' = (inStep /\ ~IsAst(incoming[k]))
        /\ UNCHANGED <<mask, daemon, auto_status_feedback_layer>>
      BY <1>8 DEF LosePacket, vars
  <2>2. Len(incoming) \in Nat /\ k \in 1 .. Len(incoming) /\ k - 1 \in 0 .. Len(incoming)
      OBVIOUS
  <2>3. /\ front \in Seq(Packets) /\ Len(front) = k - 1
        /\ \A i \in 1 .. k - 1 : front[i] = incoming[i]
      BY <2>2, PrefixOf
  <2>4. /\ back \in Seq(Packets) /\ Len(back) = Len(incoming) - k
        /\ \A i \in 1 .. Len(incoming) - k : back[i] = incoming[k + i]
    <3>1. k \in 0 .. Len(incoming)
        BY <2>2
    <3> QED
        BY <3>1, SuffixOf
  <2> HIDE DEF front, back
  <2>5. /\ new \in Seq(Packets) /\ Len(new) = Len(incoming) - 1
        /\ \A i \in 1 .. Len(new) : new[i] = IF i <= k - 1 THEN front[i] ELSE back[i - (k - 1)]
    <3>1. /\ new \in Seq(Packets) /\ Len(new) = Len(front) + Len(back)
          /\ \A i \in 1 .. Len(new) :
                new[i] = IF i <= Len(front) THEN front[i] ELSE back[i - Len(front)]
        BY <2>3, <2>4, Joined
    <3> HIDE DEF new
    <3> QED
        BY <2>2, <2>3, <2>4, <3>1
  <2>6. \A i \in 1 .. Len(new) : new[i] = IF i < k THEN incoming[i] ELSE incoming[i + 1]
    <3> SUFFICES ASSUME NEW i \in 1 .. Len(new)
                 PROVE  new[i] = IF i < k THEN incoming[i] ELSE incoming[i + 1]
        OBVIOUS
    <3>1. CASE i < k
        BY <2>2, <2>3, <2>5, <3>1
    <3>2. CASE ~(i < k)
      <4>1. i - (k - 1) \in 1 .. Len(incoming) - k /\ k + (i - (k - 1)) = i + 1
          BY <2>2, <2>5, <3>2
      <4>2. back[i - (k - 1)] = incoming[k + (i - (k - 1))]
          BY <2>4, <4>1
      <4> QED
          BY SMTT(30), <2>2, <2>5, <3>2, <4>1, <4>2
    <3> QED
        BY <3>1, <3>2
  <2> HIDE DEF new
  <2>7. (daemon = "running" /\ inStep') => Agree(new, mask, auto_status_feedback_layer)
      BY <2>1, <2>5, <2>6, AgreeRemove
  <2> QED
      BY <2>1, <2>5, <2>7
<1>9. CASE MaEof \/ MaTick \/ UNCHANGED maVars
  <2>1. UNCHANGED <<daemon, auto_status_feedback_layer, mask, incoming, inStep>>
      BY <1>9 DEF MaEof, MaTick, Eof, Tick, maVars
  <2> QED
      BY <2>1
<1> QED
    BY <1>1, <1>2, <1>3, <1>4, <1>5, <1>6, <1>7, <1>8, <1>9 DEF MaNext

\* The invariant of the driver: that of the device, and the belief.
THEOREM MaInvHolds == MaSpec => []MaInv
<1>1. MaInit => MaInv
  <2> SUFFICES ASSUME MaInit
               PROVE  MaInv
      OBVIOUS
  <2>1. Inv
      BY InitInv DEF MaInit
  <2>2. Believes
      BY NothingIncoming DEF MaInit, Believes
  <2> QED
      BY <2>1, <2>2, MaInvIs
<1>2. MaInv /\ [MaNext]_maVars => MaInv'
  <2> SUFFICES ASSUME MaInv, [MaNext]_maVars
               PROVE  MaInv'
      OBVIOUS
  <2>1. Inv /\ Believes /\ MaTypeOK
      BY MaInvIs DEF MaInv
  <2>2. Inv' /\ Believes'
      BY <2>1, MaNextInv, BelievesNext
  <2> QED
      BY <2>2 DEF MaInv, MaTypeOK, Inv, Believes, Agree, LastAnswerTrue, BeliefFollowsReceiver
<1> QED
    BY <1>1, <1>2, PTL DEF MaSpec

\* When nothing is on its way and nothing was lost, the driver believes what the
\* receiver's digit says.
THEOREM BeliefAlwaysFollows == MaSpec => []BeliefFollowsReceiver
<1>1. MaInv => BeliefFollowsReceiver
    BY DEF MaInv
<1> QED
    BY <1>1, MaInvHolds, PTL

\* Layer 1 is read rightly from every digit, A to F included.
LEMMA FirstLayerRead ==
    ASSUME NEW m \in SUBSET Layers
    PROVE  1 \in Parsed(m) <=> 1 \in m
<1> DEFINE b1 == IF 1 \in m THEN 1 ELSE 0
           b2 == IF 2 \in m THEN 2 ELSE 0
           b3 == IF 3 \in m THEN 4 ELSE 0
           b4 == IF 4 \in m THEN 8 ELSE 0
           n  == b1 + b2 + b3 + b4
<1>1. Number(m) = n
    BY DEF Number, Bit
<1>2. Digit(n) \in 0 .. 9 /\ (Digit(n) % 2 = 1 <=> 1 \in m)
    BY DEF Digit
<1>3. (Digit(n) \div Bit[1]) % 2 = Digit(n) % 2
    BY <1>2 DEF Bit
<1> QED
    BY <1>1, <1>2, <1>3 DEF Parsed, Layers

\* So layer 1 is believed on exactly when it is.
THEOREM MainLayerAlwaysKnown == MaSpec => []MainLayerKnown
<1>1. MaInv => MainLayerKnown
  <2>1. ASSUME MaInv, daemon = "running", inStep, NoAst(incoming)
        PROVE  1 \in auto_status_feedback_layer <=> 1 \in mask
    <3>1. auto_status_feedback_layer = Parsed(mask) /\ mask \in SUBSET Layers
        BY <2>1 DEF MaInv, MaTypeOK, BeliefFollowsReceiver
    <3> QED
        BY <3>1, FirstLayerRead
  <2> QED
      BY <2>1 DEF MainLayerKnown
<1> QED
    BY <1>1, MaInvHolds, PTL

\* Every mask below 10 is read rightly.
LEMMA LowMaskRead ==
    ASSUME NEW m \in SUBSET Layers, Number(m) < 10
    PROVE  Parsed(m) = m
<1> SUFFICES ASSUME NEW b1, b1 = IF 1 \in m THEN 1 ELSE 0,
                    NEW b2, b2 = IF 2 \in m THEN 2 ELSE 0,
                    NEW b3, b3 = IF 3 \in m THEN 4 ELSE 0,
                    NEW b4, b4 = IF 4 \in m THEN 8 ELSE 0
             PROVE  Parsed(m) = m
    OBVIOUS
<1>1. /\ b1 \in {0, 1} /\ (b1 = 1 <=> 1 \in m)
      /\ b2 \in {0, 2} /\ (b2 = 2 <=> 2 \in m)
      /\ b3 \in {0, 4} /\ (b3 = 4 <=> 3 \in m)
      /\ b4 \in {0, 8} /\ (b4 = 8 <=> 4 \in m)
      /\ Number(m) = b1 + b2 + b3 + b4
    BY DEF Number, Bit
<1> DEFINE n == b1 + b2 + b3 + b4
<1>2. /\ n \in Nat /\ Digit(Number(m)) = n
    BY <1>1 DEF Digit
<1>3. /\ (n \div 1) % 2 = 1 <=> b1 = 1
      /\ (n \div 2) % 2 = 1 <=> b2 = 2
      /\ (n \div 4) % 2 = 1 <=> b3 = 4
      /\ (n \div 8) % 2 = 1 <=> b4 = 8
    BY ONLY <1>1
<1>4. /\ 1 \in Parsed(m) <=> 1 \in m
      /\ 2 \in Parsed(m) <=> 2 \in m
      /\ 3 \in Parsed(m) <=> 3 \in m
      /\ 4 \in Parsed(m) <=> 4 \in m
  <2>1. Bit[1] = 1 /\ Bit[2] = 2 /\ Bit[3] = 4 /\ Bit[4] = 8
      BY DEF Bit
  <2> HIDE DEF n
  <2>2. \A l \in Layers : l \in Parsed(m) <=> (n \div Bit[l]) % 2 = 1
      BY <1>2 DEF Parsed
  <2> QED
      BY <1>1, <1>3, <2>1, <2>2 DEF Layers
<1>5. \A l \in Layers : l \in Parsed(m) <=> l \in m
    BY <1>4 DEF Layers
<1> QED
    BY <1>5 DEF Parsed

\* send() of m finds m to write, if there is nothing before it.
LEMMA NewIsNext ==
    ASSUME NEW o \in OutputLists, WellFormed(o), o.send_iter = End,
           NEW a \in Addr \ Addrs(o), NEW m \in Msg,
           NEW p, p = Push(o, [addr |-> a, data |-> m])
    PROVE  NodeAt(p, p.send_iter).data = m
<1> DEFINE node == [addr |-> a, data |-> m]
<1>1. node \in Node /\ node.addr \notin Addrs(o) /\ node.data = m
    BY DEF Node
<1>2. SentLen(o) = Len(o.list) /\ o.list \in Seq(Node)
    BY SentLenType DEF OutputLists
<1> HIDE DEF node
<1>3. p \in OutputLists /\ WellFormed(p) /\ p.send_iter # End
      /\ p.list = Append(o.list, node) /\ SentLen(p) = Len(o.list)
    BY <1>1, <1>2, PushAppends DEF node
<1>4. NodeAt(p, p.send_iter) = p.list[Len(o.list) + 1]
    BY <1>3, SendIterAt
<1>5. Append(o.list, node)[Len(o.list) + 1] = node
    BY ONLY <1>1, <1>2
<1> QED
    BY <1>1, <1>3, <1>4, <1>5

\* What a receiver that takes m then has switched on.
LEMMA TakesIs ==
    ASSUME NEW m, NEW in, Takes(m, in)
    PROVE  /\ m \in Ask => mask' = mask
           /\ \A layers \in SUBSET Layers : m = AstOf[layers] => mask' = layers
BY MarantzAssumption DEF Takes

\* While no other request is under way, asking for one more layer, which update_status() does in
\* the middle of the read loop on a list that was just popped, switches none off.
THEOREM NoLayerEverDropped == MaSpec => NoLayerDropped
<1>1. ASSUME MaInv, [MaNext]_maVars, daemon = "running", ~loopexit, inStep, NoAst(incoming),
             NoAstUnsent, Number(mask) < 10
      PROVE  mask \subseteq mask'
  <2>1. /\ Inv /\ mask \in SUBSET Layers /\ auto_status_feedback_layer = mask
    <3>1. Inv /\ mask \in SUBSET Layers /\ auto_status_feedback_layer = Parsed(mask)
        BY <1>1 DEF MaInv, MaTypeOK, BeliefFollowsReceiver
    <3> QED
        BY <1>1, <3>1, LowMaskRead
  <2>2. /\ output \in OutputLists /\ WellFormed(output)
        /\ write_ev = NotPending => output.send_iter = End
        /\ Unawaited \in OutputLists /\ WellFormed(Unawaited) /\ Unawaited.send_iter = output.send_iter
      BY <2>1, UnawaitedWellFormed DEF Inv, TypeOK, IteratorsValid
  <2>3. ASSUME NEW m \in Ask, MaSend(m)
        PROVE  mask' = mask
    <3>1. PICK a \in Addr \ Addrs(output) : MaSendOn(output, a, m, incoming)
        BY <2>3 DEF MaSend
    <3>2. CASE Misses(incoming)
        BY <3>2 DEF Misses
    <3>3. CASE ~Misses(incoming)
      <4> SUFFICES ASSUME NEW p, p = Push(output, [addr |-> a, data |-> m])
                   PROVE  mask' = mask
          OBVIOUS
      <4>1. write_ev = NotPending /\ Takes(NodeAt(p, p.send_iter).data, incoming)
          BY <3>1, <3>3 DEF MaSendOn
      <4>2. m \in Msg
          BY MarantzAssumption
      <4>3. NodeAt(p, p.send_iter).data = m
          BY <2>2, <4>1, <4>2, NewIsNext
      <4> QED
          BY <4>1, <4>3, TakesIs
    <3> QED
        BY <3>2, <3>3
  <2>4. CASE MaWriteTimeout
    <3>1. CASE Misses(incoming)
        BY <3>1 DEF Misses
    <3>2. CASE ~Misses(incoming)
      <4>1. output.send_iter # End /\ Takes(NodeAt(output, output.send_iter).data, incoming)
          BY <2>4, <3>2 DEF MaWriteTimeout, Transmit
      <4>2. UnsentNodes(output) # <<>> /\ Head(UnsentNodes(output)) = NodeAt(output, output.send_iter)
          BY <2>2, <4>1, ToSendNodes
      <4>3. UnsentNodes(output) \in Seq(Node)
          BY <2>2, NodesOf
      <4>4. 1 \in DOMAIN UnsentNodes(output) /\ UnsentNodes(output)[1] = NodeAt(output, output.send_iter)
          BY ONLY <4>2, <4>3
      <4>5. NodeAt(output, output.send_iter).data \in Ask
          BY <1>1, <4>4 DEF NoAstUnsent
      <4> QED
          BY <4>1, <4>5, TakesIs
    <3> QED
        BY <3>1, <3>2
  <2>5. CASE UpdateValue
    <3>1. CASE Misses(Tail(incoming))
        BY <3>1 DEF Misses
    <3>2. CASE ~Misses(Tail(incoming))
      <4> DEFINE layer == LayerOf[Head(incoming).code]
      <4>1. layer \in Layers /\ \E a \in Addr \ Addrs(Unawaited) :
               MaSendOn(Unawaited, a, AstOf[Wanted(layer)], Tail(incoming))
          BY <2>5, <3>2 DEF UpdateValue
      <4>2. PICK a \in Addr \ Addrs(Unawaited) : MaSendOn(Unawaited, a, AstOf[Wanted(layer)], Tail(incoming))
          BY <4>1
      <4>3. Wanted(layer) \in SUBSET Layers /\ mask \subseteq Wanted(layer)
          BY <2>1, <4>1 DEF Wanted
      <4>4. AstOf[Wanted(layer)] \in Msg
          BY <4>3, MarantzAssumption
      <4> HIDE DEF layer
      <4> SUFFICES ASSUME NEW p, p = Push(Unawaited, [addr |-> a, data |-> AstOf[Wanted(layer)]])
                   PROVE  mask \subseteq mask'
          OBVIOUS
      <4>5. write_ev = NotPending /\ Takes(NodeAt(p, p.send_iter).data, Tail(incoming))
          BY <3>2, <4>2 DEF MaSendOn
      <4>6. NodeAt(p, p.send_iter).data = AstOf[Wanted(layer)]
          BY <2>2, <4>4, <4>5, NewIsNext
      <4>7. mask' = Wanted(layer)
          BY <4>3, <4>5, <4>6, TakesIs
      <4> QED
          BY <4>3, <4>7
    <3> QED
        BY <3>1, <3>2
  <2>6. CASE UpdateFeedback \/ UpdateNull \/ MaEof \/ MaTick \/ MaExit \/ UNCHANGED maVars
             \/ (\E code \in Info : Report(code)) \/ (\E i \in DOMAIN incoming : LosePacket(i))
      BY <2>6 DEF UpdateFeedback, UpdateNull, MaEof, MaTick, MaExit, Report, LosePacket, Misses, maVars
  <2>7. ~MaOpen
      BY <1>1 DEF MaOpen
  <2> QED
      BY <1>1, <2>3, <2>4, <2>5, <2>6, <2>7 DEF MaNext
<1> QED
    BY <1>1, MaInvHolds, PTL DEF MaSpec, NoLayerDropped
=============================================================================
