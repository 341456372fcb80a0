-------------------------- MODULE BackendDeviceProofs --------------------------
(***************************************************************************)
(* The safety properties of BackendDevice, for every set of addresses and  *)
(* messages, every throttle and every length of the list.                  *)
(*                                                                         *)
(* The invariant Inv is inductive.  What its conjuncts need of the list is *)
(* stated of output_list first, and the rest never looks inside its        *)
(* operators; the timer conjunct is what makes send()'s test of write_ev   *)
(* the right one: no timer means nothing unwritten.                        *)
(***************************************************************************)
EXTENDS BackendDevice, SequenceTheorems, TLAPS

-----------------------------------------------------------------------------
(* What the operations of output_list do to the queue it stands for, for   *)
(* every list whose iterators are valid.                                   *)

\* An address names at most one node, so an iterator's position is known once
\* some node carries its address.
LEMMA PositionOf ==
    ASSUME NEW o \in OutputLists, Distinct(o),
           NEW i \in DOMAIN o.list
    PROVE  Position(o, o.list[i].addr) = i
BY DEF Distinct, Position

\* Every node of a list has an address, and neither end() nor before_begin() is one.
LEMMA NodeAddr ==
    ASSUME NEW o \in OutputLists, NEW i \in 1 .. Len(o.list)
    PROVE  /\ o.list[i].addr \in Addr
           /\ o.list[i].addr # End
           /\ o.list[i].addr # BeforeBegin
<1>1. o.list \in Seq(Node)
    BY DEF OutputLists
<1>2. o.list[i] \in Node
    BY <1>1, ElementOfSeq
<1> QED
    BY <1>2, IteratorAssumption DEF Node

\* A valid send_iter that is not end() stands at some node of the list.
LEMMA SendPosition ==
    ASSUME NEW o \in OutputLists, WellFormed(o), o.send_iter # End
    PROVE  /\ Position(o, o.send_iter) \in 1 .. Len(o.list)
           /\ o.list[Position(o, o.send_iter)].addr = o.send_iter
<1>1. o.list \in Seq(Node)
    BY DEF OutputLists
<1>2. PICK i \in DOMAIN o.list : o.list[i].addr = o.send_iter
    BY DEF WellFormed, SendInList, Addrs
<1>3. DOMAIN o.list = 1 .. Len(o.list)
    BY <1>1
<1> QED
    BY <1>2, <1>3, PositionOf DEF WellFormed

\* The number of written nodes is a length of a prefix of the list, and it is the
\* whole list exactly when send_iter is end().
LEMMA SentLenType ==
    ASSUME NEW o \in OutputLists, WellFormed(o)
    PROVE  /\ SentLen(o) \in 0 .. Len(o.list)
           /\ SentLen(o) = Len(o.list) <=> o.send_iter = End
<1>1. Len(o.list) \in Nat
    BY DEF OutputLists
<1> QED
    BY <1>1, SendPosition DEF SentLen

\* The written part is as long as SentLen says.
LEMMA SentLength ==
    ASSUME NEW o \in OutputLists, WellFormed(o)
    PROVE  Len(SentNodes(o)) = SentLen(o)
BY SentLenType DEF SentNodes, OutputLists

\* send_iter stands right behind the written part.
LEMMA SendIterAt ==
    ASSUME NEW o \in OutputLists, WellFormed(o), o.send_iter # End
    PROVE  /\ SentLen(o) + 1 \in 1 .. Len(o.list)
           /\ o.list[SentLen(o) + 1].addr = o.send_iter
           /\ NodeAt(o, o.send_iter) = o.list[SentLen(o) + 1]
BY SendPosition DEF SentLen, NodeAt, OutputLists

-----------------------------------------------------------------------------
\* push() appends: the node lands behind every other one, what was written stays
\* so, and the iterators stay valid, whatever address the node was given.
LEMMA PushAppends ==
    ASSUME NEW o \in OutputLists, WellFormed(o),
           NEW node \in Node, node.addr \notin Addrs(o)
    PROVE  /\ Push(o, node) \in OutputLists
           /\ WellFormed(Push(o, node))
           /\ Push(o, node).list = Append(o.list, node)
           /\ SentLen(Push(o, node)) = SentLen(o)
           /\ Push(o, node).send_iter # End
<1> DEFINE p == Push(o, node)
<1>1. o.list \in Seq(Node) /\ node.addr \in Addr
    BY DEF OutputLists, Node
<1>2. InsertAfter(o, o.insert_iter, node) = Append(o.list, node)
  <2>1. CASE o.list = <<>>
      BY <1>1, <2>1 DEF InsertAfter, WellFormed, InsertAtLast
  <2>2. CASE o.list # <<>>
    <3>1. Len(o.list) \in DOMAIN o.list
        BY <1>1, <2>2
    <3>2. o.insert_iter = o.list[Len(o.list)].addr
        BY <2>2 DEF WellFormed, InsertAtLast
    <3>3. Position(o, o.insert_iter) = Len(o.list)
        BY <3>1, <3>2, PositionOf DEF WellFormed
    <3>4. o.insert_iter # BeforeBegin
        BY <1>1, <3>1, <3>2, NodeAddr
    <3>5. SubSeq(o.list, 1, Len(o.list)) = o.list
        BY <1>1, SubSeqFull
    <3>6. SubSeq(o.list, Len(o.list) + 1, Len(o.list)) = <<>>
        BY <1>1, SubSeqEmpty
    <3>7. InsertAfter(o, o.insert_iter, node) = o.list \o <<node>> \o <<>>
        BY <3>3, <3>4, <3>5, <3>6 DEF InsertAfter
    <3> QED
        BY <1>1, <3>7
  <2> QED
      BY <2>1, <2>2
<1>3. p.list = Append(o.list, node)
    BY <1>2 DEF Push
<1>4. /\ p.insert_iter = node.addr
      /\ p.send_iter = IF o.send_iter = End THEN node.addr ELSE o.send_iter
    BY DEF Push
<1>5. p.list \in Seq(Node) /\ Len(p.list) = Len(o.list) + 1
    BY <1>1, <1>3
<1>6. p.list[Len(p.list)] = node /\ \A i \in 1 .. Len(o.list) : p.list[i] = o.list[i]
    BY <1>1, <1>3
<1>7. p \in OutputLists
    BY <1>1, <1>4, <1>5 DEF OutputLists, Push
<1>8. Distinct(p)
  <2>1. SUFFICES ASSUME NEW i \in DOMAIN p.list, NEW j \in DOMAIN p.list,
                        p.list[i].addr = p.list[j].addr
                 PROVE  i = j
      BY DEF Distinct
  <2>2. DOMAIN p.list = 1 .. Len(o.list) + 1 /\ DOMAIN o.list = 1 .. Len(o.list)
      BY <1>1, <1>5
  <2>3. \A k \in 1 .. Len(o.list) : p.list[k].addr # node.addr
      BY <1>6, <2>2 DEF Addrs
  <2>4. \A k \in DOMAIN p.list : k \in 1 .. Len(o.list) \/ k = Len(p.list)
      BY <1>1, <1>5, <2>2
  <2>5. \A k, l \in 1 .. Len(o.list) : p.list[k].addr = p.list[l].addr => k = l
      BY <1>6, <2>2 DEF WellFormed, Distinct
  <2> QED
      BY <1>6, <2>1, <2>3, <2>4, <2>5
<1>9. InsertAtLast(p)
    BY <1>4, <1>5, <1>6 DEF InsertAtLast
<1>10. SendInList(p)
  <2>1. DOMAIN p.list = 1 .. Len(p.list) /\ DOMAIN o.list = 1 .. Len(o.list)
      BY <1>1, <1>5
  <2>2. node.addr \in Addrs(p)
      BY <1>1, <1>5, <1>6, <2>1 DEF Addrs
  <2>3. Addrs(o) \subseteq Addrs(p)
      BY <1>1, <1>5, <1>6, <2>1 DEF Addrs
  <2> QED
      BY <1>4, <2>2, <2>3 DEF SendInList, WellFormed
<1>11. WellFormed(p) /\ p.send_iter # End
    BY <1>1, <1>4, <1>8, <1>9, <1>10, IteratorAssumption DEF WellFormed
<1>12. SentLen(p) = SentLen(o)
  <2>1. CASE o.send_iter = End
    <3>1. Position(p, node.addr) = Len(p.list)
        BY <1>5, <1>6, <1>7, <1>8, PositionOf
    <3> QED
        BY <1>1, <1>4, <1>5, <1>11, <2>1, <3>1 DEF SentLen
  <2>2. CASE o.send_iter # End
    <3>1. Position(o, o.send_iter) \in 1 .. Len(o.list)
          /\ o.list[Position(o, o.send_iter)].addr = o.send_iter
        BY <2>2, SendPosition
    <3>2. Position(p, o.send_iter) = Position(o, o.send_iter)
        BY <1>1, <1>5, <1>6, <1>7, <1>8, <3>1, PositionOf
    <3> QED
        BY <1>4, <2>2, <3>2 DEF SentLen
  <2> QED
      BY <2>1, <2>2
<1> QED
    BY <1>3, <1>7, <1>11, <1>12

\* to_send() moves exactly one node, the oldest unwritten one, to the written part.
LEMMA ToSendAdvances ==
    ASSUME NEW o \in OutputLists, WellFormed(o), o.send_iter # End
    PROVE  /\ ToSend(o) \in OutputLists
           /\ WellFormed(ToSend(o))
           /\ ToSend(o).list = o.list
           /\ SentLen(ToSend(o)) = SentLen(o) + 1
<1> DEFINE t == ToSend(o)
           k == Position(o, o.send_iter)
<1>1. o.list \in Seq(Node)
    BY DEF OutputLists
<1>2. k \in 1 .. Len(o.list)
    BY SendPosition
<1>3. /\ t.list = o.list
      /\ t.insert_iter = o.insert_iter
      /\ t.send_iter = IF k = Len(o.list) THEN End ELSE o.list[k + 1].addr
    BY DEF ToSend, NextOf, OutputLists
<1>4. k # Len(o.list) => k + 1 \in 1 .. Len(o.list) /\ o.list[k + 1].addr \in Addr
    BY <1>1, <1>2, NodeAddr
<1>5. t \in OutputLists
    BY <1>3, <1>4 DEF ToSend, OutputLists, NextOf
<1>6. WellFormed(t)
  <2>1. Distinct(t) /\ InsertAtLast(t)
      BY <1>3 DEF WellFormed, Distinct, InsertAtLast
  <2>2. SendInList(t)
      BY <1>1, <1>2, <1>3, <1>4 DEF SendInList, Addrs
  <2> QED
      BY <2>1, <2>2 DEF WellFormed
<1>7. SentLen(t) = SentLen(o) + 1
  <2>1. CASE k = Len(o.list)
      BY <1>2, <1>3, <2>1 DEF SentLen
  <2>2. CASE k # Len(o.list)
    <3>1. Position(t, o.list[k + 1].addr) = k + 1
        BY <1>1, <1>3, <1>4, <1>5, <1>6, <2>2, PositionOf DEF WellFormed
    <3>2. o.list[k + 1].addr # End
        BY <1>4, <2>2, IteratorAssumption
    <3> QED
        BY <1>2, <1>3, <2>2, <3>1, <3>2 DEF SentLen
  <2> QED
      BY <2>1, <2>2
<1> QED
    BY <1>3, <1>5, <1>6, <1>7

-----------------------------------------------------------------------------
\* PopN is what n calls of pop() do, one after the other.
LEMMA PopNIsRepeatedPop ==
    ASSUME NEW o \in OutputLists
    PROVE  /\ PopN(o, 0) = o
           /\ \A n \in 0 .. Len(o.list) - 1 : PopN(o, n + 1) = Pop(PopN(o, n))
<1>1. o.list \in Seq(Node) /\ Len(o.list) \in Nat
    BY DEF OutputLists
<1>2. PopN(o, 0) = o
  <2>1. SubSeq(o.list, 0 + 1, Len(o.list)) = o.list
      BY <1>1, SubSeqFull
  <2>2. ~ \E i \in 1 .. 0 : o.insert_iter = o.list[i].addr
      OBVIOUS
  <2> QED
      BY <2>1, <2>2 DEF PopN, OutputLists
<1>3. ASSUME NEW n \in 0 .. Len(o.list) - 1
      PROVE  PopN(o, n + 1) = Pop(PopN(o, n))
  <2> DEFINE p == PopN(o, n)
  <2>1. n + 1 \in 1 .. Len(o.list) /\ n + 1 \in Nat
      BY <1>1
  <2>2. p.list = SubSeq(o.list, n + 1, Len(o.list))
      BY DEF PopN
  <2>3. p.list # <<>> /\ p.list[1] = o.list[n + 1]
    <3>1. Len(p.list) = Len(o.list) - n /\ Len(p.list) > 0
        BY <1>1, <2>1, <2>2
    <3>2. p.list[1] = o.list[n + 1]
        BY <1>1, <2>1, <2>2
    <3> QED
        BY <3>1, <3>2
  <2>4. Tail(p.list) = SubSeq(o.list, (n + 1) + 1, Len(o.list))
      BY <1>1, <2>1, <2>2, HeadTailOfSubSeq
  <2>5. BeginOf(p) = o.list[n + 1].addr
      BY <2>3 DEF BeginOf
  <2>6. o.list[n + 1].addr # BeforeBegin
      BY <2>1, NodeAddr
  <2>7. (\E i \in 1 .. n + 1 : o.insert_iter = o.list[i].addr)
           <=> \/ \E i \in 1 .. n : o.insert_iter = o.list[i].addr
               \/ o.insert_iter = o.list[n + 1].addr
      BY <2>1
  <2>8. (IF p.insert_iter = BeginOf(p) THEN BeforeBegin ELSE p.insert_iter)
           = IF \E i \in 1 .. n + 1 : o.insert_iter = o.list[i].addr
               THEN BeforeBegin ELSE o.insert_iter
    <3>1. p.insert_iter = IF \E i \in 1 .. n : o.insert_iter = o.list[i].addr
                            THEN BeforeBegin ELSE o.insert_iter
        BY DEF PopN
    <3>2. CASE \E i \in 1 .. n : o.insert_iter = o.list[i].addr
        BY <2>7, <3>1, <3>2
    <3>3. CASE ~ \E i \in 1 .. n : o.insert_iter = o.list[i].addr
        BY <2>5, <2>6, <2>7, <3>1, <3>3
    <3> QED
        BY <3>2, <3>3
  <2> QED
      BY <2>4, <2>8 DEF PopN, Pop
<1> QED
    BY <1>2, <1>3

\* Popping written nodes leaves the unwritten ones, and valid iterators.
LEMMA PopNRetires ==
    ASSUME NEW o \in OutputLists, WellFormed(o),
           NEW n \in 0 .. SentLen(o)
    PROVE  /\ PopN(o, n) \in OutputLists
           /\ WellFormed(PopN(o, n))
           /\ PopN(o, n).list = SubSeq(o.list, n + 1, Len(o.list))
           /\ SentLen(PopN(o, n)) = SentLen(o) - n
<1> DEFINE p == PopN(o, n)
<1>1. o.list \in Seq(Node) /\ Len(o.list) \in Nat /\ DOMAIN o.list = 1 .. Len(o.list)
    BY DEF OutputLists
<1>2. SentLen(o) \in 0 .. Len(o.list) /\ n \in 0 .. Len(o.list)
    BY <1>1, SentLenType
<1>3. /\ p.list = SubSeq(o.list, n + 1, Len(o.list))
      /\ p.send_iter = o.send_iter
      /\ p.insert_iter = IF \E i \in 1 .. n : o.insert_iter = o.list[i].addr
                           THEN BeforeBegin ELSE o.insert_iter
    BY DEF PopN
<1>4. /\ p.list \in Seq(Node)
      /\ Len(p.list) = Len(o.list) - n
      /\ DOMAIN p.list = 1 .. Len(o.list) - n
      /\ \A i \in 1 .. Len(o.list) - n : p.list[i] = o.list[i + n]
    BY <1>1, <1>2, <1>3
<1>5. Distinct(p)
  <2>1. SUFFICES ASSUME NEW i \in 1 .. Len(o.list) - n, NEW j \in 1 .. Len(o.list) - n,
                        p.list[i].addr = p.list[j].addr
                 PROVE  i = j
      BY <1>4 DEF Distinct
  <2>2. p.list[i] = o.list[i + n] /\ p.list[j] = o.list[j + n]
      BY <1>4
  <2>3. i + n \in DOMAIN o.list /\ j + n \in DOMAIN o.list
      BY <1>1, <1>2
  <2>4. i + n = j + n
      BY <2>1, <2>2, <2>3 DEF WellFormed, Distinct
  <2> QED
      BY <1>2, <2>4
<1>6. InsertAtLast(p)
  <2>1. CASE o.list = <<>>
    <3>1. Len(o.list) = 0 /\ n = 0 /\ o.insert_iter = BeforeBegin
        BY <1>2, <2>1 DEF WellFormed, InsertAtLast
    <3> QED
        BY <1>3, <1>4, <3>1 DEF InsertAtLast
  <2>2. CASE o.list # <<>>
    <3>1. o.insert_iter = o.list[Len(o.list)].addr /\ Len(o.list) \in 1 .. Len(o.list)
        BY <1>1, <2>2 DEF WellFormed, InsertAtLast
    <3>2. (\E i \in 1 .. n : o.insert_iter = o.list[i].addr) <=> n = Len(o.list)
        BY <1>1, <1>2, <3>1 DEF WellFormed, Distinct
    <3>3. CASE n = Len(o.list)
        BY <1>3, <1>4, <3>2, <3>3 DEF InsertAtLast
    <3>4. CASE n # Len(o.list)
      <4>1. p.insert_iter = o.list[Len(o.list)].addr
          BY <1>3, <3>1, <3>2, <3>4
      <4>2. Len(p.list) \in 1 .. Len(o.list) - n /\ Len(p.list) + n = Len(o.list)
          BY <1>1, <1>2, <1>4, <3>4
      <4>3. p.list[Len(p.list)] = o.list[Len(o.list)]
          BY <1>4, <4>2
      <4>4. p.list # <<>>
          BY <4>2
      <4> QED
          BY <4>1, <4>3, <4>4 DEF InsertAtLast
    <3> QED
        BY <3>3, <3>4
  <2> QED
      BY <2>1, <2>2
<1>7. o.send_iter # End =>
          /\ Position(o, o.send_iter) \in n + 1 .. Len(o.list)
          /\ o.list[Position(o, o.send_iter)].addr = o.send_iter
          /\ p.list[Position(o, o.send_iter) - n].addr = o.send_iter
  <2> DEFINE k == Position(o, o.send_iter)
  <2>1. SUFFICES ASSUME o.send_iter # End
                 PROVE  /\ k \in n + 1 .. Len(o.list)
                        /\ o.list[k].addr = o.send_iter
                        /\ p.list[k - n].addr = o.send_iter
      OBVIOUS
  <2>2. k \in 1 .. Len(o.list) /\ o.list[k].addr = o.send_iter
      BY <2>1, SendPosition
  <2>3. SentLen(o) = k - 1
      BY <2>1 DEF SentLen
  <2>4. k \in n + 1 .. Len(o.list)
      BY <1>1, <1>2, <2>2, <2>3
  <2>5. p.list[k - n] = o.list[k]
      BY SMTT(30), <1>1, <1>2, <1>4, <2>4
  <2> QED
      BY <2>2, <2>4, <2>5
<1>8. SendInList(p)
  <2>1. CASE o.send_iter = End
      BY <1>3, <2>1 DEF SendInList
  <2>2. CASE o.send_iter # End
    <3>1. Position(o, o.send_iter) - n \in DOMAIN p.list
        BY <1>1, <1>2, <1>4, <1>7, <2>2
    <3> QED
        BY <1>3, <1>7, <2>2, <3>1 DEF SendInList, Addrs
  <2> QED
      BY <2>1, <2>2
<1>9. p \in OutputLists
    BY <1>3, <1>4 DEF PopN, OutputLists
<1>10. SentLen(p) = SentLen(o) - n
  <2>1. CASE o.send_iter = End
      BY <1>2, <1>3, <1>4, <2>1 DEF SentLen
  <2>2. CASE o.send_iter # End
    <3>1. Position(p, o.send_iter) = Position(o, o.send_iter) - n
      <4>1. Position(o, o.send_iter) - n \in DOMAIN p.list
          BY <1>2, <1>4, <1>7, <2>2
      <4> QED
          BY <1>5, <1>7, <1>9, <2>2, <4>1, PositionOf
    <3> QED
        BY <1>2, <1>3, <1>7, <2>2, <3>1 DEF SentLen
  <2> QED
      BY <2>1, <2>2
<1> QED
    BY <1>3, <1>5, <1>6, <1>8, <1>9, <1>10 DEF WellFormed

\* A fresh list is well formed and empty.
LEMMA EmptyOutputWellFormed ==
    /\ EmptyOutput \in OutputLists
    /\ WellFormed(EmptyOutput)
    /\ SentLen(EmptyOutput) = 0
BY DEF EmptyOutput, OutputLists, WellFormed, Distinct, InsertAtLast, SendInList, SentLen

-----------------------------------------------------------------------------
(* The same facts about the two sequences the list stands for. *)

\* A prefix and a suffix of a sequence, element by element.
LEMMA PrefixOf ==
    ASSUME NEW S, NEW s \in Seq(S), NEW n \in 0 .. Len(s)
    PROVE  /\ SubSeq(s, 1, n) \in Seq(S)
           /\ Len(SubSeq(s, 1, n)) = n
           /\ \A i \in 1 .. n : SubSeq(s, 1, n)[i] = s[i]
OBVIOUS

\* The elements of a suffix.
LEMMA SuffixOf ==
    ASSUME NEW S, NEW s \in Seq(S), NEW n \in 0 .. Len(s)
    PROVE  /\ SubSeq(s, n + 1, Len(s)) \in Seq(S)
           /\ Len(SubSeq(s, n + 1, Len(s))) = Len(s) - n
           /\ \A i \in 1 .. Len(s) - n : SubSeq(s, n + 1, Len(s))[i] = s[n + i]
<1>1. Len(s) \in Nat /\ n \in Nat /\ n <= Len(s)
    OBVIOUS
<1>2. \A i \in n + 1 .. Len(s) : s[i] \in S
    BY <1>1
<1>3. /\ SubSeq(s, n + 1, Len(s)) \in Seq(S)
      /\ Len(SubSeq(s, n + 1, Len(s))) = IF n + 1 <= Len(s) THEN Len(s) - (n + 1) + 1 ELSE 0
      /\ \A i \in 1 .. Len(s) - (n + 1) + 1 : SubSeq(s, n + 1, Len(s))[i] = s[(n + 1) + i - 1]
    BY <1>1, <1>2, SubSeqProperties
<1> QED
    BY <1>1, <1>3

\* Where the written and the unwritten nodes stand in the list.
LEMMA NodesOf ==
    ASSUME NEW o \in OutputLists, WellFormed(o)
    PROVE  /\ SentNodes(o) \in Seq(Node)
           /\ UnsentNodes(o) \in Seq(Node)
           /\ Len(SentNodes(o)) = SentLen(o)
           /\ Len(UnsentNodes(o)) = Len(o.list) - SentLen(o)
           /\ \A i \in 1 .. SentLen(o) : SentNodes(o)[i] = o.list[i]
           /\ \A i \in 1 .. Len(o.list) - SentLen(o) :
                 UnsentNodes(o)[i] = o.list[SentLen(o) + i]
<1>1. o.list \in Seq(Node) /\ Len(o.list) \in Nat /\ SentLen(o) \in 0 .. Len(o.list)
    BY SentLenType DEF OutputLists
<1> QED
    BY <1>1, PrefixOf, SuffixOf DEF SentNodes, UnsentNodes

\* push() leaves the written nodes and appends to the unwritten ones.
LEMMA PushNodes ==
    ASSUME NEW o \in OutputLists, WellFormed(o),
           NEW node \in Node, node.addr \notin Addrs(o)
    PROVE  /\ SentNodes(Push(o, node)) = SentNodes(o)
           /\ UnsentNodes(Push(o, node)) = Append(UnsentNodes(o), node)
<1> DEFINE p == Push(o, node)
           k == SentLen(o)
<1>1. /\ p \in OutputLists /\ WellFormed(p)
      /\ p.list = Append(o.list, node) /\ SentLen(p) = k
    BY PushAppends
<1>2. o.list \in Seq(Node) /\ Len(o.list) \in Nat /\ k \in 0 .. Len(o.list)
    BY SentLenType DEF OutputLists
<1>3. /\ Len(p.list) = Len(o.list) + 1
      /\ p.list[Len(o.list) + 1] = node
      /\ \A i \in 1 .. Len(o.list) : p.list[i] = o.list[i]
    BY <1>1, <1>2
<1>4. SentNodes(p) = SentNodes(o)
  <2>1. /\ SentNodes(o) \in Seq(Node) /\ Len(SentNodes(o)) = k
        /\ \A i \in 1 .. k : SentNodes(o)[i] = o.list[i]
      BY NodesOf
  <2>2. /\ SentNodes(p) \in Seq(Node) /\ Len(SentNodes(p)) = k
        /\ \A i \in 1 .. k : SentNodes(p)[i] = p.list[i]
      BY <1>1, NodesOf
  <2>3. \A i \in 1 .. k : i \in 1 .. Len(o.list)
      BY <1>2
  <2>4. \A i \in 1 .. k : SentNodes(p)[i] = SentNodes(o)[i]
      BY <1>3, <2>1, <2>2, <2>3
  <2> QED
      BY <2>1, <2>2, <2>4, SeqEqual
<1>5. UnsentNodes(p) = Append(UnsentNodes(o), node)
  <2> DEFINE u == UnsentNodes(o)
  <2>1. /\ u \in Seq(Node) /\ Len(u) = Len(o.list) - k
        /\ \A i \in 1 .. Len(o.list) - k : u[i] = o.list[k + i]
      BY NodesOf
  <2>2. /\ Append(u, node) \in Seq(Node) /\ Len(Append(u, node)) = Len(u) + 1
        /\ Append(u, node)[Len(u) + 1] = node
        /\ \A i \in 1 .. Len(u) : Append(u, node)[i] = u[i]
      BY <2>1
  <2>3. /\ UnsentNodes(p) \in Seq(Node) /\ Len(UnsentNodes(p)) = Len(u) + 1
        /\ \A i \in 1 .. Len(u) + 1 : UnsentNodes(p)[i] = p.list[k + i]
    <3>1. /\ UnsentNodes(p) \in Seq(Node)
          /\ Len(UnsentNodes(p)) = Len(p.list) - k
          /\ \A i \in 1 .. Len(p.list) - k : UnsentNodes(p)[i] = p.list[k + i]
        BY <1>1, NodesOf
    <3>2. Len(p.list) - k = Len(u) + 1
        BY <1>2, <1>3, <2>1
    <3> QED
        BY <3>1, <3>2
  <2>4. ASSUME NEW i \in 1 .. Len(u) + 1
        PROVE  UnsentNodes(p)[i] = Append(u, node)[i]
    <3>1. CASE i = Len(u) + 1
        BY SMTT(30), <1>2, <1>3, <2>1, <2>2, <2>3, <3>1
    <3>2. CASE i # Len(u) + 1
      <4>1. i \in 1 .. Len(u) /\ k + i \in 1 .. Len(o.list)
          BY SMTT(30), <1>2, <2>1, <3>2
      <4> QED
          BY <1>3, <2>1, <2>2, <2>3, <4>1
    <3> QED
        BY <3>1, <3>2
  <2> QED
      BY <2>2, <2>3, <2>4, SeqEqual
<1> QED
    BY <1>4, <1>5

\* to_send() moves the oldest unwritten node behind the written ones.
LEMMA ToSendNodes ==
    ASSUME NEW o \in OutputLists, WellFormed(o), o.send_iter # End
    PROVE  /\ UnsentNodes(o) # <<>>
           /\ SentNodes(ToSend(o)) = Append(SentNodes(o), Head(UnsentNodes(o)))
           /\ UnsentNodes(ToSend(o)) = Tail(UnsentNodes(o))
           /\ Head(UnsentNodes(o)) = NodeAt(o, o.send_iter)
<1> DEFINE t == ToSend(o)
           k == SentLen(o)
<1>1. /\ t \in OutputLists /\ WellFormed(t)
      /\ t.list = o.list /\ SentLen(t) = k + 1
    BY ToSendAdvances
<1>2. /\ o.list \in Seq(Node) /\ Len(o.list) \in Nat /\ k \in 0 .. Len(o.list)
      /\ k + 1 \in 1 .. Len(o.list)
      /\ NodeAt(o, o.send_iter) = o.list[k + 1]
      /\ k + 1 <= Len(o.list)
    BY SentLenType, SendIterAt DEF OutputLists
<1>3. UnsentNodes(t) = SubSeq(o.list, (k + 1) + 1, Len(o.list))
    BY <1>1 DEF UnsentNodes
<1>4. /\ Head(UnsentNodes(o)) = o.list[k + 1]
      /\ Tail(UnsentNodes(o)) = SubSeq(o.list, (k + 1) + 1, Len(o.list))
  <2>1. UnsentNodes(o) = SubSeq(o.list, k + 1, Len(o.list))
      BY DEF UnsentNodes
  <2>2. Len(o.list) \in k + 1 .. Len(o.list)
      BY <1>2
  <2> QED
      BY <1>2, <2>1, <2>2, HeadTailOfSubSeq
<1>5. SentNodes(t) = SubSeq(o.list, 1, k + 1)
    BY <1>1 DEF SentNodes
<1>6. SubSeq(o.list, 1, k + 1) = Append(SubSeq(o.list, 1, k), o.list[k + 1])
  <2>1. o.list[k + 1] \in Node
      BY <1>2, ElementOfSeq
  <2> QED
      BY <1>2, <2>1
<1>7. UnsentNodes(o) # <<>>
    BY <1>2, NodesOf
<1> QED
    BY <1>2, <1>3, <1>4, <1>5, <1>6, <1>7 DEF SentNodes

\* remove_output drops the oldest written nodes and no other.
LEMMA PopNNodes ==
    ASSUME NEW o \in OutputLists, WellFormed(o), NEW n \in 0 .. SentLen(o)
    PROVE  /\ SentNodes(PopN(o, n)) = SubSeq(SentNodes(o), n + 1, Len(SentNodes(o)))
           /\ UnsentNodes(PopN(o, n)) = UnsentNodes(o)
<1> DEFINE p == PopN(o, n)
           k == SentLen(o)
           s == SentNodes(o)
<1>1. /\ p \in OutputLists /\ WellFormed(p)
      /\ p.list = SubSeq(o.list, n + 1, Len(o.list)) /\ SentLen(p) = k - n
    BY PopNRetires
<1>2. o.list \in Seq(Node) /\ Len(o.list) \in Nat /\ k \in 0 .. Len(o.list) /\ n \in 0 .. k
    BY SentLenType DEF OutputLists
<1>3. /\ Len(p.list) = Len(o.list) - n
      /\ \A i \in 1 .. Len(o.list) - n : p.list[i] = o.list[i + n]
    BY <1>1, <1>2
<1>4. /\ s \in Seq(Node) /\ Len(s) = k /\ \A i \in 1 .. k : s[i] = o.list[i]
    BY NodesOf
<1>5. SentNodes(p) = SubSeq(s, n + 1, Len(s))
  <2>1. /\ SubSeq(s, n + 1, Len(s)) \in Seq(Node)
        /\ Len(SubSeq(s, n + 1, Len(s))) = k - n
        /\ \A i \in 1 .. k - n : SubSeq(s, n + 1, Len(s))[i] = s[n + i]
      BY <1>2, <1>4, SuffixOf
  <2>2. /\ SentNodes(p) \in Seq(Node) /\ Len(SentNodes(p)) = k - n
        /\ \A i \in 1 .. k - n : SentNodes(p)[i] = p.list[i]
      BY <1>1, NodesOf
  <2>3. \A i \in 1 .. k - n :
            i \in 1 .. Len(o.list) - n /\ n + i \in 1 .. k /\ i + n = n + i
      BY <1>2
  <2>4. \A i \in 1 .. k - n : SentNodes(p)[i] = SubSeq(s, n + 1, Len(s))[i]
      BY <1>3, <1>4, <2>1, <2>2, <2>3
  <2> QED
      BY <2>1, <2>2, <2>4, SeqEqual
<1>6. UnsentNodes(p) = UnsentNodes(o)
  <2>1. /\ UnsentNodes(o) \in Seq(Node) /\ Len(UnsentNodes(o)) = Len(o.list) - k
        /\ \A i \in 1 .. Len(o.list) - k : UnsentNodes(o)[i] = o.list[k + i]
      BY NodesOf
  <2>2. /\ UnsentNodes(p) \in Seq(Node) /\ Len(UnsentNodes(p)) = Len(p.list) - (k - n)
        /\ \A i \in 1 .. Len(p.list) - (k - n) : UnsentNodes(p)[i] = p.list[(k - n) + i]
      BY <1>1, NodesOf
  <2>3. Len(p.list) - (k - n) = Len(o.list) - k
      BY <1>2, <1>3
  <2>4. \A i \in 1 .. Len(o.list) - k :
            (k - n) + i \in 1 .. Len(o.list) - n /\ ((k - n) + i) + n = k + i
      BY <1>2
  <2>5. \A i \in 1 .. Len(o.list) - k : UnsentNodes(p)[i] = UnsentNodes(o)[i]
      BY <1>3, <2>1, <2>2, <2>3, <2>4
  <2> QED
      BY <2>1, <2>2, <2>3, <2>5, SeqEqual
<1> QED
    BY <1>5, <1>6

\* The data of the nodes follows the nodes through each of these operations.
LEMMA DataOfSeq ==
    ASSUME NEW s \in Seq(Node)
    PROVE  /\ DataOf(s) \in Seq(Msg)
           /\ Len(DataOf(s)) = Len(s)
           /\ \A i \in 1 .. Len(s) : DataOf(s)[i] = s[i].data
<1>1. Len(s) \in Nat /\ DOMAIN s = 1 .. Len(s)
    OBVIOUS
<1>2. \A i \in 1 .. Len(s) : s[i].data \in Msg
  <2>1. \A i \in 1 .. Len(s) : s[i] \in Node
      BY ElementOfSeq
  <2> QED
      BY <2>1 DEF Node
<1>3. DataOf(s) = [i \in 1 .. Len(s) |-> s[i].data]
    BY <1>1 DEF DataOf
<1> QED
    BY <1>1, <1>2, <1>3

\* The message of a node appended is the last one ...
LEMMA DataOfAppend ==
    ASSUME NEW s \in Seq(Node), NEW node \in Node
    PROVE  DataOf(Append(s, node)) = Append(DataOf(s), node.data)
<1>1. node.data \in Msg
    BY DEF Node
<1>2. /\ Append(s, node) \in Seq(Node) /\ Len(Append(s, node)) = Len(s) + 1
      /\ \A i \in 1 .. Len(s) + 1 :
            Append(s, node)[i] = IF i = Len(s) + 1 THEN node ELSE s[i]
    OBVIOUS
<1>3. /\ DataOf(s) \in Seq(Msg) /\ Len(DataOf(s)) = Len(s)
      /\ \A i \in 1 .. Len(s) : DataOf(s)[i] = s[i].data
    BY DataOfSeq
<1>4. /\ DataOf(Append(s, node)) \in Seq(Msg) /\ Len(DataOf(Append(s, node))) = Len(s) + 1
      /\ \A i \in 1 .. Len(s) + 1 : DataOf(Append(s, node))[i] = Append(s, node)[i].data
    BY <1>2, DataOfSeq
<1>5. /\ Append(DataOf(s), node.data) \in Seq(Msg)
      /\ Len(Append(DataOf(s), node.data)) = Len(s) + 1
      /\ \A i \in 1 .. Len(s) + 1 :
            Append(DataOf(s), node.data)[i] = IF i = Len(s) + 1 THEN node.data ELSE DataOf(s)[i]
    BY <1>1, <1>3
<1>6. ASSUME NEW i \in 1 .. Len(s) + 1
      PROVE  DataOf(Append(s, node))[i] = Append(DataOf(s), node.data)[i]
  <2>1. CASE i = Len(s) + 1
      BY <1>2, <1>4, <1>5, <2>1
  <2>2. CASE i # Len(s) + 1
    <3>1. i \in 1 .. Len(s)
        BY <2>2
    <3> QED
        BY <1>2, <1>3, <1>4, <1>5, <2>2, <3>1
  <2> QED
      BY <2>1, <2>2
<1> QED
    BY <1>4, <1>5, <1>6, SeqEqual

\* ... and those of a suffix of the list are a suffix of the messages.
LEMMA DataOfSubSeq ==
    ASSUME NEW s \in Seq(Node), NEW n \in 0 .. Len(s)
    PROVE  DataOf(SubSeq(s, n + 1, Len(s))) = SubSeq(DataOf(s), n + 1, Len(DataOf(s)))
<1> DEFINE r == SubSeq(s, n + 1, Len(s))
<1>1. Len(s) \in Nat /\ n \in Nat /\ n <= Len(s)
    OBVIOUS
<1>2. /\ r \in Seq(Node) /\ Len(r) = Len(s) - n
      /\ \A i \in 1 .. Len(s) - n : r[i] = s[i + n]
    BY <1>1
<1>3. /\ DataOf(s) \in Seq(Msg) /\ Len(DataOf(s)) = Len(s)
      /\ \A i \in 1 .. Len(s) : DataOf(s)[i] = s[i].data
    BY DataOfSeq
<1>4. /\ DataOf(r) \in Seq(Msg) /\ Len(DataOf(r)) = Len(s) - n
      /\ \A i \in 1 .. Len(s) - n : DataOf(r)[i] = r[i].data
    BY <1>2, DataOfSeq
<1>5. /\ SubSeq(DataOf(s), n + 1, Len(s)) \in Seq(Msg)
      /\ Len(SubSeq(DataOf(s), n + 1, Len(s))) = Len(s) - n
      /\ \A i \in 1 .. Len(s) - n : SubSeq(DataOf(s), n + 1, Len(s))[i] = DataOf(s)[i + n]
    BY <1>1, <1>3
<1>6. \A i \in 1 .. Len(s) - n : i + n \in 1 .. Len(s)
    BY <1>1
<1>7. \A i \in 1 .. Len(s) - n : DataOf(r)[i] = SubSeq(DataOf(s), n + 1, Len(s))[i]
    BY <1>2, <1>3, <1>4, <1>5, <1>6
<1> QED
    BY <1>3, <1>4, <1>5, <1>7, SeqEqual

-----------------------------------------------------------------------------
(* The device.                                                             *)

\* Whatever the message, the timer is armed for a natural number of ticks.
LEMMA DelayType ==
    ASSUME NEW m \in Msg
    PROVE  DelayAfter(m) \in Nat
BY ThrottleAssumption DEF DelayAfter

\* writecb() on a list with valid iterators: afterwards the iterators are valid,
\* and the timer is armed for as long as the device rests, unless there was
\* nothing to write.
LEMMA WriteCbKeeps ==
    ASSUME NEW o \in OutputLists, WellFormed(o), WriteCb(o)
    PROVE  /\ output' \in OutputLists
           /\ WellFormed(output')
           /\ o.send_iter = End =>
                 output' = o /\ write_ev' = NotPending /\ rest' = rest /\ wrote' = wrote
           /\ o.send_iter # End =>
                 /\ output' = ToSend(o)
                 /\ write_ev' \in Nat
                 /\ rest' = write_ev'
                 /\ wrote' = TRUE
<1>1. CASE o.send_iter = End
    BY <1>1 DEF WriteCb, ToSend
<1>2. CASE o.send_iter # End
  <2>1. output' = ToSend(o) /\ output' \in OutputLists /\ WellFormed(output')
      BY <1>2, ToSendAdvances DEF WriteCb
  <2>2. NodeAt(o, o.send_iter).data \in Msg
    <3>1. NodeAt(o, o.send_iter) = o.list[SentLen(o) + 1] /\ SentLen(o) + 1 \in 1 .. Len(o.list)
        BY <1>2, SendIterAt
    <3>2. o.list[SentLen(o) + 1] \in Node
        BY <3>1, ElementOfSeq DEF OutputLists
    <3> QED
        BY <3>1, <3>2 DEF Node
  <2>3. write_ev' \in Nat /\ rest' = write_ev' /\ wrote' = TRUE
      BY <1>2, <2>2, DelayType DEF WriteCb
  <2> QED
      BY <1>2, <2>1, <2>3
<1> QED
    BY <1>1, <1>2

-----------------------------------------------------------------------------
\* The daemon starts in the invariant.
LEMMA InitInv == Init => Inv
<1> SUFFICES ASSUME Init
             PROVE  Inv
    OBVIOUS
<1>1. output \in OutputLists /\ WellFormed(output) /\ output.send_iter = End
    BY EmptyOutputWellFormed DEF Init, EmptyOutput
<1> QED
    BY <1>1 DEF Init, Inv, TypeOK, IteratorsValid, TimerCoversRest, IdleOutsideSession,
       NotPending

\* send() keeps the invariant, from any list that satisfies it.
LEMMA SendInv ==
    ASSUME Inv, NEW m \in Msg, Send(m)
    PROVE  Inv'
<1>1. /\ daemon = "running" /\ daemon' = "running"
      /\ loopexit' \in BOOLEAN
      /\ output \in OutputLists /\ WellFormed(output)
      /\ write_ev \in Nat \union {NotPending} /\ rest \in Nat /\ wrote \in BOOLEAN
    BY DEF Inv, TypeOK, IteratorsValid, Send
<1>2. PICK a \in Addr \ Addrs(output) : SendOn(output, a, m)
    BY DEF Send
<1> DEFINE p == Push(output, [addr |-> a, data |-> m])
<1>3. p \in OutputLists /\ WellFormed(p) /\ p.send_iter # End
  <2>1. [addr |-> a, data |-> m] \in Node
      BY DEF Node
  <2> QED
      BY <1>1, <2>1, PushAppends
<1>4. CASE write_ev = NotPending
  <2>1. WriteCb(p)
      BY <1>2, <1>4 DEF SendOn
  <2>2. /\ output' \in OutputLists /\ WellFormed(output')
        /\ write_ev' \in Nat /\ rest' = write_ev' /\ wrote' = TRUE
      BY <1>3, <2>1, WriteCbKeeps
  <2> QED
      BY <1>1, <2>2
      DEF Inv, TypeOK, IteratorsValid, TimerCoversRest, IdleOutsideSession, NotPending
<1>5. CASE write_ev # NotPending
  <2>1. output' = p /\ write_ev' = write_ev /\ rest' = rest /\ wrote' = wrote
      BY <1>2, <1>5 DEF SendOn
  <2> QED
      BY <1>1, <1>3, <1>5, <2>1
      DEF Inv, TypeOK, IteratorsValid, TimerCoversRest, IdleOutsideSession
<1> QED
    BY <1>4, <1>5

\* So does the timer: when it has nothing to write, nothing is unwritten and,
\* having been due, it leaves no rest behind.
LEMMA WriteTimeoutInv ==
    ASSUME Inv, WriteTimeout
    PROVE  Inv'
<1>1. /\ daemon = "running" /\ daemon' = "running" /\ loopexit' \in BOOLEAN
      /\ output \in OutputLists /\ WellFormed(output) /\ WriteCb(output)
      /\ write_ev = 0 /\ rest \in Nat /\ rest <= write_ev /\ wrote \in BOOLEAN
    BY DEF Inv, TypeOK, IteratorsValid, TimerCoversRest, WriteTimeout, NotPending
<1>2. CASE output.send_iter = End
  <2>1. output' = output /\ write_ev' = NotPending /\ rest' = rest /\ wrote' = wrote
      BY <1>1, <1>2, WriteCbKeeps
  <2>2. rest = 0
      BY <1>1
  <2> QED
      BY <1>1, <1>2, <2>1, <2>2
      DEF Inv, TypeOK, IteratorsValid, TimerCoversRest, IdleOutsideSession
<1>3. CASE output.send_iter # End
  <2>1. /\ output' \in OutputLists /\ WellFormed(output')
        /\ write_ev' \in Nat /\ rest' = write_ev' /\ wrote' = TRUE
      BY <1>1, <1>3, WriteCbKeeps
  <2> QED
      BY <1>1, <2>1
      DEF Inv, TypeOK, IteratorsValid, TimerCoversRest, IdleOutsideSession, NotPending
<1> QED
    BY <1>2, <1>3

\* And every other step.
LEMMA NextInv == Inv /\ [Next]_vars => Inv'
<1> SUFFICES ASSUME Inv, [Next]_vars
             PROVE  Inv'
    OBVIOUS
<1>1. CASE Reopen
    BY <1>1, EmptyOutputWellFormed
    DEF Reopen, Closed, Inv, TypeOK, IteratorsValid, TimerCoversRest, IdleOutsideSession,
        NotPending, EmptyOutput
<1>2. ASSUME NEW m \in Msg, Send(m)
      PROVE  Inv'
    BY <1>2, SendInv
<1>3. CASE WriteTimeout
    BY <1>3, WriteTimeoutInv
<1>4. ASSUME NEW n \in 1 .. Len(output.list), Packet(n)
      PROVE  Inv'
  <2>1. /\ output' \in OutputLists
        /\ WellFormed(output')
        /\ output'.send_iter = output.send_iter
      BY <1>4, PopNRetires DEF Packet, Inv, TypeOK, IteratorsValid, PopN
  <2> QED
      BY <1>4, <2>1
      DEF Packet, Inv, TypeOK, IteratorsValid, TimerCoversRest, IdleOutsideSession
<1>5. CASE Eof
    BY <1>5 DEF Eof, Inv, TypeOK, IteratorsValid, TimerCoversRest, IdleOutsideSession
<1>6. CASE Exit
    BY <1>6, EmptyOutputWellFormed
    DEF Exit, Closed, Inv, TypeOK, IteratorsValid, TimerCoversRest, IdleOutsideSession,
        NotPending, EmptyOutput
<1>7. CASE Tick
  <2>1. /\ write_ev' \in Nat \union {NotPending}
        /\ rest' \in Nat
        /\ write_ev' = NotPending <=> write_ev = NotPending
        /\ write_ev' # NotPending => rest' <= write_ev'
        /\ rest = 0 => rest' = 0
      BY <1>7 DEF Tick, Inv, TypeOK, TimerCoversRest, NotPending
  <2> QED
      BY <1>7, <2>1
      DEF Tick, Inv, TypeOK, IteratorsValid, TimerCoversRest, IdleOutsideSession
<1>8. CASE UNCHANGED vars
    BY <1>8 DEF vars, Inv, TypeOK, IteratorsValid, TimerCoversRest, IdleOutsideSession
<1> QED
    BY <1>1, <1>2, <1>3, <1>4, <1>5, <1>6, <1>7, <1>8 DEF Next

\* The invariant holds throughout.
THEOREM InvHolds == Spec => []Inv
BY InitInv, NextInv, PTL DEF Spec

\* Every variable has its type in every reachable state.
THEOREM TypeCorrect == Spec => []TypeOK
<1>1. Inv => TypeOK
    BY DEF Inv
<1> QED
    BY <1>1, InvHolds, PTL

\* The iterators of output_list never dangle.
THEOREM IteratorsNeverDangle == Spec => []IteratorsValid
<1>1. Inv => IteratorsValid
    BY DEF Inv
<1> QED
    BY <1>1, InvHolds, PTL

\* A running device with something unwritten has its timer armed.
THEOREM NoMessageStranded == Spec => []NothingStranded
<1>1. Inv => NothingStranded
  <2>1. ASSUME Inv, UnsentNodes(output) # <<>>
        PROVE  output.send_iter # End
    <3>1. output \in OutputLists /\ WellFormed(output)
        BY <2>1 DEF Inv, TypeOK, IteratorsValid
    <3>2. CASE output.send_iter = End
      <4>1. SentLen(output) = Len(output.list) /\ Len(output.list) \in Nat
          BY <3>1, <3>2, SentLenType
      <4>2. UnsentNodes(output) = <<>>
          BY <4>1, SubSeqEmpty DEF UnsentNodes
      <4> QED
          BY <2>1, <4>2
    <3> QED
        BY <3>2
  <2> QED
      BY <2>1 DEF Inv, NothingStranded
<1> QED
    BY <1>1, InvHolds, PTL

-----------------------------------------------------------------------------
\* Only send() and the timer write, and both find the rest over.
LEMMA StepRespectsRest ==
    ASSUME Inv, [Next]_vars, wrote,
           Len(SentNodes(output')) > Len(SentNodes(output))
    PROVE  rest = 0
<1>1. /\ output \in OutputLists /\ WellFormed(output) /\ SentLen(output) \in 0 .. Len(output.list)
      /\ Len(SentNodes(output)) = SentLen(output)
  <2>1. output \in OutputLists /\ WellFormed(output)
      BY DEF Inv, TypeOK, IteratorsValid
  <2> QED
      BY <2>1, SentLenType, SentLength
<1>2. SentLen(output') > SentLen(output)
  <2>1. output' \in OutputLists /\ WellFormed(output')
      BY NextInv DEF Inv, TypeOK, IteratorsValid
  <2> QED
      BY <1>1, <2>1, SentLength
<1>3. output' # output
    BY <1>1, <1>2
<1>4. rest \in Nat /\ TimerCoversRest
    BY DEF Inv, TypeOK
<1>5. ~Reopen /\ ~Exit
    BY <1>1, <1>2, EmptyOutputWellFormed DEF Reopen, Exit, Closed
<1>6. ASSUME NEW m \in Msg, Send(m)
      PROVE  rest = 0
  <2>1. PICK a \in Addr \ Addrs(output) : SendOn(output, a, m)
      BY <1>6 DEF Send
  <2> DEFINE p == Push(output, [addr |-> a, data |-> m])
  <2>2. SentLen(p) = SentLen(output)
    <3>1. [addr |-> a, data |-> m] \in Node
        BY DEF Node
    <3> QED
        BY <1>1, <2>1, <3>1, PushAppends
  <2>3. output' # p
      BY <1>1, <1>2, <2>2
  <2>4. write_ev = NotPending
      BY <2>1, <2>3 DEF SendOn
  <2> QED
      BY <1>4, <2>4 DEF TimerCoversRest
<1>7. CASE WriteTimeout
    BY <1>4, <1>7 DEF WriteTimeout, TimerCoversRest, NotPending
<1>8. ASSUME NEW n \in 1 .. Len(output.list), Packet(n)
      PROVE  FALSE
  <2>1. SentLen(output') = SentLen(output) - n
      BY <1>1, <1>8, PopNRetires DEF Packet
  <2> QED
      BY <1>1, <1>2, <2>1
<1> QED
    BY <1>3, <1>5, <1>6, <1>7, <1>8 DEF Next, vars, Eof, Tick

\* No write of a session falls in the rest the write before it started.
THEOREM RestAlwaysRespected == Spec => RestRespected
<1>1. Inv /\ [Next]_vars =>
         [(wrote /\ Len(SentNodes(output')) > Len(SentNodes(output))) => rest = 0]_vars
    BY StepRespectsRest
<1> QED
    BY <1>1, InvHolds, PTL DEF Spec, RestRespected

-----------------------------------------------------------------------------
(* The refinement: what each piece of a step does to the ordered line. *)

\* Unless something waits, the device with no timer running has written it all.
LEMMA UnsentIsEmpty ==
    ASSUME NEW o \in OutputLists, WellFormed(o)
    PROVE  UnsentNodes(o) = <<>> <=> o.send_iter = End
<1>1. Len(o.list) \in Nat
    BY DEF OutputLists
<1>2. CASE o.send_iter = End
  <2>1. SentLen(o) = Len(o.list)
      BY <1>2, SentLenType
  <2> QED
      BY <1>1, <1>2, <2>1, SubSeqEmpty DEF UnsentNodes
<1>3. CASE o.send_iter # End
    BY <1>3, ToSendNodes
<1> QED
    BY <1>2, <1>3

\* An empty list is an empty line.
LEMMA EmptyLine == DataOf(SentNodes(EmptyOutput)) = <<>> /\ DataOf(UnsentNodes(EmptyOutput)) = <<>>
<1>1. SentNodes(EmptyOutput) = <<>> /\ UnsentNodes(EmptyOutput) = <<>>
    BY EmptyOutputWellFormed, SubSeqEmpty DEF SentNodes, UnsentNodes, EmptyOutput
<1>2. DataOf(<<>>) = <<>>
  <2>1. <<>> \in Seq(Node)
      OBVIOUS
  <2>2. DataOf(<<>>) \in Seq(Msg) /\ Len(DataOf(<<>>)) = 0
      BY <2>1, DataOfSeq
  <2> QED
      BY <2>2
<1> QED
    BY <1>1, <1>2

\* writecb() with something to write takes the head of the unsent messages.
LEMMA WriteIsAppend ==
    ASSUME NEW o \in OutputLists, WellFormed(o), o.send_iter # End
    PROVE  /\ DataOf(UnsentNodes(o)) # <<>>
           /\ DataOf(SentNodes(ToSend(o)))
                 = Append(DataOf(SentNodes(o)), Head(DataOf(UnsentNodes(o))))
           /\ DataOf(UnsentNodes(ToSend(o))) = Tail(DataOf(UnsentNodes(o)))
<1> DEFINE s == SentNodes(o)
           u == UnsentNodes(o)
<1>1. s \in Seq(Node) /\ u \in Seq(Node) /\ u # <<>>
    BY NodesOf, ToSendNodes
<1>2. Len(u) \in Nat /\ 1 \in 1 .. Len(u) /\ 1 \in 0 .. Len(u) /\ Head(u) = u[1]
    BY <1>1
<1>3. Head(u) \in Node
    BY <1>1, <1>2, ElementOfSeq
<1>4. /\ DataOf(u) \in Seq(Msg) /\ Len(DataOf(u)) = Len(u) /\ DataOf(u)[1] = u[1].data
    BY <1>1, <1>2, DataOfSeq
<1>5. DataOf(u) # <<>> /\ Head(DataOf(u)) = Head(u).data
    BY <1>2, <1>4
<1>6. DataOf(Append(s, Head(u))) = Append(DataOf(s), Head(u).data)
    BY <1>1, <1>3, DataOfAppend
<1>7. DataOf(Tail(u)) = Tail(DataOf(u))
  <2>1. Tail(u) = SubSeq(u, 1 + 1, Len(u))
      BY <1>1, TailIsSubSeq
  <2>2. Tail(DataOf(u)) = SubSeq(DataOf(u), 1 + 1, Len(DataOf(u)))
      BY <1>4, <1>5, TailIsSubSeq
  <2> QED
      BY <1>1, <1>2, <2>1, <2>2, DataOfSubSeq
<1> QED
    BY <1>5, <1>6, <1>7, ToSendNodes

\* send() is Send of the line: written at once if there is no timer, queued if so.
LEMMA SendRefines ==
    ASSUME Inv, NEW m \in Msg, Send(m)
    PROVE  Abs!Send(m)
<1>1. /\ daemon = "running" /\ daemon' = "running"
      /\ output \in OutputLists /\ WellFormed(output)
      /\ output.send_iter # End => write_ev # NotPending
    BY DEF Inv, TypeOK, IteratorsValid, Send
<1>2. PICK a \in Addr \ Addrs(output) : SendOn(output, a, m)
    BY DEF Send
<1> DEFINE node == [addr |-> a, data |-> m]
           p == Push(output, node)
<1>3. node \in Node /\ node.addr \notin Addrs(output) /\ node.data = m
    BY <1>2 DEF Node
<1>4. /\ p \in OutputLists /\ WellFormed(p) /\ p.send_iter # End
      /\ SentNodes(p) = SentNodes(output)
      /\ UnsentNodes(p) = Append(UnsentNodes(output), node)
    BY <1>1, <1>3, PushAppends, PushNodes
<1>5. /\ DataOf(SentNodes(p)) = Awaiting
      /\ DataOf(UnsentNodes(p)) = Append(Unsent, m)
      /\ Unsent \in Seq(Msg)
    BY ZenonT(40), <1>1, <1>3, <1>4, NodesOf, DataOfAppend, DataOfSeq DEF Awaiting, Unsent
<1>6. LineState = "open" /\ LineState' = LineState
    BY <1>1 DEF LineState
<1>7. CASE write_ev = NotPending
  <2>1. WriteCb(p)
      BY <1>2, <1>7 DEF SendOn
  <2>2. output' = ToSend(p) /\ write_ev' # NotPending
    <3>1. output' = ToSend(p) /\ write_ev' \in Nat
        BY <1>4, <2>1, WriteCbKeeps
    <3> QED
        BY <3>1 DEF NotPending
  <2>3. UnsentNodes(output) = <<>>
      BY <1>1, <1>7, UnsentIsEmpty
  <2>4. Unsent = <<>>
    <3>1. <<>> \in Seq(Node)
        OBVIOUS
    <3>2. Unsent \in Seq(Msg) /\ Len(Unsent) = 0
        BY <2>3, <3>1, DataOfSeq DEF Unsent
    <3> QED
        BY <3>2
  <2>5. /\ Awaiting' = Append(Awaiting, Head(Append(Unsent, m)))
        /\ Unsent' = Tail(Append(Unsent, m))
      BY <1>4, <1>5, <2>2, WriteIsAppend DEF Awaiting, Unsent
  <2>6. Head(Append(Unsent, m)) = m /\ Tail(Append(Unsent, m)) = Unsent
      BY <2>4
  <2>7. (write_ev' # NotPending) = TRUE /\ (write_ev # NotPending) = FALSE
      BY <1>7, <2>2
  <2>8. Awaiting' = Append(Awaiting, m) /\ Unsent' = Unsent
      BY <2>5, <2>6
  <2> QED
      BY <1>6, <1>7, <2>7, <2>8 DEF Abs!Send
<1>8. CASE write_ev # NotPending
  <2>1. output' = p /\ write_ev' = write_ev
      BY <1>2, <1>8 DEF SendOn
  <2>2. Awaiting' = Awaiting /\ Unsent' = Append(Unsent, m)
      BY <1>5, <2>1 DEF Awaiting, Unsent
  <2> QED
      BY <1>6, <1>8, <2>1, <2>2 DEF Abs!Send
<1> QED
    BY <1>7, <1>8

\* Every other step is one of the line, or leaves it as it is.
LEMMA StepRefines ==
    ASSUME Inv, [Next]_vars
    PROVE  [Abs!Next]_(Abs!vars)
<1>1. /\ output \in OutputLists /\ WellFormed(output)
      /\ daemon \in {"starting", "running", "exited"}
      /\ write_ev \in Nat \union {NotPending}
    BY DEF Inv, TypeOK, IteratorsValid
<1>2. ASSUME output' = EmptyOutput, write_ev' = NotPending
      PROVE  Awaiting' = <<>> /\ Unsent' = <<>> /\ (write_ev' # NotPending) = FALSE
    BY <1>2, EmptyLine DEF Awaiting, Unsent
<1>3. ASSUME UNCHANGED <<output, daemon>>, (write_ev' = NotPending) <=> (write_ev = NotPending)
      PROVE  UNCHANGED (Abs!vars)
    BY <1>3 DEF Abs!vars, LineState, Awaiting, Unsent
<1>4. CASE Reopen
  <2>1. LineState # "gone" /\ LineState' = "open"
      BY <1>4 DEF Reopen, LineState
  <2> QED
      BY <1>2, <1>4, <2>1 DEF Reopen, Closed, Abs!Next, Abs!Open
<1>5. ASSUME NEW m \in Msg, Send(m)
      PROVE  Abs!Next
    BY <1>5, SendRefines DEF Abs!Next
<1>6. CASE WriteTimeout
  <2>1. WriteCb(output) /\ write_ev = 0 /\ write_ev # NotPending
      BY <1>6 DEF WriteTimeout, NotPending
  <2>2. LineState = "open" /\ LineState' = LineState
      BY <1>6 DEF WriteTimeout, LineState
  <2>3. CASE output.send_iter = End
    <3>1. output' = output /\ write_ev' = NotPending
        BY <1>1, <2>1, <2>3, WriteCbKeeps
    <3>2. Unsent = <<>> /\ Unsent' = Unsent /\ Awaiting' = Awaiting
      <4>1. UnsentNodes(output) = <<>> /\ <<>> \in Seq(Node)
          BY <1>1, <2>3, UnsentIsEmpty
      <4>2. Unsent \in Seq(Msg) /\ Len(Unsent) = 0
          BY <4>1, DataOfSeq DEF Unsent
      <4> QED
          BY <3>1, <4>2 DEF Unsent, Awaiting
    <3>3. (write_ev' # NotPending) = FALSE
        BY <3>1
    <3>4. Abs!RestOver
        BY <2>1, <2>2, <3>2, <3>3 DEF Abs!RestOver
    <3> QED
        BY <3>4 DEF Abs!Next
  <2>4. CASE output.send_iter # End
    <3>1. output' = ToSend(output) /\ write_ev' # NotPending
      <4>1. output' = ToSend(output) /\ write_ev' \in Nat
          BY <1>1, <2>1, <2>4, WriteCbKeeps
      <4> QED
          BY <4>1 DEF NotPending
    <3>2. /\ Unsent # <<>>
          /\ Awaiting' = Append(Awaiting, Head(Unsent))
          /\ Unsent' = Tail(Unsent)
        BY <1>1, <2>4, <3>1, WriteIsAppend DEF Awaiting, Unsent
    <3> QED
        BY <2>1, <2>2, <3>1, <3>2 DEF Abs!Next, Abs!RestOver
  <2> QED
      BY <2>3, <2>4
<1>7. ASSUME NEW n \in 1 .. Len(output.list), Packet(n)
      PROVE  Abs!Next
  <2>1. n \in 0 .. SentLen(output) /\ output' = PopN(output, n) /\ write_ev' = write_ev
      BY <1>7 DEF Packet
  <2>2. /\ SentNodes(output') = SubSeq(SentNodes(output), n + 1, Len(SentNodes(output)))
        /\ UnsentNodes(output') = UnsentNodes(output)
      BY <1>1, <2>1, PopNNodes
  <2>3. SentNodes(output) \in Seq(Node) /\ Len(SentNodes(output)) = SentLen(output)
      BY <1>1, NodesOf
  <2>4. /\ Awaiting' = SubSeq(Awaiting, n + 1, Len(Awaiting))
        /\ Unsent' = Unsent
        /\ Len(Awaiting) = SentLen(output)
      BY <2>1, <2>2, <2>3, DataOfSubSeq, DataOfSeq DEF Awaiting, Unsent
  <2>5. LineState = "open" /\ LineState' = LineState
      BY <1>7 DEF Packet, LineState
  <2>6. n \in 1 .. Len(Awaiting) /\ n \in 0 .. Len(Awaiting)
      BY <2>1, <2>4
  <2>7. Abs!Answer(n)
      BY <2>1, <2>4, <2>5, <2>6 DEF Abs!Answer
  <2> QED
      BY <2>6, <2>7 DEF Abs!Next
<1>8. CASE Eof
    BY <1>3, <1>8 DEF Eof
<1>9. CASE Exit
  <2>1. LineState' = "gone"
      BY <1>9 DEF Exit, LineState
  <2> QED
      BY <1>2, <1>9, <2>1 DEF Exit, Closed, Abs!Next, Abs!Stop
<1>10. CASE Tick
  <2>1. (write_ev' = NotPending) <=> (write_ev = NotPending)
      BY <1>1, <1>10 DEF Tick, NotPending
  <2> QED
      BY <1>3, <1>10, <2>1 DEF Tick
<1>11. CASE UNCHANGED vars
    BY <1>3, <1>11 DEF vars
<1> QED
    BY <1>4, <1>5, <1>6, <1>7, <1>8, <1>9, <1>10, <1>11 DEF Next

\* The device with its list, iterators and timer does nothing the ordered line
\* of OutputLine would not do.
THEOREM DeviceIsOutputLine == Spec => StepsOfOutputLine
<1>1. Init => Abs!Init
  <2>1. SUFFICES ASSUME Init
                 PROVE  Abs!Init
      OBVIOUS
  <2>2. LineState = "closed" /\ Awaiting = <<>> /\ Unsent = <<>>
      BY <2>1, EmptyLine DEF Init, LineState, Awaiting, Unsent
  <2> QED
      BY <2>1, <2>2 DEF Init, Abs!Init
<1>2. Inv /\ [Next]_vars => [Abs!Next]_(Abs!vars)
    BY StepRefines
<1> QED
    BY <1>1, <1>2, InvHolds, PTL DEF Spec, StepsOfOutputLine
=============================================================================
