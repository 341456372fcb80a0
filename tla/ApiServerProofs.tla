---------------------------- MODULE ApiServerProofs ----------------------------
(***************************************************************************)
(* The safety properties of ApiServer, for any connections, codes,         *)
(* serversides and addresses, any table of names and every way the loop of *)
(* notify() may go on from a node it freed.                                *)
(*                                                                         *)
(* ApiInv is inductive.  What a handler does is stated once, of the part   *)
(* of the state it works on, with the chain taken as the set of its nodes  *)
(* and the order they stand in (Nodes, Newer); the actions combine these   *)
(* facts.  Of a report: the newest query of its code is served, and counts *)
(* on the answer if any does, since what lost its answer is older.         *)
(***************************************************************************)
EXTENDS ApiServer, FiniteSetTheorems, SequenceTheorems, TLAPS

\* Removing nodes keeps the others, all of them, in their order.
LEMMA WithoutKeeps ==
    ASSUME NEW chain \in Seq(Info), NEW addrs
    PROVE  LET t == Without(chain, addrs)
           IN  /\ t \in Seq(Info)
               /\ \E e \in [DOMAIN t -> DOMAIN chain] :
                    /\ \A n \in DOMAIN t : t[n] = chain[e[n]] /\ t[n].addr \notin addrs
                    /\ \A m, n \in DOMAIN t : m < n => e[m] < e[n]
                    /\ \A i \in DOMAIN chain : chain[i].addr \notin addrs =>
                          \E n \in DOMAIN t : e[n] = i
<1> DEFINE left    == { i \in DOMAIN chain : chain[i].addr \notin addrs }
           upto(i) == { j \in left : j <= i }
           rank(i) == Cardinality(upto(i))
           N       == Cardinality(left)
           t       == Without(chain, addrs)
           e       == [n \in 1 .. N |-> CHOOSE i \in left : rank(i) = n]
<1>1. Len(chain) \in Nat /\ DOMAIN chain = 1 .. Len(chain)
    OBVIOUS
<1>2. IsFiniteSet(left) /\ N \in Nat
  <2>1. IsFiniteSet(1 .. Len(chain)) /\ left \in SUBSET (1 .. Len(chain))
      BY <1>1, FS_Interval
  <2> QED
      BY <2>1, FS_Subset, FS_CardinalityType
<1>3. ASSUME NEW i \in left
      PROVE  IsFiniteSet(upto(i)) /\ rank(i) \in 1 .. N
  <2>1. upto(i) \in SUBSET left /\ i \in upto(i)
      BY <1>1
  <2>2. IsFiniteSet(upto(i)) /\ rank(i) \in Nat /\ rank(i) <= N
      BY <1>2, <2>1, FS_Subset, FS_CardinalityType
  <2>3. rank(i) # 0
      BY <2>1, <2>2, FS_EmptySet
  <2> QED
      BY <1>2, <2>2, <2>3
<1>4. \A i \in left : IsFiniteSet(upto(i)) /\ rank(i) \in 1 .. N
    BY <1>3
<1> HIDE DEF rank, N, upto
<1>5. ASSUME NEW i \in left, NEW j \in left, i < j
      PROVE  rank(i) < rank(j)
  <2>1. upto(i) \in SUBSET upto(j) /\ j \in upto(j) /\ j \notin upto(i)
      BY <1>1, <1>5 DEF upto
  <2>2. IsFiniteSet(upto(j)) /\ rank(i) \in Nat /\ rank(j) \in Nat
      BY <1>2, <1>4
  <2>3. rank(i) <= rank(j) /\ rank(i) # rank(j)
      BY <2>1, <2>2, FS_Subset DEF rank
  <2> QED
      BY <2>2, <2>3
<1>6. \A n \in 1 .. N : \E i \in left : rank(i) = n
  <2> DEFINE f == [i \in left |-> rank(i)]
  <2>1. f \in [left -> 1 .. N]
      BY <1>4
  <2>2. \A i, j \in left : f[i] = f[j] => i = j
      BY <1>1, <1>2, <1>4, <1>5
  <2>3. f \in Injection(left, 1 .. N)
      BY <2>1, <2>2 DEF Injection, IsInjective
  <2>4. IsFiniteSet(1 .. N) /\ Cardinality(1 .. N) = N
      BY <1>2, FS_Interval
  <2>5. f \in Surjection(left, 1 .. N)
      BY <2>3, <2>4, FS_Injection DEF N
  <2> QED
      BY <2>5 DEF Surjection
<1>7. t = [n \in 1 .. N |-> chain[e[n]]]
    BY DEF Without, rank, N, upto
<1> HIDE DEF t
<1>8. \A n \in 1 .. N : e[n] \in left /\ rank(e[n]) = n
    BY <1>6
<1> HIDE DEF e
<1>9. \A m, n \in 1 .. N : m < n => e[m] < e[n]
    BY <1>1, <1>2, <1>5, <1>8
<1>10. \A i \in DOMAIN chain : chain[i].addr \notin addrs => \E n \in 1 .. N : e[n] = i
  <2> SUFFICES ASSUME NEW i \in left
               PROVE  e[rank(i)] = i
      BY <1>4
  <2>1. rank(i) \in 1 .. N
      BY <1>4
  <2>2. e[rank(i)] \in left /\ rank(e[rank(i)]) = rank(i)
      BY <1>8, <2>1
  <2> QED
      BY <1>1, <1>2, <1>4, <1>5, <2>2
<1>11. t \in Seq(Info) /\ DOMAIN t = 1 .. N /\ e \in [1 .. N -> DOMAIN chain]
  <2>1. \A n \in 1 .. N : e[n] \in DOMAIN chain /\ chain[e[n]] \in Info
      BY <1>1, <1>8, ElementOfSeq
  <2>2. e \in [1 .. N -> DOMAIN chain]
      BY <2>1 DEF e
  <2>3. t \in [1 .. N -> Info]
      BY <1>7, <2>1
  <2> QED
      BY <1>2, <1>7, <2>2, <2>3
<1>12. /\ \A n \in DOMAIN t : t[n] = chain[e[n]] /\ t[n].addr \notin addrs
       /\ \A m, n \in DOMAIN t : m < n => e[m] < e[n]
       /\ \A i \in DOMAIN chain : chain[i].addr \notin addrs => \E n \in DOMAIN t : e[n] = i
    BY <1>7, <1>8, <1>9, <1>10, <1>11
<1> QED
    BY <1>11, <1>12 DEF t

-----------------------------------------------------------------------------
(* A chain as the set of its nodes and the order they stand in.            *)

Nodes(chain) == { chain[i] : i \in DOMAIN chain }

Unique(chain) == \A i, j \in DOMAIN chain : chain[i].addr = chain[j].addr => i = j

Newer(chain) ==
    { p \in Nodes(chain) \X Nodes(chain) :
        \E i, j \in DOMAIN chain : i < j /\ p = <<chain[i], chain[j]>> }

\* The nodes of a chain, as a set; an address names one of them.
LEMMA NodesAre ==
    ASSUME NEW chain \in Seq(Info)
    PROVE  /\ Nodes(chain) \subseteq Info
           /\ NodeAddrs(chain) = { x.addr : x \in Nodes(chain) }
           /\ Unique(chain) => \A x, y \in Nodes(chain) : x.addr = y.addr => x = y
<1>1. \A i \in DOMAIN chain : chain[i] \in Info
    BY ElementOfSeq
<1> QED
    BY <1>1 DEF Nodes, NodeAddrs, Unique

\* A removal in these terms.
LEMMA WithoutNodes ==
    ASSUME NEW chain \in Seq(Info), Unique(chain), NEW addrs
    PROVE  LET t == Without(chain, addrs)
           IN  /\ t \in Seq(Info)
               /\ Unique(t)
               /\ Nodes(t) = { x \in Nodes(chain) : x.addr \notin addrs }
               /\ Newer(t) \subseteq Newer(chain)
<1> DEFINE t == Without(chain, addrs)
<1>1. t \in Seq(Info)
    BY WithoutKeeps
<1>2. PICK e \in [DOMAIN t -> DOMAIN chain] :
          /\ \A n \in DOMAIN t : t[n] = chain[e[n]] /\ t[n].addr \notin addrs
          /\ \A m, n \in DOMAIN t : m < n => e[m] < e[n]
          /\ \A i \in DOMAIN chain : chain[i].addr \notin addrs => \E n \in DOMAIN t : e[n] = i
    BY WithoutKeeps
<1> HIDE DEF t
<1>3. /\ DOMAIN t \subseteq Nat /\ DOMAIN chain \subseteq Nat
      /\ \A n \in DOMAIN t : e[n] \in DOMAIN chain
    BY <1>1
<1>4. Unique(t)
  <2> SUFFICES ASSUME NEW m \in DOMAIN t, NEW n \in DOMAIN t, t[m].addr = t[n].addr
               PROVE  m = n
      BY DEF Unique
  <2>1. e[m] = e[n]
      BY <1>2, <1>3 DEF Unique
  <2> QED
      BY <1>2, <1>3, <2>1
<1>5. Nodes(t) = { x \in Nodes(chain) : x.addr \notin addrs }
  <2>1. Nodes(t) \subseteq { x \in Nodes(chain) : x.addr \notin addrs }
      BY <1>2, <1>3 DEF Nodes
  <2>2. ASSUME NEW x \in Nodes(chain), x.addr \notin addrs
        PROVE  x \in Nodes(t)
    <3>1. PICK i \in DOMAIN chain : x = chain[i]
        BY DEF Nodes
    <3>2. PICK n \in DOMAIN t : e[n] = i
        BY <1>2, <2>2, <3>1
    <3>3. x = t[n]
        BY <1>2, <3>1, <3>2
    <3> QED
        BY <3>3 DEF Nodes
  <2> QED
      BY <2>1, <2>2
<1>6. Newer(t) \subseteq Newer(chain)
  <2> SUFFICES ASSUME NEW m \in DOMAIN t, NEW n \in DOMAIN t, m < n
               PROVE  <<t[m], t[n]>> \in Newer(chain)
      BY DEF Newer
  <2>1. /\ e[m] \in DOMAIN chain /\ e[n] \in DOMAIN chain /\ e[m] < e[n]
        /\ t[m] = chain[e[m]] /\ t[n] = chain[e[n]]
      BY <1>2, <1>3
  <2> QED
      BY <2>1 DEF Newer, Nodes
<1> QED
    BY <1>1, <1>4, <1>5, <1>6 DEF t

\* emplace_after(before_begin()) in these terms.
LEMMA PushedNodes ==
    ASSUME NEW chain \in Seq(Info), Unique(chain),
           NEW x \in Info, x.addr \notin NodeAddrs(chain)
    PROVE  LET t == <<x>> \o chain
           IN  /\ t \in Seq(Info)
               /\ Unique(t)
               /\ Nodes(t) = {x} \union Nodes(chain)
               /\ Newer(t) \subseteq Newer(chain) \union { <<x, y>> : y \in Nodes(chain) }
<1> DEFINE t == <<x>> \o chain
<1>1. Len(chain) \in Nat /\ DOMAIN chain = 1 .. Len(chain)
    OBVIOUS
<1>2. /\ t \in Seq(Info) /\ DOMAIN t = 1 .. Len(chain) + 1
      /\ t[1] = x
      /\ \A i \in DOMAIN t : i # 1 => i - 1 \in DOMAIN chain /\ t[i] = chain[i - 1]
      /\ \A i \in DOMAIN chain : i + 1 \in DOMAIN t /\ t[i + 1] = chain[i]
    BY <1>1
<1> HIDE DEF t
<1>3. \A i \in DOMAIN chain : chain[i].addr # x.addr
    BY DEF NodeAddrs
<1>4. 1 \in DOMAIN t /\ DOMAIN t \subseteq Nat
    BY <1>1, <1>2
<1>5. Unique(t)
  <2> SUFFICES ASSUME NEW m \in DOMAIN t, NEW n \in DOMAIN t, t[m].addr = t[n].addr
               PROVE  m = n
      BY DEF Unique
  <2>1. CASE m = 1
      BY <1>2, <1>3, <2>1
  <2>2. CASE n = 1
      BY <1>2, <1>3, <2>2
  <2>3. CASE m # 1 /\ n # 1
    <3>1. m - 1 = n - 1
        BY <1>2, <2>3 DEF Unique
    <3> QED
        BY <1>4, <3>1
  <2> QED
      BY <2>1, <2>2, <2>3
<1>6. Nodes(t) = {x} \union Nodes(chain)
  <2>1. Nodes(t) \subseteq {x} \union Nodes(chain)
      BY <1>2 DEF Nodes
  <2>2. {x} \union Nodes(chain) \subseteq Nodes(t)
      BY <1>2, <1>4 DEF Nodes
  <2> QED
      BY <2>1, <2>2
<1>7. Newer(t) \subseteq Newer(chain) \union { <<x, y>> : y \in Nodes(chain) }
  <2> SUFFICES ASSUME NEW m \in DOMAIN t, NEW n \in DOMAIN t, m < n
               PROVE  <<t[m], t[n]>> \in Newer(chain) \union { <<x, y>> : y \in Nodes(chain) }
      BY DEF Newer
  <2>1. n # 1 /\ n - 1 \in DOMAIN chain /\ t[n] = chain[n - 1]
      BY <1>1, <1>2
  <2>2. CASE m = 1
      BY <1>2, <2>1, <2>2 DEF Nodes
  <2>3. CASE m # 1
    <3>1. m - 1 \in DOMAIN chain /\ t[m] = chain[m - 1] /\ m - 1 < n - 1
        BY <1>2, <1>4, <2>3
    <3> QED
        BY <2>1, <3>1 DEF Newer, Nodes
  <2> QED
      BY <2>2, <2>3
<1> QED
    BY <1>2, <1>5, <1>6, <1>7 DEF t

\* Of the chain, the queries the device has an answer for, if lost says which have none.
Waiting(chain, k, lost) ==
    { x.addr : x \in { y \in Nodes(chain) : y.code = k /\ y.once /\ y.addr \notin lost } }

\* Only finitely many nodes wait for an answer.
LEMMA WaitingIsFinite ==
    ASSUME NEW chain \in Seq(Info), NEW k, NEW lost
    PROVE  /\ IsFiniteSet(NodeAddrs(chain))
           /\ IsFiniteSet(Waiting(chain, k, lost))
           /\ Cardinality(Waiting(chain, k, lost)) \in Nat
<1> DEFINE f == [i \in DOMAIN chain |-> chain[i].addr]
<1>1. DOMAIN chain = 1 .. Len(chain) /\ Len(chain) \in Nat
    OBVIOUS
<1>2. IsFiniteSet(DOMAIN chain)
    BY <1>1, FS_Interval
<1>3. f \in Surjection(DOMAIN chain, NodeAddrs(chain))
    BY DEF Surjection, NodeAddrs
<1>4. IsFiniteSet(NodeAddrs(chain))
    BY <1>2, <1>3, FS_Surjection
<1>5. Waiting(chain, k, lost) \in SUBSET NodeAddrs(chain)
    BY NodesAre DEF Waiting
<1> QED
    BY <1>4, <1>5, FS_Subset, FS_CardinalityType

\* The places they have in the chain, as QueriesAreOwed counts them: each address once.
WaitingAt(chain, k, lost) ==
    { i \in DOMAIN chain : chain[i].code = k /\ chain[i].once /\ chain[i].addr \notin lost }

\* Counting the places of nodes that wait is counting the nodes.
LEMMA WaitingCounts ==
    ASSUME NEW chain \in Seq(Info), Unique(chain), NEW k, NEW lost
    PROVE  Cardinality(WaitingAt(chain, k, lost)) = Cardinality(Waiting(chain, k, lost))
<1> DEFINE at == WaitingAt(chain, k, lost)
           f  == [i \in at |-> chain[i].addr]
<1>1. DOMAIN chain = 1 .. Len(chain) /\ Len(chain) \in Nat
    OBVIOUS
<1>2. IsFiniteSet(DOMAIN chain) /\ at \in SUBSET DOMAIN chain
    BY <1>1, FS_Interval DEF WaitingAt
<1>3. IsFiniteSet(at)
    BY <1>2, FS_Subset
<1>4. f \in Surjection(at, Waiting(chain, k, lost))
  <2>1. \A i \in at : f[i] \in Waiting(chain, k, lost)
      BY DEF Waiting, WaitingAt, Nodes
  <2>2. \A x \in Waiting(chain, k, lost) : \E i \in at : f[i] = x
      BY DEF Waiting, WaitingAt, Nodes
  <2> QED
      BY <2>1, <2>2 DEF Surjection
<1>5. f \in Injection(at, Waiting(chain, k, lost))
    BY <1>4 DEF Injection, IsInjective, Surjection, Unique, WaitingAt
<1> QED
    BY <1>3, <1>4, <1>5, FS_Surjection

-----------------------------------------------------------------------------
(* What every handler keeps, of the part of the state it works on.         *)

States ==
    [ disabled : [Server -> BOOLEAN],
      codes    : [Conn -> [Code -> Addr \union {NoNode}]],
      chain    : Seq(Info),
      owed     : [Code -> Nat],
      said     : [Conn -> Seq(Replies)],
      calls    : SUBSET {"command", "request"} ]

Updated(s, codeMap, chain) == [s EXCEPT !.codes = codeMap, !.chain = chain]

\* Tokens and chain changed, all else as it was.
LEMMA UpdatedStates ==
    ASSUME NEW s \in States, NEW codeMap \in [Conn -> [Code -> Addr \union {NoNode}]],
           NEW chain \in Seq(Info)
    PROVE  LET t == Updated(s, codeMap, chain)
           IN  /\ t \in States
               /\ t.codes = codeMap /\ t.chain = chain
               /\ t.calls = s.calls /\ t.owed = s.owed /\ t.disabled = s.disabled
               /\ t.said = s.said
    BY DEF Updated, States

Owned(s) ==
    /\ s \in States
    /\ Unique(s.chain)
    /\ \A x \in Nodes(s.chain) : s.codes[x.conn][x.code] = x.addr
    /\ \A c \in Conn, k \in Code : s.codes[c][k] # NoNode =>
          \E x \in Nodes(s.chain) : x.addr = s.codes[c][k] /\ x.conn = c /\ x.code = k

Accounted(s, lost) ==
    /\ \A k \in Reportable : Cardinality(Waiting(s.chain, k, lost)) <= s.owed[k]
    /\ \A x, y \in Nodes(s.chain) :
          (<<x, y>> \in Newer(s.chain) /\ x.code = y.code /\ x.addr \in lost) => y.addr \in lost

\* Fewer nodes and no fewer requests keep the account.
LEMMA FewerAccounted ==
    ASSUME NEW s \in States, NEW t \in States, NEW lost, Accounted(s, lost),
           Nodes(t.chain) \subseteq Nodes(s.chain), Newer(t.chain) \subseteq Newer(s.chain),
           \A k \in Reportable : s.owed[k] <= t.owed[k]
    PROVE  Accounted(t, lost)
<1>1. s.chain \in Seq(Info) /\ t.chain \in Seq(Info)
    BY DEF States
<1>2. ASSUME NEW k \in Reportable
      PROVE  Cardinality(Waiting(t.chain, k, lost)) <= t.owed[k]
  <2>1. Waiting(t.chain, k, lost) \in SUBSET Waiting(s.chain, k, lost)
      BY DEF Waiting
  <2>2. Cardinality(Waiting(t.chain, k, lost)) <= Cardinality(Waiting(s.chain, k, lost))
      BY <1>1, <2>1, WaitingIsFinite, FS_Subset
  <2>3. Cardinality(Waiting(s.chain, k, lost)) \in Nat /\ Cardinality(Waiting(t.chain, k, lost)) \in Nat
      BY <1>1, WaitingIsFinite
  <2>4. k \in Code
      BY ApiAssumption
  <2>5. s.owed[k] \in Nat /\ t.owed[k] \in Nat
      BY <2>4 DEF States
  <2>6. Cardinality(Waiting(s.chain, k, lost)) <= s.owed[k] /\ s.owed[k] <= t.owed[k]
      BY DEF Accounted
  <2> QED
      BY <2>2, <2>3, <2>5, <2>6
<1>3. \A x, y \in Nodes(t.chain) :
          (<<x, y>> \in Newer(t.chain) /\ x.code = y.code /\ x.addr \in lost) => y.addr \in lost
    BY DEF Accounted
<1> QED
    BY <1>2, <1>3 DEF Accounted

\* stop_notify() takes the token's node off the chain, and nothing else.
LEMMA StopNotifyKeeps ==
    ASSUME NEW s, Owned(s), NEW lost, Accounted(s, lost), NEW c \in Conn, NEW k \in Code
    PROVE  LET t == StopNotify(s, c, k)
           IN  /\ Owned(t) /\ Accounted(t, lost)
               /\ Nodes(t.chain) = { x \in Nodes(s.chain) : ~(x.conn = c /\ x.code = k) }
               /\ t.calls = s.calls /\ t.owed = s.owed /\ t.disabled = s.disabled
<1> DEFINE t == StopNotify(s, c, k)
           a == s.codes[c][k]
           r == Without(s.chain, {a})
           m == [s.codes EXCEPT ![c][k] = NoNode]
<1>1. s \in States /\ s.chain \in Seq(Info) /\ Unique(s.chain) /\ NoNode \notin Addr
    BY ApiAssumption DEF Owned, States
<1>2. t = Updated(s, m, r)
    BY <1>1 DEF StopNotify, Release, States, Updated
<1> HIDE DEF t, a
<1>3. /\ r \in Seq(Info) /\ Unique(r)
      /\ Nodes(r) = { x \in Nodes(s.chain) : x.addr \notin {a} }
      /\ Newer(r) \subseteq Newer(s.chain)
    BY <1>1, WithoutNodes
<1>4. /\ t \in States /\ t.codes = m /\ t.chain = r
      /\ t.calls = s.calls /\ t.owed = s.owed /\ t.disabled = s.disabled
  <2>1. m \in [Conn -> [Code -> Addr \union {NoNode}]]
      BY <1>1 DEF States
  <2> HIDE DEF m, r
  <2> QED
      BY <1>1, <1>2, <1>3, <2>1, UpdatedStates
<1> HIDE DEF r
<1> USE DEF a
<1>5. Nodes(s.chain) \subseteq Info
    BY <1>1, NodesAre
<1>6. \A x \in Nodes(s.chain) : x.addr = a <=> x.conn = c /\ x.code = k
  <2>1. ASSUME NEW x \in Nodes(s.chain), x.addr = a
        PROVE  x.conn = c /\ x.code = k
    <3>1. a # NoNode
        BY <1>1, <1>5, <2>1 DEF Info
    <3>2. PICK y \in Nodes(s.chain) : y.addr = a /\ y.conn = c /\ y.code = k
        BY <3>1 DEF Owned
    <3> QED
        BY <1>1, <2>1, <3>2, NodesAre
  <2>2. ASSUME NEW x \in Nodes(s.chain), x.conn = c, x.code = k
        PROVE  x.addr = a
      BY <2>2 DEF Owned
  <2> QED
      BY <2>1, <2>2
<1>7. Nodes(t.chain) = { x \in Nodes(s.chain) : ~(x.conn = c /\ x.code = k) }
    BY <1>3, <1>4, <1>6
<1>8. \A x \in Nodes(t.chain) : t.codes[x.conn][x.code] = x.addr
    BY <1>1, <1>4, <1>5, <1>7 DEF Owned, States, Info
<1>9. ASSUME NEW d \in Conn, NEW j \in Code, t.codes[d][j] # NoNode
      PROVE  \E x \in Nodes(t.chain) : x.addr = t.codes[d][j] /\ x.conn = d /\ x.code = j
  <2>1. ~(d = c /\ j = k) /\ t.codes[d][j] = s.codes[d][j]
      BY <1>1, <1>4, <1>9 DEF States
  <2> QED
      BY <1>7, <1>9, <2>1 DEF Owned
<1>10. Owned(t)
    BY <1>3, <1>4, <1>8, <1>9 DEF Owned
<1>11. Accounted(t, lost)
  <2>1. \A j \in Reportable : s.owed[j] <= t.owed[j]
      BY <1>1, <1>4, ApiAssumption DEF States
  <2> QED
      BY <1>1, <1>3, <1>4, <2>1, FewerAccounted
<1> QED
    BY <1>4, <1>7, <1>10, <1>11 DEF t

\* A status request is a request more for a code that the device reports.
LEMMA RequestStatusIs ==
    ASSUME NEW s \in States, NEW k \in Code
    PROVE  LET t == RequestStatus(s, k)
           IN  /\ t \in States
               /\ t.codes = s.codes /\ t.chain = s.chain /\ t.disabled = s.disabled
               /\ t.owed = IF k \in Reportable THEN [s.owed EXCEPT ![k] = @ + 1] ELSE s.owed
<1> DEFINE t == RequestStatus(s, k)
           o == [s.owed EXCEPT ![k] = @ + 1]
           f == s.calls \union {"request"}
<1>1. CASE k \in Reportable
  <2>1. t = [s EXCEPT !.owed = o, !.calls = f]
      BY <1>1 DEF RequestStatus, States
  <2>2. o \in [Code -> Nat] /\ f \in SUBSET {"command", "request"}
      BY DEF States
  <2> HIDE DEF t, o, f
  <2>3. /\ t \in States /\ t.owed = o
        /\ t.codes = s.codes /\ t.chain = s.chain /\ t.disabled = s.disabled
      BY <2>1, <2>2 DEF States
  <2> QED
      BY <1>1, <2>3 DEF t, o
<1>2. CASE k \notin Reportable
    BY <1>2 DEF RequestStatus
<1> QED
    BY <1>1, <1>2

\* start_notify() puts a listener's node on the chain, in place of the token's old one.
LEMMA StartNotifyKeeps ==
    ASSUME NEW s, Owned(s), NEW lost, Accounted(s, lost), NEW c \in Conn, NEW k \in Code,
           NEW a \in Addr, a \notin NodeAddrs(s.chain), a \notin lost,
           NEW once \in BOOLEAN, NEW replace \in BOOLEAN
    PROVE  LET t    == StartNotify(s, c, k, a, once, replace)
               node == [addr |-> a, conn |-> c, code |-> k, once |-> once]
           IN  /\ Owned(t) /\ Accounted(t, lost)
               /\ Nodes(t.chain) \subseteq {node} \union Nodes(s.chain)
               /\ { x \in Nodes(s.chain) : ~(x.conn = c /\ x.code = k) } \subseteq Nodes(t.chain)
               /\ ~replace => Nodes(s.chain) \subseteq Nodes(t.chain)
               /\ replace => node \in Nodes(t.chain)
               /\ t.disabled = s.disabled
               /\ t.owed \in {s.owed} \union { [s.owed EXCEPT ![j] = @ + 1] : j \in {k} \intersect Reportable }
<1> DEFINE t    == StartNotify(s, c, k, a, once, replace)
           node == [addr |-> a, conn |-> c, code |-> k, once |-> once]
           old  == s.codes[c][k]
           r    == Without(<<node>> \o s.chain, {old})
           m    == [s.codes EXCEPT ![c][k] = a]
           q    == Updated(s, m, r)
<1> SUFFICES /\ Owned(t) /\ Accounted(t, lost)
             /\ Nodes(t.chain) \subseteq {node} \union Nodes(s.chain)
             /\ { x \in Nodes(s.chain) : ~(x.conn = c /\ x.code = k) } \subseteq Nodes(t.chain)
             /\ ~replace => Nodes(s.chain) \subseteq Nodes(t.chain)
             /\ replace => node \in Nodes(t.chain)
             /\ t.disabled = s.disabled
             /\ t.owed \in {s.owed} \union { [s.owed EXCEPT ![j] = @ + 1] : j \in {k} \intersect Reportable }
    OBVIOUS
<1>1. s \in States /\ s.chain \in Seq(Info) /\ Unique(s.chain) /\ NoNode \notin Addr
    BY ApiAssumption DEF Owned, States
<1>2. CASE old # NoNode /\ ~replace
  <2>1. t = s
      BY <1>2 DEF StartNotify
  <2> HIDE DEF t
  <2> QED
      BY <1>2, <2>1
<1>3. CASE ~(old # NoNode /\ ~replace)
  <2>1. t = RequestStatus(q, k)
      BY <1>1, <1>3 DEF StartNotify, Release, States, Updated
  <2>2. Nodes(s.chain) \subseteq Info /\ node \in Info
      BY <1>1, NodesAre DEF Info
  <2> HIDE DEF t, old, node
  <2>3. /\ <<node>> \o s.chain \in Seq(Info) /\ Unique(<<node>> \o s.chain)
        /\ Nodes(<<node>> \o s.chain) = {node} \union Nodes(s.chain)
        /\ Newer(<<node>> \o s.chain) \subseteq Newer(s.chain) \union { <<node, y>> : y \in Nodes(s.chain) }
    <3>1. node.addr \notin NodeAddrs(s.chain)
        BY DEF node
    <3> QED
        BY <1>1, <2>2, <3>1, PushedNodes
  <2>4. /\ r \in Seq(Info) /\ Unique(r)
        /\ Nodes(r) = { x \in {node} \union Nodes(s.chain) : x.addr # old }
        /\ Newer(r) \subseteq Newer(s.chain) \union { <<node, y>> : y \in Nodes(s.chain) }
    <3> DEFINE p == <<node>> \o s.chain
    <3> HIDE DEF p
    <3>1. LET w == Without(p, {old})
          IN  /\ w \in Seq(Info) /\ Unique(w)
              /\ Nodes(w) = { x \in Nodes(p) : x.addr \notin {old} }
              /\ Newer(w) \subseteq Newer(p)
        BY <2>3, WithoutNodes DEF p
    <3> QED
        BY <2>3, <3>1 DEF p
  <2>5. /\ q \in States /\ q.codes = m /\ q.chain = r
        /\ q.owed = s.owed /\ q.disabled = s.disabled
    <3>1. m \in [Conn -> [Code -> Addr \union {NoNode}]]
        BY <1>1 DEF States
    <3> HIDE DEF m, r
    <3> QED
        BY <1>1, <2>4, <3>1, UpdatedStates
  <2> HIDE DEF r, q
  <2>6. /\ t \in States /\ t.codes = m /\ t.chain = r /\ t.disabled = s.disabled
        /\ t.owed = IF k \in Reportable THEN [s.owed EXCEPT ![k] = @ + 1] ELSE s.owed
      BY <2>1, <2>5, RequestStatusIs
  <2>7. /\ node.addr = a /\ node.conn = c /\ node.code = k /\ node.once = once
      BY DEF node
  <2>8. \A x \in Nodes(s.chain) : x.addr = old <=> x.conn = c /\ x.code = k
    <3>1. ASSUME NEW x \in Nodes(s.chain), x.addr = old
          PROVE  x.conn = c /\ x.code = k
      <4>1. old # NoNode
          BY <1>1, <2>2, <3>1 DEF Info
      <4>2. PICK y \in Nodes(s.chain) : y.addr = old /\ y.conn = c /\ y.code = k
          BY <4>1 DEF Owned, old
      <4> QED
          BY <1>1, <3>1, <4>2, NodesAre
    <3>2. ASSUME NEW x \in Nodes(s.chain), x.conn = c, x.code = k
          PROVE  x.addr = old
        BY <3>2 DEF Owned, old
    <3> QED
        BY <3>1, <3>2
  <2>9. a # old
    <3>1. CASE old = NoNode
        BY <1>1, <3>1
    <3>2. CASE old # NoNode
      <4>1. PICK y \in Nodes(s.chain) : y.addr = old
          BY <3>2 DEF Owned, old
      <4> QED
          BY <1>1, <4>1, NodesAre
    <3> QED
        BY <3>1, <3>2
  <2>10. Nodes(t.chain) = {node} \union { x \in Nodes(s.chain) : ~(x.conn = c /\ x.code = k) }
      BY <2>4, <2>6, <2>7, <2>8, <2>9
  <2>11. \A x \in Nodes(t.chain) : t.codes[x.conn][x.code] = x.addr
    <3>1. t.codes[node.conn][node.code] = node.addr
        BY <1>1, <2>6, <2>7 DEF States
    <3>2. \A x \in Nodes(s.chain) : ~(x.conn = c /\ x.code = k) => t.codes[x.conn][x.code] = x.addr
        BY <1>1, <2>2, <2>6 DEF Owned, States, Info
    <3> QED
        BY <2>10, <3>1, <3>2
  <2>12. ASSUME NEW d \in Conn, NEW j \in Code, t.codes[d][j] # NoNode
         PROVE  \E x \in Nodes(t.chain) : x.addr = t.codes[d][j] /\ x.conn = d /\ x.code = j
    <3>1. CASE d = c /\ j = k
      <4>1. t.codes[d][j] = a
          BY <1>1, <2>6, <3>1 DEF States
      <4> QED
          BY <2>7, <2>10, <3>1, <4>1
    <3>2. CASE ~(d = c /\ j = k)
      <4>1. t.codes[d][j] = s.codes[d][j]
          BY <1>1, <2>6, <3>2 DEF States
      <4>2. PICK x \in Nodes(s.chain) : x.addr = s.codes[d][j] /\ x.conn = d /\ x.code = j
          BY <2>12, <4>1 DEF Owned
      <4> QED
          BY <2>10, <3>2, <4>1, <4>2
    <3> QED
        BY <3>1, <3>2
  <2>13. Owned(t)
      BY <2>4, <2>6, <2>11, <2>12 DEF Owned
  <2>14. ASSUME NEW j \in Reportable
         PROVE  Cardinality(Waiting(t.chain, j, lost)) <= t.owed[j]
    <3>1. /\ IsFiniteSet(Waiting(s.chain, j, lost)) /\ Cardinality(Waiting(s.chain, j, lost)) \in Nat
          /\ Cardinality(Waiting(t.chain, j, lost)) \in Nat
        BY <1>1, <2>4, <2>6, WaitingIsFinite
    <3>2. /\ j \in Code /\ s.owed[j] \in Nat
          /\ Cardinality(Waiting(s.chain, j, lost)) <= s.owed[j]
        BY <1>1, ApiAssumption DEF Accounted, States
    <3>3. CASE j = k
      <4>1. Waiting(t.chain, j, lost) \in SUBSET (Waiting(s.chain, j, lost) \union {a})
          BY <2>7, <2>10 DEF Waiting
      <4>2. /\ IsFiniteSet(Waiting(s.chain, j, lost) \union {a})
            /\ Cardinality(Waiting(s.chain, j, lost) \union {a}) \in Nat
            /\ Cardinality(Waiting(s.chain, j, lost) \union {a})
                 <= Cardinality(Waiting(s.chain, j, lost)) + 1
        <5> DEFINE W == Waiting(s.chain, j, lost)
        <5> HIDE DEF W
        <5>1. IsFiniteSet(W) /\ Cardinality(W) \in Nat
            BY <3>1 DEF W
        <5>2. IsFiniteSet(W \union {a})
              /\ Cardinality(W \union {a}) \in {Cardinality(W), Cardinality(W) + 1}
            BY <5>1, FS_AddElement
        <5> QED
            BY <5>1, <5>2 DEF W
      <4>3. Cardinality(Waiting(t.chain, j, lost)) <= Cardinality(Waiting(s.chain, j, lost) \union {a})
          BY <4>1, <4>2, FS_Subset
      <4>4. t.owed[j] = s.owed[j] + 1
          BY <1>1, <2>6, <3>2, <3>3 DEF States
      <4> QED
          BY <3>1, <3>2, <4>2, <4>3, <4>4
    <3>4. CASE j # k
      <4>1. Waiting(t.chain, j, lost) \in SUBSET Waiting(s.chain, j, lost)
          BY <2>7, <2>10, <3>4 DEF Waiting
      <4>2. Cardinality(Waiting(t.chain, j, lost)) <= Cardinality(Waiting(s.chain, j, lost))
          BY <3>1, <4>1, FS_Subset
      <4>3. t.owed[j] = s.owed[j]
          BY <1>1, <2>6, <3>2, <3>4 DEF States
      <4> QED
          BY <3>1, <3>2, <4>2, <4>3
    <3> QED
        BY <3>3, <3>4
  <2>15. ASSUME NEW x \in Nodes(t.chain), NEW y \in Nodes(t.chain),
                <<x, y>> \in Newer(t.chain), x.code = y.code, x.addr \in lost
         PROVE  y.addr \in lost
    <3>1. x # node
        BY <2>7, <2>15
    <3>2. <<x, y>> \in Newer(s.chain)
        BY <2>4, <2>6, <2>15, <3>1
    <3>3. x \in Nodes(s.chain) /\ y \in Nodes(s.chain)
        BY <3>2 DEF Newer
    <3> QED
        BY <2>15, <3>2, <3>3 DEF Accounted
  <2>16. Accounted(t, lost)
      BY <2>14, <2>15 DEF Accounted
  <2>17. ~replace => Nodes(s.chain) \subseteq Nodes(t.chain)
    <3> SUFFICES ASSUME old = NoNode
                 PROVE  Nodes(s.chain) \subseteq Nodes(t.chain)
        BY <1>3
    <3>1. \A x \in Nodes(s.chain) : x.addr # NoNode
        BY <1>1, <2>2 DEF Info
    <3> QED
        BY <2>8, <2>10, <3>1
  <2>18. /\ Nodes(t.chain) \subseteq {node} \union Nodes(s.chain)
         /\ { x \in Nodes(s.chain) : ~(x.conn = c /\ x.code = k) } \subseteq Nodes(t.chain)
         /\ node \in Nodes(t.chain)
      BY <2>10
  <2>19. t.owed \in {s.owed} \union { [s.owed EXCEPT ![j] = @ + 1] : j \in {k} \intersect Reportable }
      BY <2>6
  <2> QED
      BY <2>6, <2>13, <2>16, <2>17, <2>18, <2>19
<1> QED
    BY <1>2, <1>3 DEF t

\* What leaves chain, tokens and requests alone keeps all of it.
LEMMA SameChainKeeps ==
    ASSUME NEW s, Owned(s), NEW lost, Accounted(s, lost), NEW t \in States,
           t.codes = s.codes, t.chain = s.chain, t.owed = s.owed
    PROVE  Owned(t) /\ Accounted(t, lost)
    BY DEF Owned, Accounted

\* What a client's line may be.
LEMMA LineKinds ==
    ASSUME NEW line \in Lines
    PROVE  /\ line.op \in {"QCMD", "QSTS", "SEND", "????", "short", "QURY", "STRT", "STOP", "SENA", "SDIS"}
           /\ line.op \in {"QURY", "STRT", "STOP"} =>
                 line.code \in Code /\ line = [op |-> line.op, code |-> line.code]
    BY DEF Lines

\* The lines that do not subscribe or stop.
LEMMA OtherLines ==
    ASSUME NEW s \in States, NEW c \in Conn, NEW line \in Lines, NEW a,
           line.op \notin {"QURY", "STRT", "STOP"}
    PROVE  LET t == Dispatch(s, c, line, a)
           IN  /\ t \in States
               /\ t.codes = s.codes /\ t.chain = s.chain /\ t.owed = s.owed
               /\ line.op = "SENA" => t.calls = s.calls
<1> DEFINE t == Dispatch(s, c, line, a)
<1>1. CASE line.op \in {"QCMD", "QSTS", "????"}
  <2>1. PICK reply \in Replies : t = Say(s, c, reply)
      BY <1>1 DEF Dispatch, Replies
  <2> DEFINE u == [s.said EXCEPT ![c] = Append(@, reply)]
  <2>2. u \in [Conn -> Seq(Replies)]
      BY DEF States
  <2>3. t = [s EXCEPT !.said = u]
      BY <2>1 DEF Say, States
  <2> HIDE DEF t, u
  <2>4. t \in States /\ t.codes = s.codes /\ t.chain = s.chain /\ t.owed = s.owed /\ t.calls = s.calls
      BY <2>2, <2>3 DEF States
  <2> QED
      BY <2>4 DEF t
<1>2. CASE line.op = "SEND"
  <2> DEFINE u == s.calls \union {"command"}
  <2>1. t = [s EXCEPT !.calls = u] /\ u \in SUBSET {"command", "request"}
      BY <1>2 DEF Dispatch, States
  <2> HIDE DEF t, u
  <2>2. t \in States /\ t.codes = s.codes /\ t.chain = s.chain /\ t.owed = s.owed
      BY <2>1 DEF States
  <2> QED
      BY <1>2, <2>2 DEF t
<1>3. CASE line.op \in {"SENA", "SDIS"}
  <2>1. PICK value \in BOOLEAN : t = SetDisabled(s, line.name, value)
      BY <1>3 DEF Dispatch
  <2> DEFINE u == [x \in Server |-> IF NameOf[x] = line.name THEN value ELSE s.disabled[x]]
  <2>2. u \in [Server -> BOOLEAN]
      BY DEF States
  <2>3. t = [s EXCEPT !.disabled = u]
      BY <2>1 DEF SetDisabled, States
  <2> HIDE DEF t, u
  <2>4. t \in States /\ t.codes = s.codes /\ t.chain = s.chain /\ t.owed = s.owed /\ t.calls = s.calls
      BY <2>2, <2>3 DEF States
  <2> QED
      BY <2>4 DEF t
<1>4. CASE line.op = "short"
  <2>1. t = s
      BY <1>4 DEF Dispatch
  <2> QED
      BY <1>4, <2>1
<1> QED
    BY <1>1, <1>2, <1>3, <1>4, LineKinds

\* handle(), whatever the line: nodes are added for the client that sent it, only a
\* STOP or a hangup ends a listener, and a disabled server does nothing to the device.
LEMMA HandleKeeps ==
    ASSUME NEW s, Owned(s), NEW lost, Accounted(s, lost), NEW c \in Conn, NEW line \in Lines,
           NEW a, line.op \in {"QURY", "STRT"} =>
                     a \in Addr /\ a \notin NodeAddrs(s.chain) /\ a \notin lost,
           server[c] \in Server
    PROVE  LET t == Handle(s, c, line, a)
           IN  /\ Owned(t) /\ Accounted(t, lost)
               /\ \A x \in Nodes(t.chain) : x \in Nodes(s.chain) \/ x.conn = c
               /\ \A x \in Nodes(s.chain) : ~x.once =>
                     \/ \E y \in Nodes(t.chain) : y.conn = x.conn /\ y.code = x.code /\ ~y.once
                     \/ x.conn = c /\ line = [op |-> "STOP", code |-> x.code]
               /\ t.owed \in {s.owed} \union { [s.owed EXCEPT ![j] = @ + 1] : j \in
                     { k \in Reportable : line.op \in {"QURY", "STRT"} /\ k = line.code } }
               /\ s.disabled[server[c]] => t.chain = s.chain /\ t.calls = s.calls
<1> DEFINE t == Handle(s, c, line, a)
<1> SUFFICES /\ Owned(t) /\ Accounted(t, lost)
             /\ \A x \in Nodes(t.chain) : x \in Nodes(s.chain) \/ x.conn = c
             /\ \A x \in Nodes(s.chain) : ~x.once =>
                     \/ \E y \in Nodes(t.chain) : y.conn = x.conn /\ y.code = x.code /\ ~y.once
                     \/ x.conn = c /\ line = [op |-> "STOP", code |-> x.code]
             /\ t.owed \in {s.owed} \union { [s.owed EXCEPT ![j] = @ + 1] : j \in
                     { k \in Reportable : line.op \in {"QURY", "STRT"} /\ k = line.code } }
             /\ s.disabled[server[c]] => t.chain = s.chain /\ t.calls = s.calls
    OBVIOUS
<1>1. s \in States /\ s.disabled[server[c]] \in BOOLEAN
    BY DEF Owned, States
<1>2. ASSUME t \in States, t.codes = s.codes, t.chain = s.chain, t.owed = s.owed,
             s.disabled[server[c]] => t.calls = s.calls
      PROVE  /\ Owned(t) /\ Accounted(t, lost)
             /\ \A x \in Nodes(t.chain) : x \in Nodes(s.chain) \/ x.conn = c
             /\ \A x \in Nodes(s.chain) : ~x.once =>
                   \E y \in Nodes(t.chain) : y.conn = x.conn /\ y.code = x.code /\ ~y.once
             /\ t.owed = s.owed
             /\ s.disabled[server[c]] => t.chain = s.chain /\ t.calls = s.calls
  <2> HIDE DEF t
  <2> QED
      BY <1>2, SameChainKeeps
<1>3. CASE s.disabled[server[c]] /\ line.op # "SENA"
  <2> DEFINE u == [s.said EXCEPT ![c] = Append(@, "EDIS")]
  <2>1. u \in [Conn -> Seq(Replies)]
      BY <1>1 DEF States, Replies
  <2>2. t = [s EXCEPT !.said = u]
      BY <1>1, <1>3 DEF Handle, Say, States
  <2> HIDE DEF t, u
  <2>3. t \in States /\ t.codes = s.codes /\ t.chain = s.chain /\ t.owed = s.owed /\ t.calls = s.calls
      BY <1>1, <2>1, <2>2 DEF States
  <2> QED
      BY <1>2, <2>3
<1>4. CASE line.op \notin {"QURY", "STRT", "STOP"} /\ ~(s.disabled[server[c]] /\ line.op # "SENA")
  <2>1. t = Dispatch(s, c, line, a)
      BY <1>4 DEF Handle
  <2>2. t \in States /\ t.codes = s.codes /\ t.chain = s.chain /\ t.owed = s.owed
        /\ (line.op = "SENA" => t.calls = s.calls)
      BY <1>1, <1>4, <2>1, OtherLines
  <2> HIDE DEF t
  <2> QED
      BY <1>2, <1>4, <2>2
<1>5. CASE line.op \in {"QURY", "STRT"} /\ ~s.disabled[server[c]]
  <2> DEFINE once == line.op = "QURY"
             replace == line.op = "STRT"
             k == line.code
             node == [addr |-> a, conn |-> c, code |-> k, once |-> once]
  <2>1. t = StartNotify(s, c, k, a, once, replace)
    <3>1. CASE line.op = "QURY"
      <4>1. once = TRUE /\ replace = FALSE
          BY <3>1
      <4> QED
          BY <1>5, <3>1, <4>1 DEF Handle, Dispatch
    <3>2. CASE line.op = "STRT"
      <4>1. once = FALSE /\ replace = TRUE
          BY <3>2
      <4> QED
          BY <1>5, <3>2, <4>1 DEF Handle, Dispatch
    <3> QED
        BY <1>5, <3>1, <3>2
  <2>2. k \in Code /\ once \in BOOLEAN /\ replace \in BOOLEAN /\ (once <=> ~replace)
      BY <1>5, LineKinds
  <2>3. a \in Addr /\ a \notin NodeAddrs(s.chain) /\ a \notin lost
      BY <1>5
  <2>4. line.op \in {"QURY", "STRT"} /\ ~s.disabled[server[c]]
      BY <1>5
  <2> HIDE DEF t, once, replace, node, k
  <2>5. /\ Owned(t) /\ Accounted(t, lost)
        /\ Nodes(t.chain) \subseteq {node} \union Nodes(s.chain)
        /\ { x \in Nodes(s.chain) : ~(x.conn = c /\ x.code = k) } \subseteq Nodes(t.chain)
        /\ ~replace => Nodes(s.chain) \subseteq Nodes(t.chain)
        /\ replace => node \in Nodes(t.chain)
        /\ t.owed \in {s.owed} \union { [s.owed EXCEPT ![j] = @ + 1] : j \in {k} \intersect Reportable }
      BY <2>1, <2>2, <2>3, StartNotifyKeeps DEF node
  <2>6. node.conn = c /\ node.code = k /\ node.once = once
      BY DEF node
  <2>7. \A x \in Nodes(s.chain) : ~x.once =>
            \E y \in Nodes(t.chain) : y.conn = x.conn /\ y.code = x.code /\ ~y.once
      BY <2>2, <2>5, <2>6
  <2>8. t.owed \in {s.owed} \union { [s.owed EXCEPT ![j] = @ + 1] : j \in
                     { i \in Reportable : line.op \in {"QURY", "STRT"} /\ i = line.code } }
      BY <2>4, <2>5 DEF k
  <2> QED
      BY <2>4, <2>5, <2>6, <2>7, <2>8
<1>6. CASE line.op = "STOP" /\ ~s.disabled[server[c]]
  <2> DEFINE k == line.code
  <2>1. t = StopNotify(s, c, k)
      BY <1>6 DEF Handle, Dispatch
  <2>2. k \in Code /\ line = [op |-> "STOP", code |-> k]
      BY <1>6, LineKinds
  <2> HIDE DEF t, k
  <2>3. /\ Owned(t) /\ Accounted(t, lost)
        /\ Nodes(t.chain) = { x \in Nodes(s.chain) : ~(x.conn = c /\ x.code = k) }
        /\ t.owed = s.owed
      BY <2>1, <2>2, StopNotifyKeeps
  <2>4. \A x \in Nodes(s.chain) : ~x.once =>
            \/ \E y \in Nodes(t.chain) : y.conn = x.conn /\ y.code = x.code /\ ~y.once
            \/ x.conn = c /\ line = [op |-> "STOP", code |-> x.code]
      BY <2>2, <2>3
  <2> QED
      BY <1>6, <2>3, <2>4
<1> QED
    BY <1>1, <1>3, <1>4, <1>5, <1>6

\* What a handler asks of the device is what the device then owes.
LEMMA HandleAsks ==
    ASSUME NEW s \in States, s.calls = {}, NEW c \in Conn, NEW line \in Lines, NEW a,
           line.op \in {"QURY", "STRT"} => a \in Addr
    PROVE  LET t == Handle(s, c, line, a)
           IN  /\ "request" \in t.calls =>
                     /\ t.calls = {"request"}
                     /\ line.op \in {"QURY", "STRT"} /\ line.code \in Code
                     /\ t.owed = [s.owed EXCEPT ![line.code] = @ + 1]
               /\ "request" \notin t.calls => t.owed = s.owed
<1> DEFINE t == Handle(s, c, line, a)
<1> SUFFICES /\ "request" \in t.calls =>
                     /\ t.calls = {"request"}
                     /\ line.op \in {"QURY", "STRT"} /\ line.code \in Code
                     /\ t.owed = [s.owed EXCEPT ![line.code] = @ + 1]
             /\ "request" \notin t.calls => t.owed = s.owed
    OBVIOUS
<1>1. CASE s.disabled[server[c]] /\ line.op # "SENA"
    BY <1>1 DEF Handle, Say, States
<1>2. CASE line.op \notin {"QURY", "STRT", "STOP"} /\ ~(s.disabled[server[c]] /\ line.op # "SENA")
  <2>1. t.calls \in {{}, {"command"}} /\ t.owed = s.owed
      BY <1>2, LineKinds DEF Handle, Dispatch, Say, SetDisabled, States
  <2> QED
      BY <2>1
<1>3. CASE line.op = "STOP" /\ ~s.disabled[server[c]]
  <2>1. line.code \in Code
      BY <1>3, LineKinds
  <2>2. t = StopNotify(s, c, line.code)
      BY <1>3 DEF Handle, Dispatch
  <2> HIDE DEF t
  <2> QED
      BY <2>1, <2>2 DEF StopNotify, Release, States
<1>4. CASE line.op \in {"QURY", "STRT"} /\ ~s.disabled[server[c]]
  <2> DEFINE k == line.code
             q(once) == Release([s EXCEPT !.chain = <<[addr |-> a, conn |-> c, code |-> k, once |-> once]>> \o @,
                                          !.codes[c][k] = a], {s.codes[c][k]})
  <2>1. k \in Code
      BY <1>4, LineKinds
  <2>2. PICK once : t = s \/ t = RequestStatus(q(once), k)
    <3>1. CASE line.op = "QURY"
        BY <1>4, <3>1 DEF Handle, Dispatch, StartNotify
    <3>2. CASE line.op = "STRT"
        BY <1>4, <3>2 DEF Handle, Dispatch, StartNotify
    <3> QED
        BY <1>4, <3>1, <3>2
  <2> DEFINE r == q(once)
  <2>3. r.owed = s.owed /\ r.calls = {} /\ DOMAIN r = DOMAIN s
      BY DEF Release, States
  <2> HIDE DEF t, r, k
  <2>4. t = s \/ t = RequestStatus(r, k)
      BY <2>2 DEF r
  <2>5. CASE t = s
      BY <2>5
  <2>6. CASE t = RequestStatus(r, k) /\ k \in Reportable
    <3>1. t.owed = [s.owed EXCEPT ![k] = @ + 1] /\ t.calls = {"request"}
        BY <2>3, <2>6 DEF RequestStatus, States
    <3> QED
        BY <1>4, <2>1, <3>1 DEF k
  <2>7. CASE t = RequestStatus(r, k) /\ k \notin Reportable
      BY <2>3, <2>7 DEF RequestStatus
  <2> QED
      BY <2>4, <2>5, <2>6, <2>7
<1> QED
    BY <1>1, <1>2, <1>3, <1>4

\* The connection's tokens and nodes are gone, the others stay.
LEMMA EraseKeeps ==
    ASSUME NEW s, Owned(s), NEW lost, Accounted(s, lost), NEW c \in Conn
    PROVE  LET t == Erase(s, c)
           IN  /\ Owned(t) /\ Accounted(t, lost)
               /\ Nodes(t.chain) = { x \in Nodes(s.chain) : x.conn # c }
               /\ t.owed = s.owed /\ t.calls = s.calls
<1> DEFINE t == Erase(s, c)
           addrs == { s.codes[c][k] : k \in Code }
           r == Without(s.chain, addrs)
           m == [s.codes EXCEPT ![c] = NoTokens]
           u == [s.said EXCEPT ![c] = <<>>]
           q == Updated(s, m, r)
<1> SUFFICES /\ Owned(t) /\ Accounted(t, lost)
             /\ Nodes(t.chain) = { x \in Nodes(s.chain) : x.conn # c }
             /\ t.owed = s.owed /\ t.calls = s.calls
    OBVIOUS
<1>1. s \in States /\ s.chain \in Seq(Info) /\ Unique(s.chain) /\ NoNode \notin Addr
    BY ApiAssumption DEF Owned, States
<1>2. t = [q EXCEPT !.said = u]
    BY <1>1 DEF Erase, Release, States, Updated
<1> HIDE DEF t, addrs
<1>3. /\ r \in Seq(Info) /\ Unique(r)
      /\ Nodes(r) = { x \in Nodes(s.chain) : x.addr \notin addrs }
      /\ Newer(r) \subseteq Newer(s.chain)
    BY <1>1, WithoutNodes
<1>4. m \in [Conn -> [Code -> Addr \union {NoNode}]] /\ u \in [Conn -> Seq(Replies)]
    BY <1>1 DEF States, NoTokens
<1> HIDE DEF m, r, u
<1>5. q \in States /\ q.codes = m /\ q.chain = r /\ q.calls = s.calls /\ q.owed = s.owed
    BY SMTT(30), <1>1, <1>3, <1>4, UpdatedStates
<1> HIDE DEF q
<1>6. t \in States /\ t.codes = m /\ t.chain = r /\ t.calls = s.calls /\ t.owed = s.owed
    BY <1>2, <1>4, <1>5 DEF States
<1>7. Nodes(s.chain) \subseteq Info
    BY <1>1, NodesAre
<1>8. \A x \in Nodes(s.chain) : x.addr \in addrs <=> x.conn = c
  <2>1. ASSUME NEW x \in Nodes(s.chain), x.addr \in addrs
        PROVE  x.conn = c
    <3>1. PICK k \in Code : x.addr = s.codes[c][k]
        BY <2>1 DEF addrs
    <3>2. s.codes[c][k] # NoNode
        BY <1>1, <1>7, <3>1 DEF Info
    <3>3. PICK y \in Nodes(s.chain) : y.addr = s.codes[c][k] /\ y.conn = c
        BY <3>2 DEF Owned
    <3> QED
        BY <1>1, <3>1, <3>3, NodesAre
  <2>2. ASSUME NEW x \in Nodes(s.chain), x.conn = c
        PROVE  x.addr \in addrs
      BY <1>7, <2>2 DEF Owned, addrs, Info
  <2> QED
      BY <2>1, <2>2
<1>9. Nodes(t.chain) = { x \in Nodes(s.chain) : x.conn # c }
    BY <1>3, <1>6, <1>8
<1>10. \A x \in Nodes(t.chain) : t.codes[x.conn][x.code] = x.addr
    BY <1>1, <1>6, <1>7, <1>9 DEF Owned, States, Info, m
<1>11. ASSUME NEW d \in Conn, NEW k \in Code, t.codes[d][k] # NoNode
       PROVE  \E x \in Nodes(t.chain) : x.addr = t.codes[d][k] /\ x.conn = d /\ x.code = k
  <2>1. d # c /\ t.codes[d][k] = s.codes[d][k]
      BY <1>1, <1>6, <1>11 DEF States, NoTokens, m
  <2> QED
      BY <1>9, <1>11, <2>1 DEF Owned
<1>12. Owned(t)
    BY <1>3, <1>6, <1>10, <1>11 DEF Owned
<1>13. Accounted(t, lost)
  <2>1. \A k \in Reportable : s.owed[k] <= t.owed[k]
      BY <1>1, <1>6, ApiAssumption DEF States
  <2>2. Nodes(t.chain) \subseteq Nodes(s.chain) /\ Newer(t.chain) \subseteq Newer(s.chain)
      BY <1>3, <1>6
  <2> QED
      BY <1>1, <1>6, <2>1, <2>2, FewerAccounted
<1> QED
    BY <1>6, <1>9, <1>12, <1>13

-----------------------------------------------------------------------------
(* notify(). *)

Served(k, last) == { notify_chain[i] : i \in { j \in ListenersAt(k) : j <= last } }
Done(k, last)   == { x \in Served(k, last) : x.once }
Told(k, last, c) == Cardinality({ x \in Served(k, last) : x.conn = c })

\* A handler begins in the state that is.
LEMMA CurrentParts ==
    /\ Current.disabled = disabled /\ Current.codes = codes /\ Current.chain = notify_chain
    /\ Current.owed = owed /\ Current.said = Silence /\ Current.calls = {}
    BY DEF Current

\* Of the nodes that notify() gets to, no two are of one connection.
LEMMA ServedAre ==
    ASSUME Owned(Current), NEW k \in Code, NEW last
    PROVE  /\ \A x \in Served(k, last) : x \in Nodes(notify_chain) /\ x \in Info /\ x.code = k
           /\ \A x, y \in Served(k, last) : x.conn = y.conn => x = y
<1>1. notify_chain \in Seq(Info) /\ Unique(notify_chain)
    BY CurrentParts DEF Owned, States
<1>2. \A x \in Served(k, last) : x \in Nodes(notify_chain) /\ x.code = k
    BY DEF Served, ListenersAt, Nodes
<1>3. \A x \in Served(k, last) : x \in Info /\ x.addr = codes[x.conn][k]
    BY <1>1, <1>2, NodesAre, CurrentParts DEF Owned
<1>4. \A x, y \in Served(k, last) : x.conn = y.conn => x = y
    BY <1>1, <1>2, <1>3, NodesAre
<1> QED
    BY <1>2, <1>3, <1>4

\* Nobody is told twice.
LEMMA ToldOnce ==
    ASSUME Owned(Current), NEW k \in Code, NEW last, NEW c \in Conn
    PROVE  /\ Told(k, last, c) \in {0, 1}
           /\ Told(k, last, c) = 1 <=> \E x \in Served(k, last) : x.conn = c
<1> DEFINE S == { x \in Served(k, last) : x.conn = c }
<1>1. CASE \E x \in Served(k, last) : x.conn = c
  <2>1. PICK x \in Served(k, last) : x.conn = c
      BY <1>1
  <2>2. S = {x}
      BY <2>1, ServedAre
  <2>3. Cardinality(S) = 1
      BY <2>2, FS_Singleton
  <2> QED
      BY <1>1, <2>3 DEF Told
<1>2. CASE ~ \E x \in Served(k, last) : x.conn = c
  <2>1. S = {}
      BY <1>2
  <2>2. Cardinality(S) = 0
      BY <2>1, FS_EmptySet
  <2> QED
      BY <1>2, <2>2 DEF Told
<1> QED
    BY <1>1, <1>2

\* The one-shot nodes the loop came to are gone with their tokens, the others stay.
LEMMA NotifiedKeeps ==
    ASSUME Owned(Current), NEW lost, Accounted(Current, lost), NEW k \in Code, NEW last
    PROVE  LET t == Notified(k, last)
           IN  /\ Owned(t) /\ Accounted(t, lost)
               /\ Nodes(t.chain) = Nodes(notify_chain) \ Done(k, last)
               /\ t.owed = owed /\ t.calls = {} /\ t.disabled = disabled
               /\ t.said = [c \in Conn |-> [n \in 1 .. Told(k, last, c) |-> "STAT"]]
<1> DEFINE t == Notified(k, last)
           s == Current
           addrs == { x.addr : x \in Done(k, last) }
           r == Without(notify_chain, addrs)
           m == [c \in Conn |-> [j \in Code |->
                    IF \E x \in Done(k, last) : x.conn = c /\ x.code = j
                      THEN NoNode ELSE codes[c][j]]]
           u == [c \in Conn |-> [n \in 1 .. Told(k, last, c) |-> "STAT"]]
           q == Updated(s, m, r)
<1> SUFFICES /\ Owned(t) /\ Accounted(t, lost)
             /\ Nodes(t.chain) = Nodes(notify_chain) \ Done(k, last)
             /\ t.owed = owed /\ t.calls = {} /\ t.disabled = disabled
             /\ t.said = u
    OBVIOUS
<1>1. s \in States /\ notify_chain \in Seq(Info) /\ Unique(notify_chain) /\ NoNode \notin Addr
    BY ApiAssumption, CurrentParts DEF Owned, States
<1>2. t = [q EXCEPT !.said = u]
    BY ZenonT(40) DEF Notified, Release, Current, Updated, Told, Done, Served
<1> HIDE DEF t, addrs, s
<1>3. /\ r \in Seq(Info) /\ Unique(r)
      /\ Nodes(r) = { x \in Nodes(notify_chain) : x.addr \notin addrs }
      /\ Newer(r) \subseteq Newer(notify_chain)
    BY <1>1, WithoutNodes
<1>4. m \in [Conn -> [Code -> Addr \union {NoNode}]] /\ u \in [Conn -> Seq(Replies)]
  <2>1. codes \in [Conn -> [Code -> Addr \union {NoNode}]]
      BY <1>1, CurrentParts DEF States, s
  <2>2. m \in [Conn -> [Code -> Addr \union {NoNode}]]
      BY <2>1
  <2>3. ASSUME NEW c \in Conn
        PROVE  [n \in 1 .. Told(k, last, c) |-> "STAT"] \in Seq(Replies)
    <3>1. Told(k, last, c) \in Nat /\ "STAT" \in Replies
        BY ToldOnce DEF Replies
    <3> QED
        BY <3>1
  <2> QED
      BY <2>2, <2>3
<1> HIDE DEF m, r, u
<1>5. /\ q \in States /\ q.codes = m /\ q.chain = r /\ q.calls = {} /\ q.owed = owed
      /\ q.disabled = disabled
  <2>1. /\ q \in States /\ q.codes = m /\ q.chain = r /\ q.calls = s.calls /\ q.owed = s.owed
        /\ q.disabled = s.disabled
      BY <1>1, <1>3, <1>4, UpdatedStates
  <2>2. s.calls = {} /\ s.owed = owed /\ s.disabled = disabled
      BY CurrentParts DEF s
  <2> HIDE DEF q
  <2> QED
      BY <2>1, <2>2
<1> HIDE DEF q
<1>6. /\ t \in States /\ t.codes = m /\ t.chain = r /\ t.calls = {} /\ t.owed = owed
      /\ t.disabled = disabled /\ t.said = u
    BY <1>2, <1>4, <1>5 DEF States
<1>7. Nodes(notify_chain) \subseteq Info
    BY <1>1, NodesAre
<1>8. \A x \in Done(k, last) : x \in Nodes(notify_chain) /\ x \in Info /\ x.code = k
    BY ServedAre DEF Done
<1>9. \A x \in Nodes(notify_chain) : x.addr \in addrs <=> x \in Done(k, last)
    BY <1>1, <1>8, NodesAre DEF addrs
<1>10. Nodes(t.chain) = Nodes(notify_chain) \ Done(k, last)
    BY <1>3, <1>6, <1>9
<1>11. /\ \A x \in Nodes(notify_chain) : codes[x.conn][x.code] = x.addr
       /\ \A c \in Conn, j \in Code : codes[c][j] # NoNode =>
              \E x \in Nodes(notify_chain) : x.addr = codes[c][j] /\ x.conn = c /\ x.code = j
    BY CurrentParts DEF Owned
<1>12. \A c \in Conn, j \in Code :
          t.codes[c][j] = IF \E x \in Done(k, last) : x.conn = c /\ x.code = j
                            THEN NoNode ELSE codes[c][j]
    BY <1>6 DEF m
<1>13. ASSUME NEW x \in Nodes(t.chain)
       PROVE  t.codes[x.conn][x.code] = x.addr
  <2>1. x \in Nodes(notify_chain) /\ x \notin Done(k, last) /\ x.conn \in Conn /\ x.code \in Code
      BY <1>7, <1>10 DEF Info
  <2>2. ~ \E y \in Done(k, last) : y.conn = x.conn /\ y.code = x.code
    <3> SUFFICES ASSUME NEW y \in Done(k, last), y.conn = x.conn, y.code = x.code
                 PROVE  FALSE
        OBVIOUS
    <3>1. y.addr = x.addr
        BY <1>8, <1>11, <2>1
    <3> QED
        BY <1>1, <1>8, <2>1, <3>1, NodesAre
  <2> QED
      BY <1>11, <1>12, <2>1, <2>2
<1>14. ASSUME NEW c \in Conn, NEW j \in Code, t.codes[c][j] # NoNode
       PROVE  \E x \in Nodes(t.chain) : x.addr = t.codes[c][j] /\ x.conn = c /\ x.code = j
  <2>1. t.codes[c][j] = codes[c][j] /\ ~ \E x \in Done(k, last) : x.conn = c /\ x.code = j
      BY <1>12, <1>14
  <2> QED
      BY <1>10, <1>11, <1>14, <2>1
<1>15. Owned(t)
    BY <1>3, <1>6, <1>13, <1>14 DEF Owned
<1>16. Accounted(t, lost)
  <2>1. \A j \in Reportable : s.owed[j] <= t.owed[j]
      BY <1>1, <1>6, ApiAssumption, CurrentParts DEF States, s
  <2>2. Nodes(t.chain) \subseteq Nodes(s.chain) /\ Newer(t.chain) \subseteq Newer(s.chain)
      BY <1>3, <1>6, CurrentParts DEF s
  <2>3. Accounted(s, lost)
      BY DEF s
  <2> QED
      BY <1>1, <1>6, <2>1, <2>2, <2>3, FewerAccounted
<1> QED
    BY <1>6, <1>10, <1>15, <1>16

\* An answer serves a query that counted on it, if there is one: what is lost is older.
LEMMA AnswerServes ==
    ASSUME Owned(Current), NEW lost, Accounted(Current, lost), NEW k \in Code,
           NEW last \in LastVisited(k), NEW z \in Nodes(notify_chain),
           z.code = k, z.once, z.addr \notin lost
    PROVE  \E x \in Done(k, last) : x.addr \notin lost
<1>1. notify_chain \in Seq(Info) /\ DOMAIN notify_chain = 1 .. Len(notify_chain) /\ Len(notify_chain) \in Nat
    BY CurrentParts DEF Owned, States
<1>2. PICK j \in DOMAIN notify_chain : notify_chain[j] = z
    BY DEF Nodes
<1>3. j \in OneShotsAt(k)
    BY <1>2 DEF OneShotsAt, ListenersAt
<1>4. ASSUME NEW i \in OneShotsAt(k), i <= last
      PROVE  notify_chain[i] \in Done(k, last)
    BY <1>4 DEF OneShotsAt, Done, Served
<1>5. CASE last \in OneShotsAt(k)
  <2>1. last \in DOMAIN notify_chain /\ notify_chain[last].code = k
      BY <1>5 DEF OneShotsAt, ListenersAt
  <2>2. CASE notify_chain[last].addr \notin lost
      BY <1>1, <1>4, <1>5, <2>1, <2>2
  <2>3. CASE notify_chain[last].addr \in lost
    <3>1. ~(last < j)
      <4> SUFFICES ASSUME last < j
                   PROVE  FALSE
          OBVIOUS
      <4>1. /\ notify_chain[last] \in Nodes(notify_chain)
            /\ <<notify_chain[last], z>> \in Newer(notify_chain)
          BY <1>2, <2>1 DEF Nodes, Newer
      <4> QED
          BY <2>1, <2>3, <4>1, CurrentParts DEF Accounted
    <3>2. j <= last
        BY <1>1, <1>2, <2>1, <3>1
    <3> QED
        BY <1>2, <1>3, <1>4, <3>2
  <2> QED
      BY <2>2, <2>3
<1>6. CASE last \notin OneShotsAt(k)
  <2>1. last = Len(notify_chain)
      BY <1>6 DEF LastVisited
  <2>2. j <= last
      BY <1>1, <1>2, <2>1
  <2> QED
      BY <1>2, <1>3, <1>4, <2>2
<1> QED
    BY <1>5, <1>6

-----------------------------------------------------------------------------
(* ApiInv is inductive. *)

\* ApiInv gives what the handlers keep.
LEMMA InvOwned ==
    ASSUME ApiInv
    PROVE  /\ Owned(Current) /\ Accounted(Current, orphans)
           /\ orphans \subseteq NodeAddrs(notify_chain)
           /\ \A x \in Nodes(notify_chain) : x \in Info /\ server[x.conn] \in Server
<1>1. TypeOK /\ TokensOwnNodes /\ TokenOfNode /\ OrphansAreOldest /\ QueriesAreOwed
    BY DEF ApiInv
<1>2. /\ notify_chain \in Seq(Info) /\ codes \in [Conn -> [Code -> Addr \union {NoNode}]]
      /\ owed \in [Code -> Nat] /\ disabled \in [Server -> BOOLEAN]
  <2>1. 0 .. MaxOwed \subseteq Nat
      BY ApiAssumption
  <2> QED
      BY <1>1, <2>1 DEF TypeOK
<1>3. Unique(notify_chain)
    BY <1>1 DEF TokensOwnNodes, Unique
<1>4. Nodes(notify_chain) \subseteq Info
    BY <1>2, NodesAre
<1>5. Current \in States
  <2>1. Silence \in [Conn -> Seq(Replies)]
      BY DEF Silence
  <2> HIDE DEF Silence
  <2> QED
      BY <1>2, <2>1 DEF Current, States
<1>6. /\ \A x \in Nodes(notify_chain) : codes[x.conn][x.code] = x.addr /\ x.conn \in Open
      /\ \A c \in Conn, k \in Code : codes[c][k] # NoNode =>
            \E x \in Nodes(notify_chain) : x.addr = codes[c][k] /\ x.conn = c /\ x.code = k
    BY <1>1 DEF TokensOwnNodes, TokenOfNode, Nodes
<1>7. Owned(Current)
    BY <1>3, <1>5, <1>6, CurrentParts DEF Owned
<1>8. \A k \in Reportable : Cardinality(Waiting(notify_chain, k, orphans)) <= owed[k]
  <2> TAKE k \in Reportable
  <2> DEFINE at == { i \in OneShotsAt(k) : notify_chain[i].addr \notin orphans }
  <2>1. Cardinality(at) <= owed[k]
      BY <1>1 DEF QueriesAreOwed
  <2>2. at = WaitingAt(notify_chain, k, orphans)
      BY DEF WaitingAt, OneShotsAt, ListenersAt
  <2> HIDE DEF at
  <2> QED
      BY <1>2, <1>3, <2>1, <2>2, WaitingCounts
<1>9. \A x, y \in Nodes(notify_chain) :
          (<<x, y>> \in Newer(notify_chain) /\ x.code = y.code /\ x.addr \in orphans) => y.addr \in orphans
    BY <1>1 DEF OrphansAreOldest, Nodes, Newer
<1>10. Accounted(Current, orphans)
    BY <1>8, <1>9, CurrentParts DEF Accounted
<1>11. \A x \in Nodes(notify_chain) : server[x.conn] \in Server
    BY <1>1, <1>4, <1>6 DEF TypeOK, Open, Info
<1> QED
    BY <1>1, <1>4, <1>7, <1>10, <1>11 DEF OrphansAreOldest

\* And what the handlers keep gives ApiInv, once it is the state.
LEMMA OwnedInv ==
    ASSUME NEW t, NEW lost, Owned(t), Accounted(t, lost),
           codes' = t.codes, notify_chain' = t.chain, owed' = t.owed,
           orphans' = lost \intersect NodeAddrs(t.chain),
           \A k \in Code : t.owed[k] <= MaxOwed,
           disabled' \in [Server -> BOOLEAN],
           server' \in [Conn -> Server \union {NoServer}],
           partial' \in [Conn -> Lines \union {NoLine}],
           alive' \in BOOLEAN,
           said' \in [Conn -> Seq(Replies)],
           calls' \subseteq {"command", "request"},
           \A x \in Nodes(t.chain) : server'[x.conn] \in Server
    PROVE  ApiInv'
<1>1. /\ t \in States /\ notify_chain' \in Seq(Info) /\ Unique(notify_chain')
      /\ codes' \in [Conn -> [Code -> Addr \union {NoNode}]] /\ owed' \in [Code -> Nat]
    BY DEF Owned, States
<1>2. /\ Nodes(notify_chain') \subseteq Info
      /\ NodeAddrs(notify_chain') = { x.addr : x \in Nodes(notify_chain') }
    BY <1>1, NodesAre
<1>3. /\ \A i \in DOMAIN notify_chain' : notify_chain'[i] \in Nodes(notify_chain')
      /\ DOMAIN notify_chain' \subseteq Nat
    BY <1>1 DEF Nodes
<1>4. TypeOK'
  <2>1. owed' \in [Code -> 0 .. MaxOwed]
    <3>1. \A k \in Code : owed'[k] \in Nat /\ owed'[k] <= MaxOwed
        BY <1>1
    <3>2. \A k \in Code : owed'[k] \in 0 .. MaxOwed
        BY <3>1, ApiAssumption
    <3> QED
        BY <1>1, <3>2
  <2>2. orphans' \subseteq Addr
      BY <1>2 DEF Info
  <2> QED
      BY <1>1, <2>1, <2>2 DEF TypeOK
<1>5. TokensOwnNodes'
  <2>1. \A x \in Nodes(notify_chain') : x.conn \in Open' /\ codes'[x.conn][x.code] = x.addr
      BY <1>2, ApiAssumption DEF Owned, Open, Info
  <2>2. \A c \in Conn, k \in Code :
            codes'[c][k] # NoNode => codes'[c][k] \in NodeAddrs(notify_chain')
      BY <1>2 DEF Owned
  <2> QED
      BY <1>1, <1>3, <2>1, <2>2 DEF TokensOwnNodes, Unique
<1>6. TokenOfNode'
    BY SMTT(30) DEF TokenOfNode, Owned, Nodes
<1>7. OrphansAreOldest'
  <2>1. orphans' \subseteq NodeAddrs(notify_chain')
      OBVIOUS
  <2>2. ASSUME NEW i \in DOMAIN notify_chain', NEW j \in DOMAIN notify_chain', i < j,
               notify_chain'[i].code = notify_chain'[j].code, notify_chain'[i].addr \in orphans'
        PROVE  notify_chain'[j].addr \in orphans'
    <3> DEFINE x == notify_chain'[i]
               y == notify_chain'[j]
    <3>1. x \in Nodes(t.chain) /\ y \in Nodes(t.chain) /\ <<x, y>> \in Newer(t.chain)
        BY <1>3, <2>2 DEF Newer
    <3>2. x.code = y.code /\ x.addr \in lost
        BY <2>2
    <3> HIDE DEF x, y
    <3>3. y.addr \in lost
        BY <3>1, <3>2 DEF Accounted
    <3>4. y.addr \in NodeAddrs(t.chain)
        BY <1>2, <3>1
    <3> QED
        BY <3>3, <3>4 DEF y
  <2> QED
      BY <2>1, <2>2 DEF OrphansAreOldest
<1>8. QueriesAreOwed'
  <2> SUFFICES ASSUME NEW k \in Reportable
               PROVE  Cardinality({ i \in OneShotsAt(k)' : notify_chain'[i].addr \notin orphans' }) <= owed'[k]
      BY DEF QueriesAreOwed
  <2> DEFINE at == { i \in OneShotsAt(k)' : notify_chain'[i].addr \notin orphans' }
  <2>1. at = WaitingAt(notify_chain', k, orphans')
      BY DEF WaitingAt, OneShotsAt, ListenersAt
  <2> HIDE DEF at
  <2>2. Cardinality(at) = Cardinality(Waiting(notify_chain', k, orphans'))
      BY <1>1, <2>1, WaitingCounts
  <2>3. Waiting(notify_chain', k, orphans') = Waiting(t.chain, k, lost)
      BY <1>2 DEF Waiting
  <2>4. Cardinality(Waiting(t.chain, k, lost)) <= t.owed[k]
      BY DEF Accounted
  <2>5. Cardinality(at) <= owed'[k]
      BY <2>2, <2>3, <2>4
  <2> QED
      BY <2>5 DEF at
<1> QED
    BY <1>4, <1>5, <1>6, <1>7, <1>8 DEF ApiInv

\* The same for what a callback has made of the state.
LEMMA BecomeInv ==
    ASSUME NEW t, Owned(t), Accounted(t, orphans), Become(t),
           \A k \in Code : t.owed[k] <= MaxOwed,
           server' \in [Conn -> Server \union {NoServer}],
           partial' \in [Conn -> Lines \union {NoLine}],
           alive' \in BOOLEAN,
           \A x \in Nodes(t.chain) : server'[x.conn] \in Server
    PROVE  ApiInv'
<1>1. t \in States
    BY DEF Owned
<1>2. /\ t.disabled \in [Server -> BOOLEAN] /\ t.said \in [Conn -> Seq(Replies)]
      /\ t.calls \subseteq {"command", "request"}
    BY <1>1 DEF States
<1> QED
    BY <1>2, OwnedInv DEF Become

\* At first there are no tokens and no nodes.
LEMMA ApiInitInv == Init => ApiInv
<1> SUFFICES ASSUME Init
             PROVE  ApiInv
    OBVIOUS
<1>1. TypeOK
  <2>1. Silence \in [Conn -> Seq(Replies)]
      BY DEF Silence
  <2>2. NoTokens \in [Code -> Addr \union {NoNode}]
      BY DEF NoTokens
  <2> HIDE DEF Silence, NoTokens
  <2> QED
      BY <2>1, <2>2, ApiAssumption DEF Init, TypeOK
<1>2. TokensOwnNodes /\ TokenOfNode /\ OrphansAreOldest
    BY DEF Init, TokensOwnNodes, TokenOfNode, OrphansAreOldest, NodeAddrs, NoTokens
<1>3. QueriesAreOwed
  <2> SUFFICES ASSUME NEW k \in Reportable
               PROVE  Cardinality({ i \in OneShotsAt(k) : notify_chain[i].addr \notin orphans }) <= owed[k]
      BY DEF QueriesAreOwed
  <2> DEFINE at == { i \in OneShotsAt(k) : notify_chain[i].addr \notin orphans }
  <2>1. at = {}
      BY DEF Init, OneShotsAt, ListenersAt
  <2>2. owed[k] = 0
      BY ApiAssumption DEF Init
  <2> HIDE DEF at
  <2>3. Cardinality(at) <= owed[k]
      BY <2>1, <2>2, FS_EmptySet
  <2> QED
      BY <2>3 DEF at
<1> QED
    BY <1>1, <1>2, <1>3 DEF ApiInv

\* A line of a client, in a state where the invariant holds.
LEMMA LineHandled ==
    ASSUME ApiInv, NEW c \in Open, NEW line \in Lines, Affordable(line), NEW a \in AddrsFor(line)
    PROVE  LET t == Handle(Current, c, line, a)
           IN  /\ Owned(t) /\ Accounted(t, orphans)
               /\ \A k \in Code : t.owed[k] <= MaxOwed
               /\ \A x \in Nodes(t.chain) : x.conn \in Conn /\ server[x.conn] \in Server
               /\ \A x \in Nodes(notify_chain) : ~x.once =>
                     \/ \E y \in Nodes(t.chain) : y.conn = x.conn /\ y.code = x.code /\ ~y.once
                     \/ x.conn = c /\ line = [op |-> "STOP", code |-> x.code]
               /\ \A x \in Nodes(t.chain) : x \in Nodes(notify_chain) \/ x.conn = c
               /\ disabled[server[c]] => t.chain = notify_chain /\ t.calls = {}
<1> DEFINE t == Handle(Current, c, line, a)
<1> HIDE DEF t
<1>1. /\ c \in Conn /\ server[c] \in Server
      /\ owed \in [Code -> 0 .. MaxOwed]
    BY DEF ApiInv, TypeOK, Open
<1>2. line.op \in {"QURY", "STRT"} =>
          a \in Addr /\ a \notin NodeAddrs(notify_chain) /\ a \notin orphans
    BY InvOwned DEF AddrsFor, FreeAddrs
<1>3. /\ Owned(t) /\ Accounted(t, orphans)
      /\ \A x \in Nodes(t.chain) : x \in Nodes(notify_chain) \/ x.conn = c
      /\ \A x \in Nodes(notify_chain) : ~x.once =>
            \/ \E y \in Nodes(t.chain) : y.conn = x.conn /\ y.code = x.code /\ ~y.once
            \/ x.conn = c /\ line = [op |-> "STOP", code |-> x.code]
      /\ t.owed \in {owed} \union { [owed EXCEPT ![j] = @ + 1] : j \in
            { k \in Reportable : line.op \in {"QURY", "STRT"} /\ k = line.code } }
      /\ disabled[server[c]] => t.chain = notify_chain /\ t.calls = {}
    BY <1>1, <1>2, InvOwned, HandleKeeps, CurrentParts DEF t
<1>4. ASSUME NEW k \in Code
      PROVE  t.owed[k] <= MaxOwed
  <2>1. CASE t.owed = owed
      BY <1>1, <2>1, ApiAssumption
  <2>2. CASE t.owed # owed
    <3>1. PICK j \in Reportable : /\ t.owed = [owed EXCEPT ![j] = @ + 1]
                                  /\ line.op \in {"QURY", "STRT"} /\ j = line.code
        BY <1>3, <2>2
    <3>2. owed[j] < MaxOwed
        BY <3>1 DEF Affordable
    <3> QED
        BY <1>1, <3>1, <3>2, ApiAssumption
  <2> QED
      BY <2>1, <2>2
<1>5. \A x \in Nodes(t.chain) : x.conn \in Conn /\ server[x.conn] \in Server
    BY <1>1, <1>3, InvOwned DEF Info
<1> QED
    BY <1>3, <1>4, <1>5 DEF t

\* What the invariant says of the state in which a handler begins.
LEMMA NothingHandled ==
    ASSUME ApiInv
    PROVE  /\ Owned(Current) /\ Accounted(Current, orphans)
           /\ \A k \in Code : Current.owed[k] <= MaxOwed
           /\ \A x \in Nodes(notify_chain) : x.conn \in Conn /\ server[x.conn] \in Server
    BY InvOwned, CurrentParts, ApiAssumption DEF ApiInv, TypeOK, Info

\* A line of a client keeps the invariant, whatever it asks.
LEMMA ReceiveInv ==
    ASSUME ApiInv, NEW c \in Conn, NEW line \in Lines, Receive(c, line)
    PROVE  ApiInv'
<1>1. /\ c \in Open /\ Affordable(line) /\ server' = server /\ alive' = alive
      /\ partial' = [partial EXCEPT ![c] = NoLine]
    BY DEF Receive
<1>2. PICK a \in AddrsFor(line) : Become(Handle(Current, c, line, a))
    BY DEF Receive
<1>3. /\ server \in [Conn -> Server \union {NoServer}] /\ alive \in BOOLEAN
      /\ partial' \in [Conn -> Lines \union {NoLine}]
    BY <1>1 DEF ApiInv, TypeOK
<1> DEFINE t == Handle(Current, c, line, a)
<1> HIDE DEF t
<1>4. /\ Owned(t) /\ Accounted(t, orphans) /\ Become(t)
      /\ \A k \in Code : t.owed[k] <= MaxOwed
      /\ \A x \in Nodes(t.chain) : server[x.conn] \in Server
    BY <1>1, <1>2, LineHandled DEF t
<1> QED
    BY <1>1, <1>3, <1>4, BecomeInv

\* A hangup: what the handler made of the buffer, and then the connection's end.
LEMMA HangupErases ==
    ASSUME ApiInv, NEW c \in Conn, Hangup(c)
    PROVE  \E s : /\ Become(Erase(s, c))
                  /\ Owned(s) /\ Accounted(s, orphans)
                  /\ \A k \in Code : s.owed[k] <= MaxOwed
                  /\ \A x \in Nodes(s.chain) : x.conn \in Conn /\ server[x.conn] \in Server
                  /\ \A x \in Nodes(notify_chain) : (~x.once /\ x.conn # c) =>
                        \E y \in Nodes(s.chain) : y.conn = x.conn /\ y.code = x.code /\ ~y.once
                  /\ \A x \in Nodes(s.chain) : x \in Nodes(notify_chain) \/ x.conn = c
                  /\ disabled[server[c]] => s.chain = notify_chain /\ s.calls = {}
<1>1. c \in Open
    BY DEF Hangup
<1>2. CASE partial[c] = NoLine
    BY <1>2, NothingHandled, CurrentParts DEF Hangup
<1>3. CASE partial[c] # NoLine
  <2>1. partial[c] \in Lines /\ Affordable(partial[c])
      BY <1>3 DEF ApiInv, TypeOK, Hangup
  <2>2. PICK a \in AddrsFor(partial[c]) : Become(Erase(Handle(Current, c, partial[c], a), c))
      BY <1>3 DEF Hangup
  <2> QED
      BY <1>1, <2>1, <2>2, LineHandled
<1> QED
    BY <1>2, <1>3

\* So does the end of a connection, which takes its tokens and their nodes with it.
LEMMA HangupInv ==
    ASSUME ApiInv, NEW c \in Conn, Hangup(c)
    PROVE  ApiInv'
<1>1. /\ server' = [server EXCEPT ![c] = NoServer] /\ alive' = alive
      /\ partial' = [partial EXCEPT ![c] = NoLine]
    BY DEF Hangup
<1>2. /\ server \in [Conn -> Server \union {NoServer}] /\ alive \in BOOLEAN
      /\ server' \in [Conn -> Server \union {NoServer}]
      /\ partial' \in [Conn -> Lines \union {NoLine}]
    BY <1>1 DEF ApiInv, TypeOK
<1>3. PICK s : /\ Become(Erase(s, c))
               /\ Owned(s) /\ Accounted(s, orphans)
               /\ \A k \in Code : s.owed[k] <= MaxOwed
               /\ \A x \in Nodes(s.chain) : x.conn \in Conn /\ server[x.conn] \in Server
    BY HangupErases
<1> DEFINE t == Erase(s, c)
<1> HIDE DEF t
<1>4. /\ Owned(t) /\ Accounted(t, orphans) /\ Become(t)
      /\ Nodes(t.chain) = { x \in Nodes(s.chain) : x.conn # c }
      /\ t.owed = s.owed
    BY <1>3, EraseKeeps DEF t
<1>5. \A x \in Nodes(t.chain) : server'[x.conn] \in Server
    BY <1>1, <1>2, <1>3, <1>4
<1> QED
    BY <1>1, <1>2, <1>3, <1>4, <1>5, BecomeInv

\* The device's answer pays for a query; where none counted on it there is none to pay.
LEMMA AnswerPays ==
    ASSUME Owned(Current), NEW lost, Accounted(Current, lost),
           NEW k \in Code, owed[k] > 0, NEW last \in LastVisited(k)
    PROVE  LET t == Notified(k, last)
               o == [owed EXCEPT ![k] = @ - 1]
               u == [t EXCEPT !.owed = o]
           IN  /\ u \in States /\ u.codes = t.codes /\ u.chain = t.chain /\ u.owed = o
               /\ Owned(u) /\ Accounted(u, lost)
               /\ Nodes(u.chain) \subseteq Nodes(notify_chain)
<1> DEFINE t == Notified(k, last)
           o == [owed EXCEPT ![k] = @ - 1]
           u == [t EXCEPT !.owed = o]
<1>3. owed \in [Code -> Nat] /\ notify_chain \in Seq(Info)
    BY CurrentParts DEF Owned, States
<1>4. /\ Owned(t) /\ Accounted(t, lost)
      /\ Nodes(t.chain) = Nodes(notify_chain) \ Done(k, last)
      /\ t.owed = owed
    BY NotifiedKeeps
<1> HIDE DEF t
<1>5. t \in States
    BY <1>4 DEF Owned
<1>6. o \in [Code -> Nat]
    BY <1>3
<1> HIDE DEF o
<1>7. u \in States /\ u.codes = t.codes /\ u.chain = t.chain /\ u.owed = o
    BY <1>5, <1>6 DEF States
<1> HIDE DEF u
<1>8. Owned(u)
    BY <1>4, <1>7 DEF Owned
<1>9. ASSUME NEW j \in Reportable
      PROVE  Cardinality(Waiting(u.chain, j, lost)) <= u.owed[j]
  <2>1. Cardinality(Waiting(t.chain, j, lost)) <= owed[j] /\ j \in Code
      BY <1>4, ApiAssumption DEF Accounted
  <2>2. CASE j # k
    <3>1. u.owed[j] = owed[j]
        BY <1>3, <1>7, <2>1, <2>2 DEF o
    <3> QED
        BY <1>7, <2>1, <3>1
  <2>3. CASE j = k
    <3> DEFINE W == Waiting(notify_chain, k, lost)
               V == Waiting(t.chain, k, lost)
    <3>1. /\ IsFiniteSet(W) /\ Cardinality(W) \in Nat /\ IsFiniteSet(V) /\ Cardinality(V) \in Nat
      <4>1. notify_chain \in Seq(Info) /\ t.chain \in Seq(Info)
          BY <1>3, <1>5 DEF States
      <4> QED
          BY <4>1, WaitingIsFinite
    <3>2. Cardinality(W) <= owed[k]
        BY <2>3, CurrentParts DEF Accounted
    <3>3. CASE W = {}
      <4>1. V = {}
          BY <1>4, <3>3 DEF Waiting
      <4>2. Cardinality(V) = 0
          BY <4>1, FS_EmptySet
      <4> QED
          BY <1>3, <1>7, <2>3, <4>2 DEF o
    <3>4. CASE W # {}
      <4>1. PICK z \in Nodes(notify_chain) : z.code = k /\ z.once /\ z.addr \notin lost
          BY <3>4 DEF Waiting
      <4>2. PICK x \in Done(k, last) : x.addr \notin lost
          BY <4>1, AnswerServes
      <4>3. x \in Nodes(notify_chain) /\ x.code = k /\ x.once
          BY ServedAre DEF Done
      <4>4. x.addr \in W
          BY <4>2, <4>3 DEF Waiting
      <4>5. V \in SUBSET (W \ {x.addr})
        <5>1. \A y \in Nodes(notify_chain) : y.addr = x.addr => y = x
          <6>1. notify_chain \in Seq(Info) /\ Unique(notify_chain)
              BY CurrentParts DEF Owned, States
          <6> QED
              BY <4>3, <6>1, NodesAre
        <5> QED
            BY <1>4, <5>1 DEF Waiting
      <4>6. IsFiniteSet(W \ {x.addr}) /\ Cardinality(W \ {x.addr}) = Cardinality(W) - 1
          BY <3>1, <4>4, FS_RemoveElement
      <4>7. Cardinality(V) <= Cardinality(W \ {x.addr})
          BY <4>5, <4>6, FS_Subset
      <4>8. u.owed[k] = owed[k] - 1
          BY <1>3, <1>7 DEF o
      <4> QED
          BY <1>3, <1>7, <2>3, <3>1, <3>2, <4>6, <4>7, <4>8
    <3> QED
        BY <3>3, <3>4
  <2> QED
      BY <2>2, <2>3
<1>10. Accounted(u, lost)
    BY <1>4, <1>7, <1>9 DEF Accounted
<1> QED
    BY <1>4, <1>7, <1>8, <1>10 DEF t, o, u

\* So does an answer of the device: as many queries end as requests.
LEMMA AnswerInv ==
    ASSUME ApiInv, NEW k \in Code, Answer(k)
    PROVE  ApiInv'
<1>1. PICK last \in LastVisited(k) : Become([Notified(k, last) EXCEPT !.owed[k] = @ - 1])
    BY DEF Answer
<1>2. owed[k] > 0 /\ server' = server /\ partial' = partial /\ alive' = alive
    BY DEF Answer
<1>3. TypeOK /\ Owned(Current) /\ Accounted(Current, orphans)
    BY InvOwned DEF ApiInv
<1> DEFINE t == Notified(k, last)
           o == [owed EXCEPT ![k] = @ - 1]
           u == [t EXCEPT !.owed = o]
<1>4. /\ Owned(u) /\ Accounted(u, orphans) /\ u.owed = o
      /\ Nodes(u.chain) \subseteq Nodes(notify_chain)
    BY <1>2, <1>3, AnswerPays
<1>5. Become(u)
  <2>1. Owned(t) /\ t.owed = owed
      BY <1>3, NotifiedKeeps
  <2> HIDE DEF t
  <2>2. [t EXCEPT !.owed[k] = @ - 1] = u
      BY <2>1 DEF Owned, States
  <2> HIDE DEF u
  <2> QED
      BY <1>1, <2>2 DEF t
<1> HIDE DEF u, t
<1>6. \A j \in Code : u.owed[j] <= MaxOwed
    BY <1>2, <1>3, <1>4, ApiAssumption DEF TypeOK
<1>7. /\ server \in [Conn -> Server \union {NoServer}] /\ alive \in BOOLEAN
      /\ partial \in [Conn -> Lines \union {NoLine}]
      /\ \A x \in Nodes(u.chain) : server[x.conn] \in Server
    BY <1>3, <1>4, InvOwned DEF TypeOK
<1> QED
    BY <1>2, <1>4, <1>5, <1>6, <1>7, BecomeInv

\* So does a report that nobody asked for.
LEMMA ReportInv ==
    ASSUME ApiInv, NEW k \in Code, Report(k)
    PROVE  ApiInv'
<1>1. PICK last \in LastVisited(k) : Become(Notified(k, last))
    BY DEF Report
<1>2. server' = server /\ partial' = partial /\ alive' = alive
    BY DEF Report
<1> DEFINE t == Notified(k, last)
<1>3. /\ Owned(t) /\ Accounted(t, orphans)
      /\ Nodes(t.chain) = Nodes(notify_chain) \ Done(k, last)
      /\ t.owed = owed
    BY InvOwned, NotifiedKeeps
<1> HIDE DEF t
<1>4. /\ server \in [Conn -> Server \union {NoServer}] /\ alive \in BOOLEAN
      /\ partial \in [Conn -> Lines \union {NoLine}]
      /\ \A j \in Code : owed[j] <= MaxOwed
    BY ApiAssumption DEF ApiInv, TypeOK
<1>5. \A x \in Nodes(t.chain) : server[x.conn] \in Server
    BY <1>3, InvOwned
<1>6. Become(t)
    BY <1>1 DEF t
<1> QED
    BY <1>2, <1>3, <1>4, <1>5, <1>6, BecomeInv

\* What happens to the connections but leaves the chain alone.
LEMMA ConnectionInv ==
    ASSUME ApiInv, Become(Current),
           server' \in [Conn -> Server \union {NoServer}],
           partial' \in [Conn -> Lines \union {NoLine}],
           alive' = alive,
           \A c \in Conn : server[c] \in Server => server'[c] \in Server
    PROVE  ApiInv'
<1>1. /\ Owned(Current) /\ Accounted(Current, orphans)
      /\ \A k \in Code : Current.owed[k] <= MaxOwed
      /\ \A x \in Nodes(Current.chain) : server'[x.conn] \in Server
    BY NothingHandled, CurrentParts
<1>2. alive' \in BOOLEAN
    BY DEF ApiInv, TypeOK
<1> QED
    BY <1>1, <1>2, BecomeInv

\* What is lost takes every query of the codes it may have been for off the account.
LEMMA LostAccounted ==
    ASSUME Owned(Current), NEW lost, Accounted(Current, lost), NEW codeSet, NEW gone,
           \A x \in Nodes(notify_chain) : x.addr \in gone <=> x.code \in codeSet,
           NEW o \in [Code -> Nat], \A k \in Code \ codeSet : owed[k] <= o[k]
    PROVE  LET t == [Current EXCEPT !.owed = o]
           IN  /\ t \in States /\ t.codes = codes /\ t.chain = notify_chain /\ t.owed = o
               /\ t.said = Silence
               /\ Owned(t) /\ Accounted(t, lost \union gone)
<1> DEFINE t == [Current EXCEPT !.owed = o]
<1>1. t \in States /\ t.codes = codes /\ t.chain = notify_chain /\ t.owed = o /\ t.said = Silence
    BY CurrentParts DEF Owned, States
<1> HIDE DEF t
<1>2. Owned(t)
    BY <1>1, CurrentParts DEF Owned
<1>3. owed \in [Code -> Nat] /\ notify_chain \in Seq(Info)
    BY CurrentParts DEF Owned, States
<1>4. ASSUME NEW k \in Reportable
      PROVE  Cardinality(Waiting(notify_chain, k, lost \union gone)) <= o[k]
  <2>1. k \in Code
      BY ApiAssumption
  <2>2. CASE k \in codeSet
    <3>1. Waiting(notify_chain, k, lost \union gone) = {}
        BY <2>2 DEF Waiting
    <3>2. Cardinality(Waiting(notify_chain, k, lost \union gone)) = 0
        BY <3>1, FS_EmptySet
    <3> QED
        BY <2>1, <3>2
  <2>3. CASE k \notin codeSet
    <3>1. Waiting(notify_chain, k, lost \union gone) = Waiting(notify_chain, k, lost)
        BY <2>3 DEF Waiting
    <3>2. Cardinality(Waiting(notify_chain, k, lost)) \in Nat
        BY <1>3, WaitingIsFinite
    <3>3. Cardinality(Waiting(notify_chain, k, lost)) <= owed[k]
        BY CurrentParts DEF Accounted
    <3> QED
        BY <1>3, <2>1, <2>3, <3>1, <3>2, <3>3
  <2> QED
      BY <2>2, <2>3
<1>5. ASSUME NEW x \in Nodes(notify_chain), NEW y \in Nodes(notify_chain),
             <<x, y>> \in Newer(notify_chain), x.code = y.code, x.addr \in lost \union gone
      PROVE  y.addr \in lost \union gone
    BY <1>5, CurrentParts DEF Accounted
<1>6. Accounted(t, lost \union gone)
    BY <1>1, <1>4, <1>5 DEF Accounted
<1> QED
    BY <1>1, <1>2, <1>6 DEF t

\* A step that loses answers and leaves the chain alone.
LEMMA LostInv ==
    ASSUME ApiInv, NEW codeSet, NEW gone \in SUBSET NodeAddrs(notify_chain),
           \A x \in Nodes(notify_chain) : x.addr \in gone <=> x.code \in codeSet,
           owed' \in [Code -> Nat], \A k \in Code \ codeSet : owed[k] <= owed'[k],
           \A k \in Code : owed'[k] <= MaxOwed,
           orphans' = orphans \union gone, said' = Silence, calls' = {},
           UNCHANGED <<disabled, server, partial, codes, notify_chain, alive>>
    PROVE  ApiInv'
<1> DEFINE lost == orphans \union gone
           t == [Current EXCEPT !.owed = owed']
<1>1. /\ TypeOK /\ Owned(Current) /\ Accounted(Current, orphans)
      /\ orphans \subseteq NodeAddrs(notify_chain)
      /\ \A x \in Nodes(notify_chain) : x \in Info /\ server[x.conn] \in Server
    BY InvOwned DEF ApiInv
<1>2. /\ t.codes = codes /\ t.chain = notify_chain /\ t.owed = owed'
      /\ Owned(t) /\ Accounted(t, lost)
  <2> DEFINE o == owed'
  <2>1. o \in [Code -> Nat] /\ \A k \in Code \ codeSet : owed[k] <= o[k]
      OBVIOUS
  <2> HIDE DEF o
  <2>2. LET u == [Current EXCEPT !.owed = o]
        IN  /\ u \in States /\ u.codes = codes /\ u.chain = notify_chain /\ u.owed = o
            /\ u.said = Silence
            /\ Owned(u) /\ Accounted(u, orphans \union gone)
      BY <1>1, <2>1, LostAccounted
  <2> QED
      BY <2>2 DEF o
<1> HIDE DEF t
<1>3. /\ orphans' = lost \intersect NodeAddrs(t.chain)
      /\ said' \in [Conn -> Seq(Replies)]
      /\ \A x \in Nodes(t.chain) : server'[x.conn] \in Server
    BY <1>1, <1>2 DEF Silence
<1>4. /\ disabled' \in [Server -> BOOLEAN] /\ server' \in [Conn -> Server \union {NoServer}]
      /\ partial' \in [Conn -> Lines \union {NoLine}] /\ alive' \in BOOLEAN
      /\ calls' \subseteq {"command", "request"}
    BY <1>1 DEF TypeOK
<1> HIDE DEF lost
<1> QED
    BY <1>2, <1>3, <1>4, OwnedInv

\* A request that ends without an answer takes every query of its code off the account.
LEMMA LoseAnswerInv ==
    ASSUME ApiInv, NEW k \in Code, LoseAnswer(k)
    PROVE  ApiInv'
<1> DEFINE gone == { notify_chain[i].addr : i \in ListenersAt(k) }
<1>1. /\ owed[k] > 0 /\ owed' = [owed EXCEPT ![k] = @ - 1]
      /\ orphans' = orphans \union gone /\ said' = Silence /\ calls' = {}
      /\ UNCHANGED <<disabled, server, partial, codes, notify_chain, alive>>
    BY DEF LoseAnswer
<1>2. owed \in [Code -> 0 .. MaxOwed] /\ MaxOwed \in Nat
    BY ApiAssumption DEF ApiInv, TypeOK
<1>3. owed' \in [Code -> Nat] /\ \A j \in Code : owed'[j] <= MaxOwed
    BY <1>1, <1>2
<1>4. \A j \in Code \ {k} : owed[j] <= owed'[j]
    BY <1>1, <1>2
<1>5. notify_chain \in Seq(Info) /\ Unique(notify_chain)
    BY InvOwned, CurrentParts DEF Owned, States
<1>6. \A x \in Nodes(notify_chain) : x.addr \in gone <=> x.code \in {k}
  <2>1. \A x \in Nodes(notify_chain) : x.code = k => x.addr \in gone
      BY DEF Nodes, ListenersAt
  <2>2. ASSUME NEW x \in Nodes(notify_chain), NEW i \in ListenersAt(k), x.addr = notify_chain[i].addr
        PROVE  x.code = k
    <3>1. notify_chain[i] \in Nodes(notify_chain) /\ notify_chain[i].code = k
        BY DEF ListenersAt, Nodes
    <3> QED
        BY <1>5, <2>2, <3>1, NodesAre
  <2> QED
      BY <2>1, <2>2
<1>7. gone \in SUBSET NodeAddrs(notify_chain)
    BY DEF NodeAddrs, ListenersAt
<1> HIDE DEF gone
<1> QED
    BY <1>1, <1>3, <1>4, <1>6, <1>7, LostInv

\* A reopening takes all of them off.
LEMMA ReopenInv ==
    ASSUME ApiInv, Reopen
    PROVE  ApiInv'
<1> DEFINE gone == NodeAddrs(notify_chain)
<1>1. /\ owed' = [k \in Code |-> 0] /\ orphans' = gone /\ said' = Silence /\ calls' = {}
      /\ UNCHANGED <<disabled, server, partial, codes, notify_chain, alive>>
    BY DEF Reopen
<1>2. owed' \in [Code -> Nat] /\ \A j \in Code : owed'[j] <= MaxOwed
    BY <1>1, ApiAssumption
<1>3. /\ orphans \subseteq gone
      /\ \A x \in Nodes(notify_chain) : x.addr \in gone /\ x.code \in Code
    BY InvOwned DEF Info, Nodes, NodeAddrs
<1> HIDE DEF gone
<1> QED
    BY <1>1, <1>2, <1>3, LostInv DEF gone

\* After a crash, or the end of the daemon, there is nothing.
LEMMA GoneInv ==
    ASSUME ApiInv, Gone
    PROVE  ApiInv'
<1> DEFINE t == [disabled |-> disabled, codes |-> [c \in Conn |-> NoTokens], chain |-> <<>>,
                 owed |-> [k \in Code |-> 0], said |-> Silence, calls |-> {}]
<1>1. t.codes \in [Conn -> [Code -> Addr \union {NoNode}]] /\ t.said \in [Conn -> Seq(Replies)]
    BY DEF NoTokens, Silence
<1>2. t \in States
  <2>1. disabled \in [Server -> BOOLEAN] /\ t.owed \in [Code -> Nat] /\ <<>> \in Seq(Info)
      BY DEF ApiInv, TypeOK
  <2> QED
      BY <1>1, <2>1 DEF States
<1>3. Nodes(t.chain) = {} /\ Unique(t.chain) /\ NodeAddrs(t.chain) = {}
    BY DEF Nodes, Unique, NodeAddrs
<1>4. Owned(t)
    BY <1>2, <1>3 DEF Owned, NoTokens
<1>5. Accounted(t, {})
  <2>1. \A k : Waiting(t.chain, k, {}) = {}
      BY <1>3 DEF Waiting
  <2>2. \A k \in Reportable : Cardinality(Waiting(t.chain, k, {})) = 0 /\ t.owed[k] = 0
      BY <2>1, FS_EmptySet, ApiAssumption
  <2> QED
      BY <1>3, <2>2 DEF Accounted
<1>6. /\ codes' = t.codes /\ notify_chain' = t.chain /\ owed' = t.owed /\ orphans' = {}
      /\ said' = t.said /\ calls' = {} /\ disabled' = disabled /\ alive' = FALSE
      /\ server' = [c \in Conn |-> NoServer] /\ partial' = [c \in Conn |-> NoLine]
    BY DEF Gone
<1>7. /\ disabled' \in [Server -> BOOLEAN]
      /\ \A k \in Code : t.owed[k] <= MaxOwed
    BY <1>6, ApiAssumption DEF ApiInv, TypeOK
<1> HIDE DEF t
<1> QED
    BY <1>1, <1>3, <1>4, <1>5, <1>6, <1>7, OwnedInv

\* Every step keeps the invariant.
LEMMA ApiNextInv == ApiInv /\ [Next]_vars => ApiInv'
<1> SUFFICES ASSUME ApiInv, [Next]_vars
             PROVE  ApiInv'
    OBVIOUS
<1>1. ASSUME NEW c \in Conn, NEW x \in Server, Accept(c, x)
      PROVE  ApiInv'
    BY <1>1, ConnectionInv, ApiAssumption DEF Accept, ApiInv, TypeOK
<1>2. ASSUME NEW c \in Conn, NEW line \in ClientLines, Receive(c, line)
      PROVE  ApiInv'
    BY <1>2, ReceiveInv, LinesAssumption
<1>3. ASSUME NEW c \in Conn, NEW line \in ClientLines, ReceivePart(c, line)
      PROVE  ApiInv'
  <2>1. line \in Lines
      BY LinesAssumption
  <2> QED
      BY <1>3, <2>1, ConnectionInv DEF ReceivePart, ApiInv, TypeOK
<1>4. ASSUME NEW c \in Conn, Hangup(c)
      PROVE  ApiInv'
    BY <1>4, HangupInv
<1>5. ASSUME NEW k \in Code, Answer(k) \/ Report(k) \/ LoseAnswer(k)
      PROVE  ApiInv'
    BY <1>5, AnswerInv, ReportInv, LoseAnswerInv
<1>6. ASSUME NEW k \in Code, Crash(k)
      PROVE  ApiInv'
    BY <1>6, GoneInv DEF Crash
<1>7. CASE Reopen
    BY <1>7, ReopenInv
<1>8. CASE Terminate
    BY <1>8, GoneInv DEF Terminate
<1>9. CASE UNCHANGED vars
  <2>1. /\ UNCHANGED <<disabled, server, partial, codes, notify_chain, owed, alive>>
        /\ UNCHANGED <<said, calls, orphans>>
      BY <1>9 DEF vars
  <2>2. TypeOK' /\ TokensOwnNodes' /\ TokenOfNode' /\ OrphansAreOldest'
      BY <2>1 DEF ApiInv, TypeOK, TokensOwnNodes, TokenOfNode, OrphansAreOldest, Open
  <2>3. QueriesAreOwed'
    <3>1. \A k : OneShotsAt(k)' = OneShotsAt(k)
        BY <2>1 DEF OneShotsAt, ListenersAt
    <3> QED
        BY <2>1, <3>1 DEF ApiInv, QueriesAreOwed
  <2> QED
      BY <2>2, <2>3 DEF ApiInv
<1> QED
    BY <1>1, <1>2, <1>3, <1>4, <1>5, <1>6, <1>7, <1>8, <1>9 DEF Next

\* Throughout: every node of the chain has its token and stands where the order of subscriptions
\* put it, and the device has a request for every query that can still be answered.
THEOREM ApiInvHolds == Spec => []ApiInv
    BY ApiInitInv, ApiNextInv, PTL DEF Spec

\* Every node of the chain has one owner, whose connection is open, and every token its
\* node (start_notify, stop_notify and the callbacks of api_serverside.cc), for any
\* number of connections, codes, serversides and addresses and every way the loop in
\* notify() may go on.
THEOREM NodesAlwaysOwned == Spec => []TokensOwnNodes
<1>1. ApiInv => TokensOwnNodes
    BY DEF ApiInv
<1> QED
    BY <1>1, ApiInvHolds, PTL

\* For every query that did not lose its answer the device has a request to answer.
THEOREM QueriesAlwaysOwed == Spec => []QueriesAreOwed
<1>1. ApiInv => QueriesAreOwed
    BY DEF ApiInv
<1> QED
    BY <1>1, ApiInvHolds, PTL

-----------------------------------------------------------------------------
(* What a step may not do. *)

\* What a report is served from.
LEMMA ReportNotifies ==
    ASSUME ApiInv, NEW k \in Code, Answer(k) \/ Report(k)
    PROVE  \E last \in LastVisited(k) :
             /\ said' = [c \in Conn |-> [n \in 1 .. Told(k, last, c) |-> "STAT"]]
             /\ calls' = {}
             /\ Nodes(notify_chain') = Nodes(notify_chain) \ Done(k, last)
             /\ notify_chain' \in Seq(Info)
<1> DEFINE t(last) == Notified(k, last)
<1>1. ASSUME NEW last
      PROVE  /\ t(last) \in States
             /\ Nodes(t(last).chain) = Nodes(notify_chain) \ Done(k, last)
             /\ t(last).calls = {} /\ t(last).chain \in Seq(Info)
             /\ t(last).said = [c \in Conn |-> [n \in 1 .. Told(k, last, c) |-> "STAT"]]
    BY InvOwned, NotifiedKeeps DEF Owned, States
<1> HIDE DEF t
<1>2. CASE Report(k)
  <2>1. PICK last \in LastVisited(k) : Become(t(last))
      BY <1>2 DEF Report, t
  <2> QED
      BY <1>1, <2>1 DEF Become
<1>3. CASE Answer(k)
  <2>1. PICK last \in LastVisited(k) : Become([t(last) EXCEPT !.owed[k] = @ - 1])
      BY <1>3 DEF Answer, t
  <2>2. t(last) \in States
      BY <1>1
  <2>3. said' = t(last).said /\ calls' = t(last).calls /\ notify_chain' = t(last).chain
      BY <2>1, <2>2 DEF Become, States
  <2> QED
      BY <1>1, <2>3
<1> QED
    BY <1>2, <1>3

\* A subscriber stands where its token's node is.
LEMMA PlaceIs ==
    ASSUME ApiInv, NEW c \in Conn, NEW k \in Code, Subscribed(c, k)
    PROVE  /\ PlaceOf(c, k) \in ListenersAt(k)
           /\ notify_chain[PlaceOf(c, k)].conn = c
<1>1. PICK i \in DOMAIN notify_chain :
          /\ notify_chain[i].addr = codes[c][k]
          /\ notify_chain[i].conn = c
          /\ notify_chain[i].code = k
    BY DEF ApiInv, TokenOfNode, Subscribed
<1>2. \A j \in DOMAIN notify_chain : notify_chain[j].addr = codes[c][k] => j = i
    BY <1>1 DEF ApiInv, TokensOwnNodes
<1>3. PlaceOf(c, k) = i
    BY <1>1, <1>2 DEF PlaceOf
<1> QED
    BY <1>1, <1>3 DEF ListenersAt

\* A report is told to its subscribers only, to none of them twice, and to all before
\* the first query of the chain, whatever notify() does from the node it frees.
THEOREM ReportsAlwaysReach == Spec => ReportsReachListeners
<1>1. ASSUME ApiInv, NEW k \in Code, Answer(k) \/ Report(k), NEW c \in Conn
      PROVE  /\ said'[c] \in {<<>>, <<"STAT">>}
             /\ said'[c] # <<>> => Subscribed(c, k)
             /\ (Subscribed(c, k) /\ \A j \in OneShotsAt(k) : PlaceOf(c, k) <= j)
                   => said'[c] = <<"STAT">>
  <2>1. PICK last \in LastVisited(k) :
            said' = [d \in Conn |-> [n \in 1 .. Told(k, last, d) |-> "STAT"]]
      BY <1>1, ReportNotifies
  <2>2. /\ Told(k, last, c) \in {0, 1}
        /\ Told(k, last, c) = 1 <=> \E x \in Served(k, last) : x.conn = c
      BY <1>1, InvOwned, ToldOnce
  <2>3. said'[c] = [n \in 1 .. Told(k, last, c) |-> "STAT"]
      BY <2>1
  <2>4. /\ Told(k, last, c) = 0 => said'[c] = <<>>
        /\ Told(k, last, c) = 1 => said'[c] = <<"STAT">>
      BY <2>3
  <2>5. said'[c] # <<>> => Subscribed(c, k)
    <3> SUFFICES ASSUME NEW x \in Served(k, last), x.conn = c
                 PROVE  Subscribed(c, k)
        BY <2>2, <2>4
    <3>1. x \in Nodes(notify_chain) /\ x \in Info /\ x.code = k
        BY <1>1, InvOwned, ServedAre
    <3>2. codes[c][k] = x.addr
        BY <1>1, <3>1, InvOwned, CurrentParts DEF Owned
    <3> QED
        BY <3>1, <3>2, ApiAssumption DEF Subscribed, Info
  <2>6. ASSUME Subscribed(c, k), \A j \in OneShotsAt(k) : PlaceOf(c, k) <= j
        PROVE  said'[c] = <<"STAT">>
    <3>1. PlaceOf(c, k) \in ListenersAt(k) /\ notify_chain[PlaceOf(c, k)].conn = c
        BY <1>1, <2>6, PlaceIs
    <3>2. PlaceOf(c, k) <= last
      <4>1. last \in OneShotsAt(k) \/ last = Len(notify_chain)
          BY DEF LastVisited
      <4>2. PlaceOf(c, k) <= Len(notify_chain)
          BY <1>1, <3>1 DEF ListenersAt, ApiInv, TypeOK
      <4> QED
          BY <2>6, <4>1, <4>2
    <3>3. notify_chain[PlaceOf(c, k)] \in Served(k, last)
        BY <3>1, <3>2 DEF Served
    <3> QED
        BY <2>2, <2>4, <3>1, <3>3
  <2> QED
      BY <2>2, <2>4, <2>5, <2>6
<1>2. ApiInv /\ [Next]_vars =>
        [ \A k \in Code : (Answer(k) \/ Report(k)) =>
          \A c \in Conn :
            /\ said'[c] \in {<<>>, <<"STAT">>}
            /\ said'[c] # <<>> => Subscribed(c, k)
            /\ (Subscribed(c, k) /\ \A j \in OneShotsAt(k) : PlaceOf(c, k) <= j)
                  => said'[c] = <<"STAT">> ]_vars
    BY <1>1
<1> QED
    BY <1>2, ApiInvHolds, PTL DEF Spec, ReportsReachListeners

\* The nodes that listen.
LEMMA ListensIs ==
    \A c, k : /\ Listens(c, k) <=>
                   \E x \in Nodes(notify_chain) : x.conn = c /\ x.code = k /\ ~x.once
              /\ Listens(c, k)' <=>
                   \E x \in Nodes(notify_chain') : x.conn = c /\ x.code = k /\ ~x.once
    BY DEF Listens, ListenersAt, Nodes

\* Whoever listens goes on listening until its own STOP or its own hangup: no query of
\* its own, no other client, no report, no reopen of the devices ends it.
THEOREM ListenersAlwaysStay == Spec => ListenersStay
<1>1. ASSUME ApiInv, Next, NEW c \in Conn, NEW k \in Code,
             Listens(c, k), ~Listens(c, k)', alive'
      PROVE  server'[c] = NoServer \/ Receive(c, [op |-> "STOP", code |-> k])
  <2>1. PICK x \in Nodes(notify_chain) : x.conn = c /\ x.code = k /\ ~x.once
      BY <1>1, ListensIs
  <2>2. ~ \E y \in Nodes(notify_chain') : y.conn = c /\ y.code = k /\ ~y.once
      BY <1>1, ListensIs
  <2>3. notify_chain' # notify_chain
      BY <2>1, <2>2
  <2>4. ASSUME NEW d \in Conn, NEW line \in ClientLines, Receive(d, line)
        PROVE  Receive(c, [op |-> "STOP", code |-> k])
    <3>1. d \in Open /\ Affordable(line) /\ line \in Lines
        BY <2>4, LinesAssumption DEF Receive
    <3>2. PICK a \in AddrsFor(line) : Become(Handle(Current, d, line, a))
        BY <2>4 DEF Receive
    <3>3. notify_chain' = Handle(Current, d, line, a).chain
        BY <3>2 DEF Become
    <3>4. \/ \E y \in Nodes(notify_chain') : y.conn = x.conn /\ y.code = x.code /\ ~y.once
          \/ x.conn = d /\ line = [op |-> "STOP", code |-> x.code]
        BY <1>1, <2>1, <3>1, <3>3, LineHandled
    <3> QED
        BY <2>1, <2>2, <2>4, <3>4
  <2>5. ASSUME NEW d \in Conn, Hangup(d)
        PROVE  server'[c] = NoServer
    <3>1. server' = [server EXCEPT ![d] = NoServer] /\ server \in [Conn -> Server \union {NoServer}]
        BY <1>1, <2>5 DEF Hangup, ApiInv, TypeOK
    <3>2. PICK s : /\ Become(Erase(s, d)) /\ Owned(s) /\ Accounted(s, orphans)
                   /\ \A y \in Nodes(notify_chain) : (~y.once /\ y.conn # d) =>
                        \E z \in Nodes(s.chain) : z.conn = y.conn /\ z.code = y.code /\ ~z.once
        BY <1>1, <2>5, HangupErases
    <3>3. Nodes(notify_chain') = { y \in Nodes(s.chain) : y.conn # d }
        BY <3>2, EraseKeeps DEF Become
    <3>4. c = d
        BY <2>1, <2>2, <3>2, <3>3
    <3> QED
        BY <3>1, <3>4
  <2>6. ASSUME NEW j \in Code, Answer(j) \/ Report(j)
        PROVE  FALSE
    <3>1. PICK last : Nodes(notify_chain') = Nodes(notify_chain) \ Done(j, last)
        BY <1>1, <2>6, ReportNotifies
    <3> QED
        BY <2>1, <2>2, <3>1 DEF Done
  <2>7. ASSUME \/ \E d \in Conn, s \in Server : Accept(d, s)
               \/ \E d \in Conn, line \in ClientLines : ReceivePart(d, line)
        PROVE  FALSE
      BY <2>3, <2>7, CurrentParts DEF Accept, ReceivePart, Become
  <2>8. ASSUME Reopen \/ Terminate \/ \E j \in Code : LoseAnswer(j) \/ Crash(j)
        PROVE  FALSE
      BY <1>1, <2>3, <2>8 DEF Reopen, LoseAnswer, Terminate, Crash, Gone
  <2> QED
      BY <1>1, <2>4, <2>5, <2>6, <2>7, <2>8 DEF Next
<1>2. ApiInv /\ [Next]_vars =>
        [ \A c \in Conn, k \in Code :
            (Listens(c, k) /\ ~Listens(c, k)' /\ alive') =>
                \/ server'[c] = NoServer
                \/ Receive(c, [op |-> "STOP", code |-> k]) ]_vars
    BY <1>1
<1> QED
    BY <1>2, ApiInvHolds, PTL DEF Spec, ListenersStay

\* Whatever other clients do, one whose server is disabled gets nothing asked of the device and
\* subscribes to nothing, not through the buffer its hangup leaves either.
THEOREM DisabledServersAlwaysIdle == Spec => DisabledServersIdle
<1> DEFINE Acts(c) == Hangup(c) \/ \E line \in ClientLines : Receive(c, line)
<1>1. \A c \in Conn : NodesOf(c) = { x.addr : x \in { y \in Nodes(notify_chain) : y.conn = c } }
    BY DEF NodesOf, Nodes
<1>2. ASSUME ApiInv, Next, NEW c \in Open, disabled[server[c]]
      PROVE  \A x \in Nodes(notify_chain') : x.conn = c => x \in Nodes(notify_chain)
  <2>1. ASSUME NEW d \in Conn, NEW line \in ClientLines, Receive(d, line)
        PROVE  \A x \in Nodes(notify_chain') : x.conn = c => x \in Nodes(notify_chain)
    <3>1. d \in Open /\ Affordable(line) /\ line \in Lines
        BY <2>1, LinesAssumption DEF Receive
    <3>2. PICK a \in AddrsFor(line) : Become(Handle(Current, d, line, a))
        BY <2>1 DEF Receive
    <3>3. notify_chain' = Handle(Current, d, line, a).chain
        BY <3>2 DEF Become
    <3>4. /\ \A x \in Nodes(notify_chain') : x \in Nodes(notify_chain) \/ x.conn = d
          /\ disabled[server[d]] => notify_chain' = notify_chain
        BY <1>2, <3>1, <3>3, LineHandled
    <3> QED
        BY <1>2, <3>4
  <2>2. ASSUME NEW d \in Conn, Hangup(d)
        PROVE  \A x \in Nodes(notify_chain') : x.conn = c => x \in Nodes(notify_chain)
    <3>1. PICK s : /\ Become(Erase(s, d)) /\ Owned(s) /\ Accounted(s, orphans)
                   /\ \A x \in Nodes(s.chain) : x \in Nodes(notify_chain) \/ x.conn = d
        BY <1>2, <2>2, HangupErases
    <3>2. Nodes(notify_chain') = { x \in Nodes(s.chain) : x.conn # d }
        BY <3>1, EraseKeeps DEF Become
    <3> QED
        BY <3>1, <3>2
  <2>3. ASSUME NEW k \in Code, Answer(k) \/ Report(k)
        PROVE  Nodes(notify_chain') \subseteq Nodes(notify_chain)
      BY <1>2, <2>3, ReportNotifies
  <2>4. ASSUME \/ \E d \in Conn, s \in Server : Accept(d, s)
               \/ \E d \in Conn, line \in ClientLines : ReceivePart(d, line)
               \/ Reopen \/ \E k \in Code : LoseAnswer(k)
        PROVE  notify_chain' = notify_chain
      BY <2>4, CurrentParts DEF Accept, ReceivePart, Become, Reopen, LoseAnswer
  <2>5. ASSUME Terminate \/ \E k \in Code : Crash(k)
        PROVE  Nodes(notify_chain') = {}
      BY <2>5 DEF Terminate, Crash, Gone, Nodes
  <2> QED
      BY <1>2, <2>1, <2>2, <2>3, <2>4, <2>5 DEF Next
<1>3. ASSUME ApiInv, NEW c \in Open, disabled[server[c]], Acts(c)
      PROVE  calls' = {}
  <2>1. ASSUME NEW line \in ClientLines, Receive(c, line)
        PROVE  calls' = {}
    <3>1. Affordable(line) /\ line \in Lines
        BY <2>1, LinesAssumption DEF Receive
    <3>2. PICK a \in AddrsFor(line) : Become(Handle(Current, c, line, a))
        BY <2>1 DEF Receive
    <3>3. Handle(Current, c, line, a).calls = {}
        BY <1>3, <3>1, LineHandled
    <3> QED
        BY <3>2, <3>3 DEF Become
  <2>2. ASSUME Hangup(c)
        PROVE  calls' = {}
    <3>1. c \in Conn
        BY DEF Open
    <3>2. PICK s : /\ Become(Erase(s, c)) /\ Owned(s) /\ Accounted(s, orphans)
                   /\ disabled[server[c]] => s.calls = {}
        BY <1>3, <2>2, <3>1, HangupErases
    <3>3. Erase(s, c).calls = s.calls
        BY <3>1, <3>2, EraseKeeps
    <3> QED
        BY <1>3, <3>2, <3>3 DEF Become
  <2> QED
      BY <1>3, <2>1, <2>2 DEF Acts
<1>4. ApiInv /\ [Next]_vars =>
        [ \A c \in Open : disabled[server[c]] =>
            /\ NodesOf(c)' \subseteq NodesOf(c)
            /\ Acts(c) => calls' = {} ]_vars
  <2> SUFFICES ASSUME ApiInv, Next, NEW c \in Open, disabled[server[c]]
               PROVE  NodesOf(c)' \subseteq NodesOf(c) /\ (Acts(c) => calls' = {})
      OBVIOUS
  <2>1. c \in Conn
      BY DEF Open
  <2>2. \A x \in Nodes(notify_chain') : x.conn = c => x \in Nodes(notify_chain)
      BY <1>2
  <2>3. NodesOf(c)' = { x.addr : x \in { y \in Nodes(notify_chain') : y.conn = c } }
      BY DEF NodesOf, Nodes
  <2> QED
      BY <1>1, <1>3, <2>1, <2>2, <2>3
<1> QED
    BY <1>4, ApiInvHolds, PTL DEF Spec, DisabledServersIdle
=============================================================================
