---------------------------- MODULE MovactldProofs ----------------------------
(***************************************************************************)
(* The daemon with its television: the serversides' invariant on the       *)
(* driver's.  For any clients, lines, codes and messages, the requests on  *)
(* the driver's list are what ApiServer counts as owed, and an answer is   *)
(* told to all subscribers of the code it answers.                         *)
(***************************************************************************)
EXTENDS Movactld, DriverProofs, FiniteSetTheorems

P == INSTANCE ApiServerProofs WITH
    Addr <- ListenerNode, Reportable <- Code, PartLines <- {}, MaxOwed <- Cardinality(Addr),
    disabled <- [x \in Server |-> FALSE], partial <- [c \in Conn |-> NoLine], calls <- {},
    owed <- [k \in Code |-> Cardinality(RequestsOf(k))], alive <- daemon # "exited"

-----------------------------------------------------------------------------
(* The serversides in the daemon are those of module ApiServer.            *)

\* What the serversides' operators read of the daemon's state is the same in both instances.
LEMMA SameData ==
    /\ Api!Lines = P!Lines /\ Api!NoTokens = P!NoTokens /\ Api!Silence = P!Silence
    /\ Api!Open = P!Open /\ Api!Current = P!Current
    /\ \A chain : Api!NodeAddrs(chain) = P!NodeAddrs(chain)
    /\ \A line : Api!AddrsFor(line) = P!AddrsFor(line)
    /\ \A k : Api!ListenersAt(k) = P!ListenersAt(k)
    /\ \A k : Api!LastVisited(k) = P!LastVisited(k)
    /\ \A c, k : Api!Subscribed(c, k) = P!Subscribed(c, k)
    /\ \A S : Api!Cardinality(S) = Cardinality(S) /\ P!Cardinality(S) = Cardinality(S)
    /\ \A S : P!IsFiniteSet(S) = IsFiniteSet(S)
BY DEF Api!Lines, P!Lines, Api!NoTokens, P!NoTokens, Api!Silence, P!Silence, Api!Open, P!Open,
       Api!Current, P!Current, Api!NodeAddrs, P!NodeAddrs, Api!AddrsFor, P!AddrsFor,
       Api!FreeAddrs, P!FreeAddrs, Api!ListenersAt, P!ListenersAt, Api!OneShotsAt, P!OneShotsAt,
       Api!LastVisited, P!LastVisited, Api!Subscribed, P!Subscribed,
       Api!Cardinality, P!Cardinality, Cardinality, P!IsFiniteSet, IsFiniteSet

\* The handlers of api_serverside.cc and notify() of status.cc do the same in both instances.
LEMMA SameHandlers ==
    /\ \A s, c, line, a : Api!Handle(s, c, line, a) = P!Handle(s, c, line, a)
    /\ \A s, c : Api!Erase(s, c) = P!Erase(s, c)
    /\ \A k, last : Api!Notified(k, last) = P!Notified(k, last)
<1>1. \A chain, addrs : Api!Without(chain, addrs) = P!Without(chain, addrs)
    BY DEF Api!Without, P!Without, Api!Cardinality, P!Cardinality
<1>2. \A s, addrs : Api!Release(s, addrs) = P!Release(s, addrs)
    BY <1>1 DEF Api!Release, P!Release
<1>3. \A s, c, line, a : Api!Handle(s, c, line, a) = P!Handle(s, c, line, a)
    BY <1>2 DEF Api!Handle, P!Handle, Api!Dispatch, P!Dispatch, Api!Say, P!Say,
                Api!StartNotify, P!StartNotify, Api!StopNotify, P!StopNotify,
                Api!SetDisabled, P!SetDisabled, Api!RequestStatus, P!RequestStatus
<1>4. \A s, c : Api!Erase(s, c) = P!Erase(s, c)
    BY <1>2, SameData DEF Api!Erase, P!Erase
<1>5. \A k, last : Api!Notified(k, last) = P!Notified(k, last)
    BY DEF Api!Notified, P!Notified, Api!ListenersAt, P!ListenersAt, Api!Current, P!Current,
           Api!Silence, P!Silence, Api!Release, P!Release, Api!Without, P!Without,
           Api!Cardinality, P!Cardinality
<1> QED
    BY <1>3, <1>4, <1>5

\* So the invariant is the same.
LEMMA SameInvariant == Api!ApiInv <=> P!ApiInv
<1>1. Api!TypeOK <=> P!TypeOK
    BY SameData DEF Api!TypeOK, P!TypeOK, Api!Info, P!Info, Api!Replies, P!Replies
<1>2. Api!TokensOwnNodes <=> P!TokensOwnNodes
    BY SameData DEF Api!TokensOwnNodes, P!TokensOwnNodes
<1>3. Api!TokenOfNode <=> P!TokenOfNode
    BY DEF Api!TokenOfNode, P!TokenOfNode
<1>4. Api!OrphansAreOldest <=> P!OrphansAreOldest
    BY SameData DEF Api!OrphansAreOldest, P!OrphansAreOldest
<1>5. Api!QueriesAreOwed <=> P!QueriesAreOwed
    BY SameData DEF Api!QueriesAreOwed, P!QueriesAreOwed, Api!OneShotsAt, P!OneShotsAt
<1> QED
    BY <1>1, <1>2, <1>3, <1>4, <1>5 DEF Api!ApiInv, P!ApiInv

\* And it is after a step.
LEMMA SameInvariantNext == (Api!ApiInv)' <=> (P!ApiInv)'
BY SameInvariant, PTL

\* What ApiServer assumes of its constants.
LEMMA ApiAssumptions ==
    /\ NoNode \notin ListenerNode /\ NoServer \notin Server /\ Code \subseteq Code
    /\ AfterErase # {} /\ AfterErase \subseteq {"continues", "stops", "crashes"}
    /\ Cardinality(Addr) \in Nat
    /\ NoLine \notin P!Lines /\ ClientLines \subseteq P!Lines /\ {} \subseteq ClientLines
BY DaemonAssumption, SameData, FS_CardinalityType

-----------------------------------------------------------------------------
(* The requests on a list.                                                 *)

\* The places of a code's requests on a list.
RequestsIn(list, k) == { i \in DOMAIN list : list[i].data = RequestOf[k] }

\* What a list owes, per code.
OwedFor(list) == [k \in Code |-> Cardinality(RequestsIn(list, k))]

\* A list has finitely many requests of a code.
LEMMA RequestsFinite ==
    ASSUME NEW list \in Seq(Node), NEW k
    PROVE  IsFiniteSet(RequestsIn(list, k)) /\ Cardinality(RequestsIn(list, k)) \in Nat
<1>1. RequestsIn(list, k) \subseteq 1 .. Len(list) /\ Len(list) \in Nat
    BY DEF RequestsIn
<1>2. IsFiniteSet(1 .. Len(list))
    BY <1>1, FS_Interval
<1> QED
    BY <1>1, <1>2, FS_Subset, FS_CardinalityType

\* What a list owes is a number for each code.
LEMMA OwedForType ==
    ASSUME NEW list \in Seq(Node)
    PROVE  OwedFor(list) \in [Code -> Nat]
BY RequestsFinite DEF OwedFor

\* A message sent is a request more for the code it asks for.
LEMMA OneMore ==
    ASSUME NEW list \in Seq(Node), NEW node \in Node, NEW k
    PROVE  Cardinality(RequestsIn(Append(list, node), k))
              = Cardinality(RequestsIn(list, k)) + (IF node.data = RequestOf[k] THEN 1 ELSE 0)
<1> DEFINE n == Len(list) + 1
           R == RequestsIn(list, k)
           t == Append(list, node)
<1>1. /\ t \in Seq(Node) /\ DOMAIN t = 1 .. n /\ DOMAIN list = 1 .. Len(list) /\ Len(list) \in Nat
      /\ t[n] = node /\ \A i \in 1 .. Len(list) : t[i] = list[i]
    OBVIOUS
<1>2. RequestsIn(t, k) = IF node.data = RequestOf[k] THEN R \union {n} ELSE R
    BY <1>1 DEF RequestsIn
<1>3. n \notin R
    BY <1>1 DEF RequestsIn
<1>4. IsFiniteSet(R) /\ Cardinality(R) \in Nat
    BY RequestsFinite
<1>5. Cardinality(R \union {n}) = Cardinality(R) + 1
    BY <1>3, <1>4, FS_AddElement
<1> HIDE DEF R, n, t
<1>6. CASE node.data = RequestOf[k]
    BY <1>2, <1>5, <1>6 DEF t, R
<1>7. CASE node.data # RequestOf[k]
    BY <1>2, <1>4, <1>7 DEF t, R
<1> QED
    BY <1>6, <1>7

\* The oldest message retired is a request less for the code it asked for.
LEMMA OneLess ==
    ASSUME NEW list \in Seq(Node), list # <<>>, NEW k
    PROVE  Cardinality(RequestsIn(list, k))
              = Cardinality(RequestsIn(SubSeq(list, 2, Len(list)), k))
                  + (IF list[1].data = RequestOf[k] THEN 1 ELSE 0)
<1> DEFINE t == SubSeq(list, 2, Len(list))
           R == RequestsIn(list, k)
           T == RequestsIn(t, k)
           f == [i \in T |-> i + 1]
           U == R \ {1}
<1>1. /\ DOMAIN list = 1 .. Len(list) /\ Len(list) \in Nat \ {0}
      /\ DOMAIN t = 1 .. Len(list) - 1 /\ t \in Seq(Node)
      /\ \A i \in 1 .. Len(list) - 1 : t[i] = list[i + 1]
    OBVIOUS
<1>2. f \in Injection(T, U) /\ f \in Surjection(T, U)
  <2>1. \A i \in T : i \in Nat /\ i + 1 \in U
      BY <1>1 DEF RequestsIn
  <2>2. \A j \in U : j - 1 \in T /\ (j - 1) + 1 = j
      BY <1>1 DEF RequestsIn
  <2>3. f \in Injection(T, U)
      BY <2>1 DEF Injection, IsInjective
  <2>4. f \in Surjection(T, U)
    <3> HIDE DEF T, U
    <3> QED
        BY <2>1, <2>2 DEF Surjection
  <2> QED
      BY <2>3, <2>4
<1>3. IsFiniteSet(R) /\ Cardinality(R) \in Nat /\ IsFiniteSet(T) /\ Cardinality(T) \in Nat
    BY <1>1, RequestsFinite
<1>4. Cardinality(T) = Cardinality(U)
  <2>1. IsFiniteSet(U)
      BY <1>3, FS_RemoveElement
  <2> HIDE DEF T, U, f
  <2> QED
      BY <1>2, <2>1, FS_Injection
<1>5. 1 \in R <=> list[1].data = RequestOf[k]
    BY <1>1 DEF RequestsIn
<1> HIDE DEF R, T, t, f
<1>6. Cardinality(U) = IF 1 \in R THEN Cardinality(R) - 1 ELSE Cardinality(R)
    BY <1>3, FS_RemoveElement
<1> QED
    BY <1>3, <1>4, <1>5, <1>6 DEF R, T, t

\* Every message of a list is a node of its own.
LEMMA RequestsBounded ==
    ASSUME NEW o \in OutputLists, WellFormed(o), NEW k
    PROVE  Cardinality(RequestsIn(o.list, k)) <= Cardinality(Addr)
<1> DEFINE R == RequestsIn(o.list, k)
           f == [i \in R |-> o.list[i].addr]
<1>1. o.list \in Seq(Node)
    BY DEF OutputLists
<1>2. \A i \in R : i \in DOMAIN o.list /\ o.list[i].addr \in Addr
  <2>1. R \subseteq DOMAIN o.list /\ DOMAIN o.list = 1 .. Len(o.list)
      BY <1>1 DEF RequestsIn
  <2>2. \A i \in 1 .. Len(o.list) : o.list[i].addr \in Addr
      BY NodeAddr
  <2> QED
      BY <2>1, <2>2
<1>3. \A i, j \in R : o.list[i].addr = o.list[j].addr => i = j
    BY <1>2 DEF WellFormed, Distinct
<1>4. f \in Injection(R, Addr)
  <2> HIDE DEF R
  <2>1. f \in [R -> Addr] /\ \A i \in R : f[i] = o.list[i].addr
      BY <1>2
  <2> QED
      BY <1>3, <2>1 DEF Injection, IsInjective
<1>5. IsFiniteSet(Addr)
    BY DaemonAssumption
<1> HIDE DEF R, f
<1> QED
    BY <1>4, <1>5, FS_Injection DEF R

\* Requests of different codes differ.
LEMMA RequestsDiffer ==
    /\ \A c \in Code : RequestOf[c] \in Msg /\ c \in CodesOf(RequestOf[c])
    /\ \A c, d \in Code : RequestOf[c] = RequestOf[d] => c = d
    /\ \A m : \A c, d \in CodesOf(m) : c = d
BY CodesDiffer, LettersAssumption DEF CodesOf, CodesFor

\* send() of a code's request makes one more owed for that code; of a command, none.
LEMMA OwedAfterSend ==
    ASSUME NEW list \in Seq(Node), NEW node \in Node
    PROVE  /\ \A k \in Code : node.data = RequestOf[k] =>
                 OwedFor(Append(list, node)) = [OwedFor(list) EXCEPT ![k] = @ + 1]
           /\ node.data \in Command => OwedFor(Append(list, node)) = OwedFor(list)
<1> DEFINE t == Append(list, node)
<1>1. t \in Seq(Node)
    OBVIOUS
<1>2. \A k \in Code : /\ OwedFor(t)[k] = Cardinality(RequestsIn(t, k))
                      /\ OwedFor(list)[k] = Cardinality(RequestsIn(list, k))
                      /\ OwedFor(list)[k] \in Nat
    BY OwedForType DEF OwedFor
<1>3. OwedFor(t) \in [Code -> Nat] /\ OwedFor(list) \in [Code -> Nat]
    BY <1>1, OwedForType
<1>4. \A k \in Code : Cardinality(RequestsIn(t, k))
              = Cardinality(RequestsIn(list, k)) + (IF node.data = RequestOf[k] THEN 1 ELSE 0)
    BY OneMore
<1> HIDE DEF t
<1>5. ASSUME NEW k \in Code, node.data = RequestOf[k]
      PROVE  OwedFor(t) = [OwedFor(list) EXCEPT ![k] = @ + 1]
    BY <1>2, <1>3, <1>4, <1>5, RequestsDiffer
<1>6. ASSUME node.data \in Command
      PROVE  OwedFor(t) = OwedFor(list)
    BY <1>2, <1>3, <1>4, <1>6 DEF Command
<1> QED
    BY <1>5, <1>6 DEF t

\* An answer that retires the oldest message ends one request of the code it is for.
LEMMA OwedAfterAnswer ==
    ASSUME NEW list \in Seq(Node), list # <<>>
    PROVE  LET t == SubSeq(list, 2, Len(list))
           IN  /\ \A k \in Code : list[1].data = RequestOf[k] =>
                     /\ OwedFor(list)[k] > 0
                     /\ OwedFor(t) = [OwedFor(list) EXCEPT ![k] = @ - 1]
               /\ list[1].data \notin { RequestOf[k] : k \in Code } => OwedFor(t) = OwedFor(list)
<1> DEFINE t == SubSeq(list, 2, Len(list))
<1>1. t \in Seq(Node)
    OBVIOUS
<1>2. \A k \in Code : /\ OwedFor(t)[k] = Cardinality(RequestsIn(t, k))
                      /\ OwedFor(list)[k] = Cardinality(RequestsIn(list, k))
    BY DEF OwedFor
<1>3. OwedFor(t) \in [Code -> Nat] /\ OwedFor(list) \in [Code -> Nat]
    BY <1>1, OwedForType
<1>4. \A k \in Code : Cardinality(RequestsIn(list, k))
              = Cardinality(RequestsIn(t, k)) + (IF list[1].data = RequestOf[k] THEN 1 ELSE 0)
    BY OneLess
<1> HIDE DEF t
<1>5. ASSUME NEW k \in Code, list[1].data = RequestOf[k]
      PROVE  /\ OwedFor(list)[k] > 0
             /\ OwedFor(t) = [OwedFor(list) EXCEPT ![k] = @ - 1]
  <2>1. \A j \in Code : OwedFor(list)[j] = OwedFor(t)[j] + (IF j = k THEN 1 ELSE 0)
      BY <1>2, <1>4, <1>5, RequestsDiffer
  <2>2. \A j \in Code : OwedFor(list)[j] \in Nat /\ OwedFor(t)[j] \in Nat
      BY <1>3
  <2>3. \A j \in Code : OwedFor(t)[j] = IF j = k THEN OwedFor(list)[j] - 1 ELSE OwedFor(list)[j]
      BY <2>1, <2>2
  <2>4. OwedFor(list)[k] > 0
      BY <2>1, <2>2
  <2>5. OwedFor(t) = [j \in Code |-> IF j = k THEN OwedFor(list)[k] - 1 ELSE OwedFor(list)[j]]
      BY <1>3, <2>3
  <2>6. [OwedFor(list) EXCEPT ![k] = @ - 1]
           = [j \in Code |-> IF j = k THEN OwedFor(list)[k] - 1 ELSE OwedFor(list)[j]]
      BY <1>3
  <2> QED
      BY <2>4, <2>5, <2>6
<1>6. ASSUME list[1].data \notin { RequestOf[k] : k \in Code }
      PROVE  OwedFor(t) = OwedFor(list)
  <2>1. \A j \in Code : OwedFor(list)[j] = OwedFor(t)[j]
      BY <1>2, <1>3, <1>4, <1>6
  <2> QED
      BY <1>3, <2>1
<1> QED
    BY <1>5, <1>6 DEF t

\* writecb() moves send_iter only; the messages stay on the list.
LEMMA WritingKeepsTheList ==
    ASSUME NEW o \in OutputLists, WellFormed(o), WriteCb(o)
    PROVE  output'.list = o.list
BY WriteCbKeeps, ToSendAdvances

\* send() appends its message, whether it is written at once or not.
LEMMA SendAppends ==
    ASSUME Inv, NEW m \in Msg, Send(m)
    PROVE  \E node \in Node : node.data = m /\ output'.list = Append(output.list, node)
<1>1. output \in OutputLists /\ WellFormed(output)
    BY DEF Inv, TypeOK, IteratorsValid
<1>2. PICK a \in Addr \ Addrs(output) : SendOn(output, a, m)
    BY DEF Send
<1> DEFINE node == [addr |-> a, data |-> m]
           p == Push(output, node)
<1>3. node \in Node /\ node.addr \notin Addrs(output) /\ node.data = m
    BY <1>2 DEF Node
<1>4. p \in OutputLists /\ WellFormed(p) /\ p.list = Append(output.list, node)
    BY <1>1, <1>3, PushAppends
<1>5. WriteCb(p) \/ output' = p
    BY <1>2 DEF SendOn
<1>6. output'.list = p.list
    BY <1>4, <1>5, WritingKeepsTheList
<1> QED
    BY <1>3, <1>4, <1>6

-----------------------------------------------------------------------------
(* What a step makes of connections and chain.                             *)

\* A state of the clients with what a list owes.
Owing(t, list) == [t EXCEPT !.owed = OwedFor(list)]

\* The clients' part of a state, with what a list owes, is owned as before.
LEMMA OwingIs ==
    ASSUME NEW t, P!Owned(t), NEW list \in Seq(Node)
    PROVE  LET u == Owing(t, list)
           IN  /\ P!Owned(u)
               /\ u.codes = t.codes /\ u.chain = t.chain /\ u.said = t.said
               /\ u.owed = OwedFor(list)
<1>1. OwedFor(list) \in [Code -> Nat] /\ t \in P!States
    BY OwedForType DEF P!Owned
<1>2. /\ Owing(t, list) \in P!States
      /\ Owing(t, list).codes = t.codes /\ Owing(t, list).chain = t.chain
      /\ Owing(t, list).said = t.said /\ Owing(t, list).owed = OwedFor(list)
    BY <1>1 DEF Owing, P!States
<1> QED
    BY <1>2 DEF P!Owned

\* What counts the nodes that count on an answer looks at nothing but chain and requests.
LEMMA OwingAccounted ==
    ASSUME NEW t, P!Owned(t), NEW list \in Seq(Node), NEW lost, P!Accounted(t, lost),
           t.owed = OwedFor(list)
    PROVE  P!Accounted(Owing(t, list), lost)
BY OwingIs DEF P!Accounted

\* Nobody counts on an answer that all have lost.
LEMMA AllLost ==
    ASSUME NEW t, P!Owned(t), NEW lost, P!NodeAddrs(t.chain) \subseteq lost
    PROVE  P!Accounted(t, lost)
<1>1. t.chain \in Seq(P!Info) /\ t.owed \in [Code -> Nat]
    BY DEF P!Owned, P!States
<1>2. P!NodeAddrs(t.chain) = { x.addr : x \in P!Nodes(t.chain) }
    BY <1>1, P!NodesAre, ApiAssumptions
<1>3. \A k \in Code : P!Waiting(t.chain, k, lost) = {}
    BY <1>2 DEF P!Waiting
<1>4. Cardinality({}) = 0
    BY FS_EmptySet
<1>5. \A k \in Code : P!Cardinality(P!Waiting(t.chain, k, lost)) <= t.owed[k]
  <2>1. \A k \in Code : P!Cardinality(P!Waiting(t.chain, k, lost)) = 0
      BY <1>3, <1>4, SameData
  <2>2. \A k \in Code : t.owed[k] \in Nat
      BY <1>1
  <2> QED
      BY <2>1, <2>2
<1> QED
    BY <1>2, <1>5 DEF P!Accounted

\* The serversides' part of the invariant.
ClientsRight == P!ApiInv /\ (~lossless => P!NodeAddrs(notify_chain) \subseteq orphans)

\* What becomes of the clients is right, if it is of their part of the state and the
\* requests on the list.
LEMMA ClientsInv ==
    ASSUME Inv', NEW t, P!Owned(t), NEW lost, Clients(t, lost),
           lossless' => P!Accounted(Owing(t, output'.list), orphans \union lost),
           server' \in [Conn -> Server \union {NoServer}],
           \A x \in P!Nodes(t.chain) : server'[x.conn] \in Server
    PROVE  ClientsRight'
<1> DEFINE u == Owing(t, output'.list)
           gone == IF lossless' THEN orphans \union lost ELSE ListenerNode
<1>1. output' \in OutputLists /\ WellFormed(output') /\ output'.list \in Seq(Node)
    BY DEF Inv, TypeOK, IteratorsValid, OutputLists
<1>2. /\ P!Owned(u) /\ u.codes = t.codes /\ u.chain = t.chain /\ u.said = t.said
      /\ u.owed = OwedFor(output'.list)
    BY <1>1, OwingIs
<1> HIDE DEF u
<1>3. t \in P!States /\ t.chain \in Seq(P!Info) /\ P!NodeAddrs(t.chain) \subseteq ListenerNode
  <2>1. t \in P!States /\ t.chain \in Seq(P!Info)
      BY DEF P!Owned, P!States
  <2>2. \A i \in DOMAIN t.chain : t.chain[i] \in P!Info
      BY <2>1, ElementOfSeq
  <2> QED
      BY <2>1, <2>2 DEF P!NodeAddrs, P!Info
<1>4. P!Accounted(u, gone)
    BY <1>2, <1>3, AllLost DEF u
<1>5. /\ codes' = u.codes /\ notify_chain' = u.chain
      /\ orphans' = gone \intersect P!NodeAddrs(u.chain)
      /\ said' \in [Conn -> Seq(P!Replies)]
    BY <1>2, <1>3, SameData DEF Clients, P!States
<1>6. [k \in Code |-> Cardinality(RequestsOf(k))]' = u.owed
    BY <1>2 DEF OwedFor, RequestsIn, RequestsOf
<1>7. \A k \in Code : u.owed[k] <= Cardinality(Addr)
    BY <1>1, <1>2, RequestsBounded DEF OwedFor
<1>8. /\ [x \in Server |-> FALSE]' \in [Server -> BOOLEAN]
      /\ [c \in Conn |-> NoLine]' \in [Conn -> P!Lines \union {NoLine}]
      /\ (daemon # "exited")' \in BOOLEAN
      /\ {}' \subseteq {"command", "request"}
    OBVIOUS
<1>9. (P!ApiInv)'
    BY <1>2, <1>4, <1>5, <1>6, <1>7, <1>8, P!OwnedInv, ApiAssumptions
<1> QED
    BY <1>2, <1>3, <1>5, <1>9 DEF ClientsRight, P!NodeAddrs

\* The invariant, in the terms of the instance that has the theorems.
LEMMA DaemonInvIs ==
    /\ DaemonInv <=> Inv /\ ListIsWhatTvOwes /\ ClientsRight
    /\ DaemonInv' <=> Inv' /\ ListIsWhatTvOwes' /\ ClientsRight'
<1>1. DaemonInv <=> Inv /\ ListIsWhatTvOwes /\ ClientsRight
    BY SameInvariant, SameData DEF DaemonInv, ClientsRight
<1> QED
    BY <1>1, PTL

\* What the invariant says of the clients before a step.
LEMMA ClientsNow ==
    ASSUME DaemonInv
    PROVE  /\ output \in OutputLists /\ WellFormed(output) /\ output.list \in Seq(Node)
           /\ P!Owned(P!Current) /\ P!Accounted(P!Current, orphans)
           /\ P!Current.owed = OwedFor(output.list)
           /\ P!Current.owed = [k \in Code |-> Cardinality(RequestsOf(k))]
           /\ P!Current.codes = codes /\ P!Current.chain = notify_chain
           /\ P!Current.calls = {} /\ P!Current.said = P!Silence
           /\ orphans \subseteq P!NodeAddrs(notify_chain)
           /\ ~lossless => P!NodeAddrs(notify_chain) \subseteq orphans
           /\ server \in [Conn -> Server \union {NoServer}]
           /\ \A x \in P!Nodes(notify_chain) : x.conn \in Conn /\ server[x.conn] \in Server
<1>1. Inv /\ ClientsRight
    BY DaemonInvIs
<1>2. output \in OutputLists /\ WellFormed(output) /\ output.list \in Seq(Node)
    BY <1>1 DEF Inv, TypeOK, IteratorsValid, OutputLists
<1>3. P!ApiInv
    BY <1>1 DEF ClientsRight
<1>4. /\ P!Owned(P!Current) /\ P!Accounted(P!Current, orphans)
      /\ orphans \subseteq P!NodeAddrs(notify_chain)
      /\ \A x \in P!Nodes(notify_chain) : x \in P!Info /\ server[x.conn] \in Server
    BY <1>3, P!InvOwned, ApiAssumptions
<1>5. server \in [Conn -> Server \union {NoServer}]
    BY <1>3 DEF P!ApiInv, P!TypeOK
<1>6. /\ P!Current.owed = [k \in Code |-> Cardinality(RequestsOf(k))]
      /\ P!Current.codes = codes /\ P!Current.chain = notify_chain
      /\ P!Current.calls = {} /\ P!Current.said = P!Silence
    BY DEF P!Current
<1>7. P!Current.owed = OwedFor(output.list)
    BY <1>6 DEF OwedFor, RequestsIn, RequestsOf
<1> QED
    BY <1>1, <1>2, <1>4, <1>5, <1>6, <1>7 DEF ClientsRight, P!Info

-----------------------------------------------------------------------------
(* Every action keeps it.                                                  *)

\* The clients see nothing of a step that leaves the messages on the list.
LEMMA NothingSeen ==
    ASSUME DaemonInv, Inv', output'.list = output.list, Clients(Api!Current, {}),
           server' \in [Conn -> Server \union {NoServer}],
           \A c \in Conn : server[c] \in Server => server'[c] \in Server
    PROVE  ClientsRight'
<1>1. P!Accounted(Owing(P!Current, output'.list), orphans \union {})
    BY ClientsNow, OwingAccounted
<1>2. Clients(P!Current, {})
    BY SameData
<1> QED
    BY <1>1, <1>2, ClientsNow, ClientsInv

\* A connection accepted has no node yet.
LEMMA AcceptRight ==
    ASSUME DaemonInv, Inv', NEW c \in Conn, NEW x \in Server, Accept(c, x)
    PROVE  ClientsRight'
<1>1. /\ server' = [server EXCEPT ![c] = x]
      /\ output' = output
      /\ Clients(Api!Current, {})
    BY DEF Accept, LgeIdle, lgeVars
<1> QED
    BY <1>1, ClientsNow, NothingSeen

\* A timer, a tick, the end of the line or a lost answer leaves the messages on the list.
LEMMA UnseenRight ==
    ASSUME DaemonInv, Inv',
           \/ DeviceWriteTimeout
           \/ DeviceTick
           \/ DeviceEof
           \/ \E i \in 1 .. Len(inflight) : TvForgets(i)
    PROVE  ClientsRight'
<1>1. Unseen
    BY DEF DeviceWriteTimeout, DeviceTick, DeviceEof, TvForgets
<1>2. CASE DeviceWriteTimeout
  <2>1. WriteCb(output)
      BY <1>2 DEF DeviceWriteTimeout, LgeWriteTimeout, WriteTimeout
  <2>2. output'.list = output.list
      BY <2>1, ClientsNow, WritingKeepsTheList
  <2> QED
      BY <1>1, <2>2, ClientsNow, NothingSeen DEF Unseen
<1>3. CASE DeviceTick \/ DeviceEof \/ \E i \in 1 .. Len(inflight) : TvForgets(i)
  <2>1. output' = output
      BY <1>3 DEF DeviceTick, LgeTick, Tick, DeviceEof, LgeEof, Eof, TvForgets, LoseAnswer, vars
  <2> QED
      BY <1>1, <2>1, ClientsNow, NothingSeen DEF Unseen
<1> QED
    BY <1>2, <1>3

\* What a line asks of the device is on its list afterwards.
LEMMA RequestsAsked ==
    ASSUME DaemonInv, NEW c \in Conn, NEW line \in ClientLines, Receive(c, line)
    PROVE  \E a \in P!AddrsFor(line) :
             LET s == P!Handle(P!Current, c, line, a)
             IN  /\ Clients(s, {})
                 /\ \/ /\ line.code \in Code
                       /\ s.owed = [P!Current.owed EXCEPT ![line.code] = @ + 1]
                       /\ DeviceSend(RequestOf[line.code])
                    \/ /\ s.owed = P!Current.owed
                       /\ (\E m \in Command : DeviceSend(m)) \/ LgeIdle
<1>1. PICK a \in P!AddrsFor(line) :
         LET s == P!Handle(P!Current, c, line, a)
         IN  /\ CASE "request" \in s.calls -> DeviceSend(RequestOf[line.code])
                  [] "command" \in s.calls -> \E m \in Command : DeviceSend(m)
                  [] OTHER                 -> LgeIdle
             /\ Clients(s, {})
    BY SameData, SameHandlers DEF Receive
<1> DEFINE s == P!Handle(P!Current, c, line, a)
           asks     == "request" \in s.calls
           sends    == "command" \in s.calls
           request  == DeviceSend(RequestOf[line.code])
           command  == \E m \in Command : DeviceSend(m)
<1>2. (CASE asks -> request [] sends -> command [] OTHER -> LgeIdle)
    BY <1>1
<1>3. P!Current \in P!States /\ P!Current.calls = {}
    BY ClientsNow DEF P!Owned
<1>4. line \in P!Lines
    BY ApiAssumptions
<1>5. line.op \in {"QURY", "STRT"} => a \in ListenerNode
    BY <1>1 DEF P!AddrsFor, P!FreeAddrs
<1>6. /\ asks => /\ line.code \in Code /\ s.owed = [P!Current.owed EXCEPT ![line.code] = @ + 1]
                 /\ ~sends
      /\ ~asks => s.owed = P!Current.owed
    BY <1>3, <1>4, <1>5, P!HandleAsks, ApiAssumptions
<1> HIDE DEF asks, sends, request, command
<1>7. CASE asks
  <2>1. request
      BY <1>2, <1>6, <1>7
  <2> QED
      BY <1>1, <1>6, <1>7, <2>1 DEF request
<1>8. CASE ~asks
  <2>1. command \/ LgeIdle
      BY <1>2, <1>8
  <2> QED
      BY <1>1, <1>6, <1>8, <2>1 DEF command
<1> QED
    BY <1>7, <1>8

\* A line of a client: a query puts its node on the chain and its request on the list.
LEMMA ReceiveRight ==
    ASSUME DaemonInv, Inv', NEW c \in Conn, NEW line \in ClientLines, Receive(c, line)
    PROVE  ClientsRight'
<1>1. PICK a \in P!AddrsFor(line) :
         LET s == P!Handle(P!Current, c, line, a)
         IN  /\ Clients(s, {})
             /\ \/ /\ line.code \in Code
                   /\ s.owed = [P!Current.owed EXCEPT ![line.code] = @ + 1]
                   /\ DeviceSend(RequestOf[line.code])
                \/ /\ s.owed = P!Current.owed
                   /\ (\E m \in Command : DeviceSend(m)) \/ LgeIdle
    BY RequestsAsked
<1> DEFINE s == P!Handle(P!Current, c, line, a)
<1>2. c \in P!Open /\ server[c] \in Server /\ server' = server
  <2>1. c \in P!Open /\ server' = server
      BY SameData DEF Receive
  <2> QED
      BY <2>1, ClientsNow DEF P!Open
<1>3. line \in P!Lines
    BY ApiAssumptions
<1>4. line.op \in {"QURY", "STRT"} =>
          a \in ListenerNode /\ a \notin P!NodeAddrs(P!Current.chain) /\ a \notin orphans
    BY <1>1, ClientsNow DEF P!AddrsFor, P!FreeAddrs
<1> HIDE DEF s
<1>5. /\ P!Owned(s) /\ P!Accounted(s, orphans)
      /\ \A x \in P!Nodes(s.chain) : x \in P!Nodes(notify_chain) \/ x.conn = c
    BY <1>2, <1>3, <1>4, ClientsNow, P!HandleKeeps, ApiAssumptions DEF s
<1>6. output' \in OutputLists /\ output'.list \in Seq(Node)
    BY DEF Inv, TypeOK, OutputLists
<1>7. s.owed = OwedFor(output'.list)
  <2>1. ASSUME line.code \in Code, s.owed = [P!Current.owed EXCEPT ![line.code] = @ + 1],
               DeviceSend(RequestOf[line.code])
        PROVE  s.owed = OwedFor(output'.list)
    <3>1. RequestOf[line.code] \in Msg /\ Send(RequestOf[line.code])
        BY <2>1, RequestsDiffer DEF DeviceSend, LgeSend
    <3>2. PICK node \in Node : /\ node.data = RequestOf[line.code]
                               /\ output'.list = Append(output.list, node)
        BY <3>1, SendAppends, DaemonInvIs
    <3> QED
        BY <2>1, <3>2, ClientsNow, OwedAfterSend
  <2>2. ASSUME NEW m \in Command, s.owed = P!Current.owed, DeviceSend(m)
        PROVE  s.owed = OwedFor(output'.list)
    <3>1. m \in Msg /\ Send(m)
        BY <2>2 DEF Command, DeviceSend, LgeSend
    <3>2. PICK node \in Node : node.data = m /\ output'.list = Append(output.list, node)
        BY <3>1, SendAppends, DaemonInvIs
    <3> QED
        BY <2>2, <3>2, ClientsNow, OwedAfterSend
  <2>3. ASSUME s.owed = P!Current.owed, LgeIdle
        PROVE  s.owed = OwedFor(output'.list)
      BY <2>3, ClientsNow DEF LgeIdle, lgeVars
  <2> QED
      BY <1>1, <2>1, <2>2, <2>3 DEF s
<1>8. P!Accounted(Owing(s, output'.list), orphans \union {})
    BY <1>5, <1>6, <1>7, OwingAccounted
<1>9. \A x \in P!Nodes(s.chain) : server'[x.conn] \in Server
    BY <1>2, <1>5, ClientsNow
<1>10. Clients(s, {}) /\ server' \in [Conn -> Server \union {NoServer}]
    BY <1>1, <1>2, ClientsNow DEF s
<1> QED
    BY <1>5, <1>8, <1>9, <1>10, ClientsInv

\* A connection that ends takes its nodes with it; its requests stay on the list.
LEMMA HangupRight ==
    ASSUME DaemonInv, Inv', NEW c \in Conn, Hangup(c)
    PROVE  ClientsRight'
<1> DEFINE s == P!Erase(P!Current, c)
<1>1. /\ Clients(s, {}) /\ server' = [server EXCEPT ![c] = NoServer]
      /\ output' = output
    BY SameData, SameHandlers DEF Hangup, LgeIdle, lgeVars
<1> HIDE DEF s
<1>2. /\ P!Owned(s) /\ P!Accounted(s, orphans)
      /\ P!Nodes(s.chain) = { x \in P!Nodes(notify_chain) : x.conn # c }
      /\ s.owed = P!Current.owed
    BY ClientsNow, P!EraseKeeps, ApiAssumptions DEF s
<1>3. P!Accounted(Owing(s, output'.list), orphans \union {})
    BY <1>1, <1>2, ClientsNow, OwingAccounted
<1>4. /\ server' \in [Conn -> Server \union {NoServer}]
      /\ \A x \in P!Nodes(s.chain) : server'[x.conn] \in Server
    BY <1>1, <1>2, ClientsNow
<1> QED
    BY <1>1, <1>2, <1>3, <1>4, ClientsInv

\* A device reopened has lost its list: nobody counts on an answer any more.
LEMMA ReopenRight ==
    ASSUME DaemonInv, Inv', ReopenDevice
    PROVE  ClientsRight'
<1>1. Clients(P!Current, ListenerNode) /\ server' = server
    BY SameData DEF ReopenDevice
<1>2. output'.list \in Seq(Node)
    BY DEF Inv, TypeOK, OutputLists
<1>3. P!NodeAddrs(notify_chain) \subseteq ListenerNode
  <2>1. P!TypeOK
      BY DaemonInvIs DEF ClientsRight, P!ApiInv
  <2>2. \A i \in DOMAIN notify_chain : notify_chain[i] \in P!Info
      BY <2>1, ElementOfSeq DEF P!TypeOK
  <2> QED
      BY <2>2 DEF P!NodeAddrs, P!Info
<1>4. P!Accounted(Owing(P!Current, output'.list), orphans \union ListenerNode)
    BY <1>2, <1>3, ClientsNow, OwingIs, AllLost
<1> QED
    BY <1>1, <1>4, ClientsNow, ClientsInv

\* An empty list owes nothing.
LEMMA NothingOnTheList == \A k \in Code : OwedFor(EmptyOutput.list)[k] = 0
<1>1. \A k \in Code : RequestsIn(EmptyOutput.list, k) = {}
    BY DEF RequestsIn, EmptyOutput
<1> QED
    BY <1>1, FS_EmptySet DEF OwedFor

\* The daemon's end leaves no connection, no node and no message.
LEMMA TerminateRight ==
    ASSUME DaemonInv, Inv', Terminate
    PROVE  ClientsRight'
<1>1. output' = EmptyOutput /\ daemon' = "exited"
    BY DEF Terminate, LgeExit, Exit, Closed
<1>2. [k \in Code |-> Cardinality(RequestsOf(k))]' = [k \in Code |-> 0]
    BY <1>1, NothingOnTheList DEF OwedFor, RequestsIn, RequestsOf
<1>3. P!Gone
    BY <1>1, <1>2, SameData DEF P!Gone, Terminate
<1>4. (P!ApiInv)'
    BY <1>3, DaemonInvIs, P!GoneInv, ApiAssumptions DEF ClientsRight
<1>5. P!NodeAddrs(notify_chain)' = {}
    BY DEF Terminate, P!NodeAddrs
<1> QED
    BY <1>4, <1>5 DEF ClientsRight

\* When the driver notifies, the nodes that stay are some of those there were.
LEMMA WhoIsNotified ==
    ASSUME DaemonInv, NEW lost, Notifies(lost),
           event'.kind = "matched" => event'.notified \subseteq Code
    PROVE  \E t : /\ Clients(t, lost) /\ P!Owned(t)
                  /\ P!Nodes(t.chain) \subseteq P!Nodes(notify_chain)
                  /\ IF event'.kind = "matched" /\ event'.notified # {}
                       THEN \E k \in event'.notified : \E last \in P!LastVisited(k) :
                               t = P!Notified(k, last)
                       ELSE t = P!Current
<1>1. CASE event'.kind = "matched" /\ event'.notified # {}
  <2>1. PICK k \in event'.notified :
            \E last \in P!LastVisited(k) : Clients(P!Notified(k, last), lost)
      BY <1>1, SameData, SameHandlers DEF Notifies
  <2>2. k \in Code
      BY <1>1
  <2>3. PICK last \in P!LastVisited(k) : Clients(P!Notified(k, last), lost)
      BY <2>1
  <2>4. /\ P!Owned(P!Notified(k, last))
        /\ P!Nodes(P!Notified(k, last).chain) = P!Nodes(notify_chain) \ P!Done(k, last)
    <3>1. P!Owned(P!Current) /\ P!Accounted(P!Current, orphans)
        BY ClientsNow
    <3> QED
        BY <2>2, <3>1, P!NotifiedKeeps, ApiAssumptions
  <2> QED
      BY <1>1, <2>3, <2>4
<1>2. CASE ~(event'.kind = "matched" /\ event'.notified # {})
  <2>1. Clients(P!Current, lost)
      BY <1>2, SameData DEF Notifies
  <2> QED
      BY <1>2, <2>1, ClientsNow
<1> QED
    BY <1>1, <1>2

\* Where nobody counts on an answer, nobody does after a notification.
LEMMA NobodyCounts ==
    ASSUME DaemonInv, Inv', ~lossless, NEW t, P!Owned(t),
           P!Nodes(t.chain) \subseteq P!Nodes(notify_chain), NEW lost
    PROVE  P!Accounted(Owing(t, output'.list), orphans \union lost)
<1>1. output'.list \in Seq(Node)
    BY DEF Inv, TypeOK, OutputLists
<1>2. P!Owned(Owing(t, output'.list)) /\ Owing(t, output'.list).chain = t.chain
    BY <1>1, OwingIs
<1>3. P!NodeAddrs(t.chain) \subseteq P!NodeAddrs(notify_chain)
  <2>1. \A x \in P!Nodes(t.chain) : x.addr \in P!NodeAddrs(notify_chain)
      BY DEF P!Nodes, P!NodeAddrs
  <2> QED
      BY <2>1 DEF P!Nodes, P!NodeAddrs
<1> QED
    BY <1>2, <1>3, ClientsNow, AllLost

\* While no answer is lost, the television's answer takes the front of the list and is
\* for its code.
LEMMA FrontAnsweredFor ==
    ASSUME DaemonInv, lossless, NEW w \in BOOLEAN, TvAnswers(w)
    PROVE  LET m == Head(inflight).data
           IN  /\ lossless'
               /\ output.list # <<>> /\ output.list[1].data = m
               /\ output'.list = SubSeq(output.list, 2, Len(output.list))
               /\ event'.kind = "matched"
               /\ event'.notified = IF w THEN CodesOf(m) ELSE {}
<1> DEFINE m == Head(inflight).data
<1>1. Answer(w)
    BY DEF TvAnswers
<1>2. /\ inflight # <<>> /\ UpdateStatus(SecondOf[m], w, m) /\ Judge(TRUE, TRUE)
    BY <1>1 DEF Answer
<1>3. output \in OutputLists /\ WellFormed(output) /\ SentNodes(output) = inflight
    BY ClientsNow, DaemonInvIs DEF ListIsWhatTvOwes
<1>4. /\ Head(inflight) = output.list[1]
      /\ 1 \in MatchesFor(SecondOf[m]) /\ 1 \in 0 .. SentLen(output)
    BY <1>2, <1>3, FrontMatches
<1>5. RetiredBy(SecondOf[m]) = 1
    BY <1>3, <1>4, RetiredByType
<1>6. output.list # <<>>
  <2>1. 1 \in 1 .. SentLen(output) /\ SentLen(output) \in 0 .. Len(output.list)
      BY <1>3, <1>4, SentLenType DEF MatchesFor
  <2> QED
      BY <2>1
<1>7. output' = PopN(output, 1)
    BY <1>2, <1>5 DEF UpdateStatus, Packet
<1>8. event' = Matched(m, IF w THEN CodesFor(FirstOf[m], SecondOf[m]) ELSE {})
    BY <1>2, <1>4, <1>5 DEF UpdateStatus
<1>9. lossless'
    BY <1>2 DEF Judge
<1> QED
    BY <1>4, <1>6, <1>7, <1>8, <1>9 DEF PopN, Matched, CodesOf

\* An answer of the television ends as many requests of its code as it serves queries.
LEMMA AnswerRight ==
    ASSUME DaemonInv, Inv', NEW w \in BOOLEAN, TvAnswers(w)
    PROVE  ClientsRight'
<1> DEFINE m    == Head(inflight).data
           lost == IF w THEN {} ELSE ListeningAt(CodesOf(m))
           gone == ListeningAt(CodesOf(m))
           l    == output'.list
<1>1. Notifies(lost) /\ server' = server /\ Answer(w)
    BY DEF TvAnswers
<1>2. event'.kind = "matched" => event'.notified \subseteq Code
  <2>1. \E codeSet \in SUBSET Code : event' \in {Unmatched(m), Matched(m, codeSet)}
      BY <1>1 DEF Answer, UpdateStatus, CodesFor
  <2> QED
      BY <2>1 DEF Unmatched, Matched
<1>3. PICK t : /\ Clients(t, lost) /\ P!Owned(t)
               /\ P!Nodes(t.chain) \subseteq P!Nodes(notify_chain)
               /\ IF event'.kind = "matched" /\ event'.notified # {}
                    THEN \E k \in event'.notified : \E last \in P!LastVisited(k) :
                            t = P!Notified(k, last)
                    ELSE t = P!Current
    BY <1>1, <1>2, WhoIsNotified
<1> HIDE DEF lost
<1>4. /\ server' \in [Conn -> Server \union {NoServer}]
      /\ \A x \in P!Nodes(t.chain) : server'[x.conn] \in Server
    BY <1>1, <1>3, ClientsNow
<1>5. CASE ~lossless
    BY <1>3, <1>4, <1>5, NobodyCounts, ClientsInv
<1>6. CASE lossless
  <2>1. /\ output.list # <<>> /\ output.list[1].data = m
        /\ l = SubSeq(output.list, 2, Len(output.list))
        /\ event'.kind = "matched"
        /\ event'.notified = IF w THEN CodesOf(m) ELSE {}
      BY <1>6, FrontAnsweredFor
  <2>2. l \in Seq(Node) /\ output.list \in Seq(Node)
      BY ClientsNow DEF Inv, TypeOK, OutputLists
  <2> HIDE DEF m, l
  <2>3. /\ \A k \in Code : m = RequestOf[k] =>
              /\ P!Current.owed[k] > 0
              /\ OwedFor(l) = [P!Current.owed EXCEPT ![k] = @ - 1]
        /\ m \notin { RequestOf[k] : k \in Code } => OwedFor(l) = P!Current.owed
      BY <2>1, <2>2, ClientsNow, OwedAfterAnswer
  <2>4. CASE w /\ CodesOf(m) # {}
    <3>1. PICK k \in CodesOf(m) : \E last \in P!LastVisited(k) : t = P!Notified(k, last)
        BY <1>3, <2>1, <2>4
    <3>2. PICK last \in P!LastVisited(k) : t = P!Notified(k, last)
        BY <3>1
    <3>3. k \in Code /\ \A j \in Code : m = RequestOf[j] => j = k
        BY RequestsDiffer DEF CodesOf, CodesFor
    <3>4. P!Owned(P!Current) /\ P!Accounted(P!Current, orphans)
        BY ClientsNow
    <3>5. CASE m = RequestOf[k]
      <4>1. [j \in Code |-> Cardinality(RequestsOf(j))] = P!Current.owed
          BY ClientsNow
      <4>2. /\ [j \in Code |-> Cardinality(RequestsOf(j))][k] > 0
            /\ [[j \in Code |-> Cardinality(RequestsOf(j))] EXCEPT ![k] = @ - 1] = OwedFor(l)
          BY <2>3, <3>3, <3>5, <4>1
      <4>3. P!Accounted([t EXCEPT !.owed = [[j \in Code |-> Cardinality(RequestsOf(j))]
                                               EXCEPT ![k] = @ - 1]], orphans)
          BY <3>2, <3>3, <3>4, <4>2, P!AnswerPays, ApiAssumptions
      <4>4. P!Accounted(Owing(t, l), orphans)
          BY <4>2, <4>3 DEF Owing
      <4> QED
          BY <1>3, <1>4, <2>4, <4>4, ClientsInv DEF l, lost
    <3>6. CASE m # RequestOf[k]
      <4>1. OwedFor(l) = P!Current.owed
          BY <2>3, <3>3, <3>6
      <4>2. P!Accounted(t, orphans) /\ t.owed = P!Current.owed
          BY <3>2, <3>3, <3>4, ClientsNow, P!NotifiedKeeps, ApiAssumptions
      <4>3. P!Accounted(Owing(t, l), orphans)
          BY <1>3, <2>2, <4>1, <4>2, OwingAccounted
      <4> QED
          BY <1>3, <1>4, <2>4, <4>3, ClientsInv DEF l, lost
    <3> QED
        BY <3>5, <3>6
  <2>5. CASE w /\ CodesOf(m) = {}
    <3>1. t = P!Current
        BY <1>3, <2>1, <2>5
    <3>2. m \notin { RequestOf[k] : k \in Code }
        BY <2>5, RequestsDiffer
    <3>3. P!Accounted(Owing(t, l), orphans)
        BY <2>2, <2>3, <3>1, <3>2, ClientsNow, OwingAccounted
    <3> QED
        BY <1>3, <1>4, <2>5, <3>3, ClientsInv DEF l, lost
  <2>6. CASE ~w
    <3>1. t = P!Current
        BY <1>3, <2>1, <2>6
    <3>2. \A x \in P!Nodes(notify_chain) : x.addr \in gone <=> x.code \in CodesOf(m)
      <4>1. P!Unique(notify_chain)
          BY ClientsNow DEF P!Owned
      <4>2. gone = { notify_chain[i].addr :
                       i \in { j \in DOMAIN notify_chain : notify_chain[j].code \in CodesOf(m) } }
          BY SameData DEF ListeningAt, P!ListenersAt, m
      <4> QED
          BY <4>1, <4>2 DEF P!Nodes, P!Unique
    <3>3. OwedFor(l) \in [Code -> Nat]
        BY <2>2, OwedForType
    <3>4. \A k \in Code \ CodesOf(m) :
              [j \in Code |-> Cardinality(RequestsOf(j))][k] <= OwedFor(l)[k]
      <4>1. \A k \in Code \ CodesOf(m) : P!Current.owed[k] = OwedFor(l)[k]
          BY <2>3, RequestsDiffer, ClientsNow, OwedForType
      <4> QED
          BY <3>3, <4>1, ClientsNow
    <3>5. P!Owned(P!Current) /\ P!Accounted(P!Current, orphans)
        BY ClientsNow
    <3>6. P!Accounted(Owing(t, l), orphans \union gone)
        BY <3>1, <3>2, <3>3, <3>4, <3>5, P!LostAccounted, ApiAssumptions DEF Owing
    <3> QED
        BY <1>3, <1>4, <2>6, <3>6, ClientsInv DEF l, lost, m
  <2> QED
      BY <2>4, <2>5, <2>6
<1> QED
    BY <1>5, <1>6

\* A stray answer that leaves the television nothing to answer found nothing on the list.
LEMMA StrayRight ==
    ASSUME DaemonInv, Inv', NEW letter \in Letters, NEW w \in BOOLEAN, TvStrays(letter, w)
    PROVE  ClientsRight'
<1>1. /\ Notifies({}) /\ server' = server
      /\ Stray(letter, w) /\ UpdateStatus(letter, w, NoMsg)
    BY DEF TvStrays, Stray
<1>2. event'.kind = "matched" => event'.notified \subseteq Code
  <2>1. \E codeSet \in SUBSET Code : event' \in {Unmatched(NoMsg), Matched(NoMsg, codeSet)}
      BY <1>1 DEF UpdateStatus, CodesFor
  <2> QED
      BY <2>1 DEF Unmatched, Matched
<1>3. PICK t : /\ Clients(t, {}) /\ P!Owned(t)
               /\ P!Nodes(t.chain) \subseteq P!Nodes(notify_chain)
               /\ IF event'.kind = "matched" /\ event'.notified # {}
                    THEN \E k \in event'.notified : \E last \in P!LastVisited(k) :
                            t = P!Notified(k, last)
                    ELSE t = P!Current
    BY <1>1, <1>2, WhoIsNotified
<1>4. /\ server' \in [Conn -> Server \union {NoServer}]
      /\ \A x \in P!Nodes(t.chain) : server'[x.conn] \in Server
    BY <1>1, <1>3, ClientsNow
<1>5. CASE ~lossless
    BY <1>3, <1>4, <1>5, NobodyCounts, ClientsInv
<1>6. CASE lossless /\ lossless'
  <2>1. inflight = <<>>
      BY <1>1, <1>6 DEF Stray, Judge
  <2>2. SentLen(output) = 0
      BY <1>6, <2>1, ClientsNow, DaemonInvIs, NodesOf DEF ListIsWhatTvOwes
  <2>3. MatchesFor(letter) = {} /\ RetiredBy(letter) = 0
      BY <2>2 DEF MatchesFor, RetiredBy
  <2>4. t = P!Current
      BY <1>1, <1>3, <2>3 DEF UpdateStatus, Unmatched
  <2>5. output' = output
      BY <1>1, <2>3, ClientsNow, PopNIsRepeatedPop DEF UpdateStatus, Packet
  <2>6. P!Accounted(Owing(t, output'.list), orphans \union {})
      BY <2>4, <2>5, ClientsNow, OwingAccounted
  <2> QED
      BY <1>3, <1>4, <2>6, ClientsInv
<1>7. CASE ~lossless'
    BY <1>3, <1>4, <1>7, ClientsInv
<1> QED
    BY <1>5, <1>6, <1>7

-----------------------------------------------------------------------------
(* The theorems.                                                           *)

\* The driver in the daemon is the driver of module LgeStatus: what its clients make it
\* do, and when, is what LgeStatus lets it do.
LEMMA DaemonStepIsLgeStep ==
    ASSUME DaemonInv, [DaemonNext]_daemonVars
    PROVE  [LgeNext]_lgeVars
<1> USE DEF LgeNext
<1>1. ASSUME NEW c \in Conn, NEW line \in ClientLines, Receive(c, line)
      PROVE  [LgeNext]_lgeVars
  <2>1. \/ \E k \in Code : DeviceSend(RequestOf[k])
        \/ \E m \in Command : DeviceSend(m)
        \/ LgeIdle
      BY <1>1, RequestsAsked
  <2> QED
      BY <2>1, RequestsDiffer DEF LgeIdle, DeviceSend, Command
<1>2. ASSUME NEW c \in Conn, NEW x \in Server, Accept(c, x)
      PROVE  [LgeNext]_lgeVars
    BY <1>2 DEF Accept, LgeIdle
<1>3. ASSUME NEW c \in Conn, Hangup(c)
      PROVE  [LgeNext]_lgeVars
    BY <1>3 DEF Hangup, LgeIdle
<1>4. ASSUME NEW w \in BOOLEAN, TvAnswers(w)
      PROVE  [LgeNext]_lgeVars
    BY <1>4 DEF TvAnswers
<1>5. ASSUME NEW letter \in Letters, NEW w \in BOOLEAN, TvStrays(letter, w)
      PROVE  [LgeNext]_lgeVars
    BY <1>5 DEF TvStrays
<1>6. ASSUME NEW i \in 1 .. Len(inflight), TvForgets(i)
      PROVE  [LgeNext]_lgeVars
    BY <1>6 DEF TvForgets
<1>7. DeviceWriteTimeout \/ DeviceTick \/ DeviceEof \/ ReopenDevice \/ Terminate
      => [LgeNext]_lgeVars
    BY DEF DeviceWriteTimeout, DeviceTick, DeviceEof, ReopenDevice, Terminate
<1>8. UNCHANGED daemonVars => UNCHANGED lgeVars
    BY DEF daemonVars
<1> QED
    BY <1>1, <1>2, <1>3, <1>4, <1>5, <1>6, <1>7, <1>8 DEF DaemonNext

\* The daemon begins with no connection and nothing on the list.
LEMMA DaemonInitInv == DaemonInit => DaemonInv
<1> SUFFICES ASSUME DaemonInit
             PROVE  DaemonInv
    OBVIOUS
<1>1. LgeInit /\ output = EmptyOutput /\ inflight = <<>> /\ lossless /\ daemon = "starting"
    BY DEF DaemonInit, LgeInit, Init
<1>2. Inv
    BY <1>1, InitInv DEF LgeInit
<1>3. ListIsWhatTvOwes
    BY <1>1, EmptyOutputWellFormed, NodesOf DEF ListIsWhatTvOwes
<1>4. [k \in Code |-> Cardinality(RequestsOf(k))] = [k \in Code |-> 0]
    BY <1>1, NothingOnTheList DEF OwedFor, RequestsIn, RequestsOf
<1>5. P!Init
    BY <1>1, <1>4, SameData DEF P!Init, DaemonInit
<1>6. P!ApiInv
    BY <1>5, P!ApiInitInv, ApiAssumptions
<1> QED
    BY <1>1, <1>2, <1>3, <1>6, DaemonInvIs DEF ClientsRight

\* Every step of the daemon keeps the invariant.
LEMMA DaemonNextInv ==
    ASSUME DaemonInv, [DaemonNext]_daemonVars
    PROVE  DaemonInv'
<1>1. Inv /\ ListIsWhatTvOwes /\ ClientsRight /\ [LgeNext]_lgeVars
    BY DaemonInvIs, DaemonStepIsLgeStep
<1>2. Inv'
    BY <1>1, LgeStepIsDeviceStep, NextInv
<1>3. ListIsWhatTvOwes'
    BY <1>1, ListIsWhatTvOwesStep
<1>4. ASSUME UNCHANGED daemonVars
      PROVE  ClientsRight'
  <2>1. UNCHANGED P!vars
      BY <1>4 DEF P!vars, daemonVars, lgeVars, clientVars, RequestsOf
  <2>2. (P!ApiInv)'
      BY <1>1, <2>1, P!ApiNextInv, ApiAssumptions DEF ClientsRight
  <2> QED
      BY <1>1, <1>4, <2>2 DEF ClientsRight, daemonVars, lgeVars, clientVars, P!NodeAddrs
<1>5. ASSUME DaemonNext
      PROVE  ClientsRight'
  <2>1. ASSUME NEW c \in Conn, NEW x \in Server, Accept(c, x)
        PROVE  ClientsRight'
      BY <1>2, <2>1, AcceptRight
  <2>2. ASSUME NEW c \in Conn, NEW line \in ClientLines, Receive(c, line)
        PROVE  ClientsRight'
      BY <1>2, <2>2, ReceiveRight
  <2>3. ASSUME NEW c \in Conn, Hangup(c)
        PROVE  ClientsRight'
      BY <1>2, <2>3, HangupRight
  <2>4. ASSUME NEW w \in BOOLEAN, TvAnswers(w)
        PROVE  ClientsRight'
      BY <1>2, <2>4, AnswerRight
  <2>5. ASSUME NEW letter \in Letters, NEW w \in BOOLEAN, TvStrays(letter, w)
        PROVE  ClientsRight'
      BY <1>2, <2>5, StrayRight
  <2>6. CASE \/ DeviceWriteTimeout \/ DeviceTick \/ DeviceEof
             \/ \E i \in 1 .. Len(inflight) : TvForgets(i)
      BY <1>2, <2>6, UnseenRight
  <2>7. CASE ReopenDevice
      BY <1>2, <2>7, ReopenRight
  <2>8. CASE Terminate
      BY <1>2, <2>8, TerminateRight
  <2> QED
      BY <1>5, <2>1, <2>2, <2>3, <2>4, <2>5, <2>6, <2>7, <2>8 DEF DaemonNext
<1> QED
    BY <1>2, <1>3, <1>4, <1>5, DaemonInvIs

\* The daemon keeps the invariants of its driver and of its serversides: what ApiServer
\* assumes of a device, the television's driver does.
THEOREM DaemonInvHolds == DaemonSpec => []DaemonInv
<1>1. DaemonInit => DaemonInv
    BY DaemonInitInv
<1>2. DaemonInv /\ [DaemonNext]_daemonVars => DaemonInv'
    BY DaemonNextInv
<1> QED
    BY <1>1, <1>2, PTL DEF DaemonSpec

\* The driver in the daemon is the driver of module LgeStatus, whose theorems hold for it:
\* what clients make it do, and when, is among what LgeStatus has it do.
THEOREM DaemonDrivesLge == DaemonSpec => LgeSpec
<1>1. DaemonInit => LgeInit
    BY DEF DaemonInit
<1>2. DaemonInv /\ [DaemonNext]_daemonVars => [LgeNext]_lgeVars
    BY DaemonStepIsLgeStep
<1> QED
    BY <1>1, <1>2, DaemonInvHolds, PTL DEF DaemonSpec, LgeSpec

\* notify() tells each connection once for each of its nodes it gets to.
LEMMA WhoIsTold ==
    ASSUME P!Owned(P!Current), NEW lost, P!Accounted(P!Current, lost), NEW k \in Code, NEW last
    PROVE  P!Notified(k, last).said = [d \in Conn |-> [n \in 1 .. P!Told(k, last, d) |-> "STAT"]]
BY P!NotifiedKeeps, ApiAssumptions

\* As long as no answer is lost, the television's answer reaches the subscribers of the code it
\* answers, all of them or, where the loop of notify() ends at a node it freed, those up to
\* there, and nobody else.
THEOREM AnswersAlwaysReach == DaemonSpec => AnswersReachSubscribers
<1> DEFINE Asked(c) == { k \in CodesOf(Head(inflight).data) : Api!Subscribed(c, k) }
           Reached(c, k) == \/ AfterErase = {"continues"}
                            \/ \A j \in Api!OneShotsAt(k) : Api!PlaceOf(c, k) <= j
<1>1. ASSUME DaemonInv, lossless, TvAnswers(TRUE), NEW c \in Conn
      PROVE  /\ said'[c] \in {<<>>, <<"STAT">>}
             /\ said'[c] # <<>> => Asked(c) # {}
             /\ \A k \in Asked(c) : Reached(c, k) => said'[c] = <<"STAT">>
  <2> DEFINE m == Head(inflight).data
  <2>1. event'.kind = "matched" /\ event'.notified = CodesOf(m)
      BY <1>1, FrontAnsweredFor
  <2>2. CodesOf(m) \subseteq Code
      BY DEF CodesOf, CodesFor
  <2>3. Notifies({})
      BY <1>1 DEF TvAnswers
  <2>4. PICK t : /\ Clients(t, {})
                 /\ IF CodesOf(m) # {}
                      THEN \E k \in CodesOf(m) : \E last \in P!LastVisited(k) :
                              t = P!Notified(k, last)
                      ELSE t = P!Current
      BY <1>1, <2>1, <2>2, <2>3, WhoIsNotified
  <2>5. said' = t.said
      BY <2>4 DEF Clients
  <2>6. CASE CodesOf(m) = {}
      BY <2>4, <2>5, <2>6, <1>1, ClientsNow DEF P!Silence
  <2>7. CASE CodesOf(m) # {}
    <3>1. PICK k \in CodesOf(m) : \E last \in P!LastVisited(k) : t = P!Notified(k, last)
        BY <2>4, <2>7
    <3>2. PICK last \in P!LastVisited(k) : t = P!Notified(k, last)
        BY <3>1
    <3>3. k \in Code /\ CodesOf(m) = {k}
        BY <2>2, RequestsDiffer
    <3>4. P!ApiInv /\ P!Owned(P!Current) /\ P!Accounted(P!Current, orphans)
        BY <1>1, ClientsNow, DaemonInvIs DEF ClientsRight
    <3>5. t.said[c] = [n \in 1 .. P!Told(k, last, c) |-> "STAT"]
      <4>1. P!Notified(k, last).said
               = [d \in Conn |-> [n \in 1 .. P!Told(k, last, d) |-> "STAT"]]
          BY <3>3, <3>4, WhoIsTold
      <4> QED
          BY <3>2, <4>1, <1>1
    <3>6. /\ P!Told(k, last, c) \in {0, 1}
          /\ P!Told(k, last, c) = 1 <=> \E x \in P!Served(k, last) : x.conn = c
        BY <3>3, <3>4, P!ToldOnce, ApiAssumptions
    <3>7. /\ P!Told(k, last, c) = 0 => said'[c] = <<>>
          /\ P!Told(k, last, c) = 1 => said'[c] = <<"STAT">>
        BY <2>5, <3>5
    <3>8. (\E x \in P!Served(k, last) : x.conn = c) => Api!Subscribed(c, k)
      <4> SUFFICES ASSUME NEW x \in P!Served(k, last), x.conn = c
                   PROVE  codes[c][k] # NoNode
          BY DEF Api!Subscribed
      <4>1. x \in P!Nodes(notify_chain) /\ x \in P!Info /\ x.code = k
          BY <3>3, <3>4, P!ServedAre, ApiAssumptions
      <4>2. codes[c][k] = x.addr
          BY <1>1, <3>4, <4>1, ClientsNow DEF P!Owned
      <4> QED
          BY <4>1, <4>2, DaemonAssumption DEF P!Info
    <3>9. ASSUME Api!Subscribed(c, k), Reached(c, k)
          PROVE  said'[c] = <<"STAT">>
      <4> DEFINE i == P!PlaceOf(c, k)
      <4>1. i \in P!ListenersAt(k) /\ notify_chain[i].conn = c
          BY <1>1, <3>3, <3>4, <3>9, P!PlaceIs, ApiAssumptions DEF Api!Subscribed, P!Subscribed
      <4>2. i <= Len(notify_chain)
        <5>1. notify_chain \in Seq(P!Info)
            BY <1>1, <3>4, ClientsNow DEF P!Owned, P!States
        <5> QED
            BY <4>1, <5>1 DEF P!ListenersAt
      <4>3. i <= last
        <5>1. CASE AfterErase = {"continues"}
            BY <4>2, <5>1 DEF P!LastVisited
        <5>2. CASE \A j \in Api!OneShotsAt(k) : Api!PlaceOf(c, k) <= j
          <6>1. Api!OneShotsAt(k) = P!OneShotsAt(k) /\ Api!PlaceOf(c, k) = i
              BY DEF Api!OneShotsAt, P!OneShotsAt, Api!ListenersAt, P!ListenersAt, Api!PlaceOf, P!PlaceOf
          <6>2. last \in P!OneShotsAt(k) \/ last = Len(notify_chain)
              BY DEF P!LastVisited
          <6> QED
              BY <4>2, <5>2, <6>1, <6>2
        <5> QED
            BY <3>9, <5>1, <5>2
      <4>4. notify_chain[i] \in P!Served(k, last)
          BY <4>1, <4>3 DEF P!Served
      <4> QED
          BY <3>6, <3>7, <4>1, <4>4
    <3> QED
        BY <3>3, <3>6, <3>7, <3>8, <3>9
  <2> QED
      BY <2>6, <2>7
<1>2. DaemonInv /\ [DaemonNext]_daemonVars =>
        [ lossless /\ TvAnswers(TRUE) =>
            \A c \in Conn :
              LET asked == { k \in CodesOf(Head(inflight).data) : Api!Subscribed(c, k) }
              IN  /\ said'[c] \in {<<>>, <<"STAT">>}
                  /\ said'[c] # <<>> => asked # {}
                  /\ \A k \in asked :
                        (AfterErase = {"continues"} \/ \A j \in Api!OneShotsAt(k) : Api!PlaceOf(c, k) <= j)
                            => said'[c] = <<"STAT">> ]_daemonVars
    BY <1>1
<1> QED
    BY <1>2, DaemonInvHolds, PTL DEF DaemonSpec, AnswersReachSubscribers
=============================================================================
