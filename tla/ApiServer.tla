------------------------------- MODULE ApiServer -------------------------------
(***************************************************************************)
(* The daemon's side of the client protocol (api_serverside.cc) and the    *)
(* chain of listeners of a device (status.cc).  Clients connect to a       *)
(* serverside, send lines of a four-letter command and its argument, and   *)
(* are sent a STAT line whenever the device reports a status code they     *)
(* subscribed to: once for QURY, until STOP for STRT.                      *)
(*                                                                         *)
(* A subscription is a node of the device's notify_chain, newest first,    *)
(* owned by a token in its connection's map from code to token.  The node  *)
(* of a QURY goes when it is served, that is from inside the loop over the *)
(* chain that serves it.  The loop then steps on from a freed node; what   *)
(* happens then is up to the build (AfterErase).                           *)
(*                                                                         *)
(* All serversides here serve one device.  Of the device, the module keeps *)
(* how many status requests it has still to answer; LgeStatus models how.  *)
(***************************************************************************)
EXTENDS Integers, FiniteSets, Sequences

CONSTANTS
    Conn,         \* connections a client may open
    Server,       \* serversides
    NameOf,       \* per serverside, its name; the two of a TCP port share one
    Code,         \* status codes clients ask for
    Reportable,   \* those the device knows
    Addr,         \* addresses of nodes of the chain
    NoNode,       \* a null token
    NoServer,     \* the server of a connection that is closed
    NoLine,       \* an empty input buffer
    AfterErase,   \* how the loop goes on after it freed the node it is at
    ClientLines,  \* bound: the lines clients send
    PartLines,    \* bound: those of them a client may leave without their end
    MaxOwed       \* bound: status requests per code the device has to answer

ASSUME ApiAssumption ==
    /\ NoNode \notin Addr
    /\ NoServer \notin Server
    /\ Reportable \subseteq Code
    /\ AfterErase # {} /\ AfterErase \subseteq {"continues", "stops", "crashes"}
    /\ MaxOwed \in Nat

\* What handle() can be given, with the data abstracted: QCMD, QSTS and SEND
\* do not depend on their arguments here.  "????" is a command gperf does not
\* know, "short" a line of less than four letters.
Lines ==
    [op: {"QCMD", "QSTS", "SEND", "????", "short"}]
      \union [op: {"QURY", "STRT", "STOP"}, code: Code]
      \union [op: {"SENA", "SDIS"}, name: { NameOf[s] : s \in Server }]

ASSUME LinesAssumption ==
    NoLine \notin Lines /\ ClientLines \subseteq Lines /\ PartLines \subseteq ClientLines

Replies == {"QCMD", "QSTS", "STAT", "EDIS", "ECMD"}

Info == [addr: Addr, conn: Conn, code: Code, once: BOOLEAN]

VARIABLES
    disabled,     \* per serverside; never initialised by its constructor
    server,       \* per connection, the serverside that accepted it, or NoServer
    partial,      \* per connection, buffered input with no line end yet, or NoLine
    codes,        \* per connection and code, the address its token holds, or NoNode
    notify_chain, \* the device's listeners, newest first
    owed,         \* per code, status requests the device has still to answer
    alive,        \* the daemon runs
    said,         \* history: per connection, the lines written to it in the last step
    calls,        \* history: kinds of device calls made in the last step
    orphans       \* history: nodes whose answer a reopen or a silent device lost

vars == <<disabled, server, partial, codes, notify_chain, owed, alive, said, calls, orphans>>

Open == { c \in Conn : server[c] # NoServer }

NodeAddrs(chain) == { chain[i].addr : i \in DOMAIN chain }

TypeOK ==
    /\ disabled \in [Server -> BOOLEAN]
    /\ server \in [Conn -> Server \union {NoServer}]
    /\ partial \in [Conn -> Lines \union {NoLine}]
    /\ codes \in [Conn -> [Code -> Addr \union {NoNode}]]
    /\ notify_chain \in Seq(Info)
    /\ owed \in [Code -> 0 .. MaxOwed]
    /\ alive \in BOOLEAN
    /\ said \in [Conn -> Seq(Replies)]
    /\ calls \subseteq {"command", "request"}
    /\ orphans \subseteq Addr

Silence == [c \in Conn |-> <<>>]
NoTokens == [k \in Code |-> NoNode]

Init ==
    /\ disabled \in [Server -> BOOLEAN]
    /\ server = [c \in Conn |-> NoServer]
    /\ partial = [c \in Conn |-> NoLine]
    /\ codes = [c \in Conn |-> NoTokens]
    /\ notify_chain = <<>>
    /\ owed = [k \in Code |-> 0]
    /\ alive = TRUE
    /\ said = Silence
    /\ calls = {}
    /\ orphans = {}

-----------------------------------------------------------------------------
(* What the handlers do, as functions of the part of the state they work   *)
(* on, because one callback may run several of them.                       *)

Current ==
    [ disabled |-> disabled, codes |-> codes, chain |-> notify_chain,
      owed |-> owed, said |-> Silence, calls |-> {} ]

Become(s) ==
    /\ disabled' = s.disabled
    /\ codes' = s.codes
    /\ notify_chain' = s.chain
    /\ owed' = s.owed
    /\ said' = s.said
    /\ calls' = s.calls
    /\ orphans' = orphans \intersect NodeAddrs(s.chain)

Say(s, c, reply) == [s EXCEPT !.said[c] = Append(@, reply)]

\* notify_chain.remove(): the nodes at other addresses stay, in their order.
Without(chain, addrs) ==
    LET left    == { i \in DOMAIN chain : chain[i].addr \notin addrs }
        rank(i) == Cardinality({ j \in left : j <= i })
    IN  [n \in 1 .. Cardinality(left) |-> chain[CHOOSE i \in left : rank(i) = n]]

\* The tokens that hold these addresses are destroyed: their nodes are removed.
Release(s, addrs) == [s EXCEPT !.chain = Without(@, addrs)]

\* send_status_request() knows the code or warns.
RequestStatus(s, k) ==
    IF k \in Reportable
      THEN [s EXCEPT !.owed[k] = @ + 1, !.calls = @ \union {"request"}]
      ELSE s

\* Mutants of StartNotify: the status is requested for listeners only, or a query
\* replaces whatever subscription there is.
StartNotifyQuietQuery(s, c, k, a, once, replace) ==
    LET node  == [addr |-> a, conn |-> c, code |-> k, once |-> once]
        added == Release([s EXCEPT !.chain = <<node>> \o @, !.codes[c][k] = a],
                         {s.codes[c][k]})
    IN  IF s.codes[c][k] # NoNode /\ ~replace
          THEN s
          ELSE IF once THEN added ELSE RequestStatus(added, k)

StartNotifyReplaces(s, c, k, a, once, replace) ==
    LET node  == [addr |-> a, conn |-> c, code |-> k, once |-> once]
        added == [s EXCEPT !.chain = <<node>> \o @, !.codes[c][k] = a]
    IN  RequestStatus(Release(added, {s.codes[c][k]}), k)

\* The new node goes to the front of the chain, and into the map, before the
\* token it replaces is destroyed.
StartNotify(s, c, k, a, once, replace) ==
    LET old   == s.codes[c][k]
        node  == [addr |-> a, conn |-> c, code |-> k, once |-> once]
        added == [s EXCEPT !.chain = <<node>> \o @, !.codes[c][k] = a]
    IN  IF old # NoNode /\ ~replace
          THEN s
          ELSE RequestStatus(Release(added, {old}), k)

StopNotify(s, c, k) ==
    Release([s EXCEPT !.codes[c][k] = NoNode], {s.codes[c][k]})

SetDisabled(s, name, value) ==
    [s EXCEPT !.disabled =
        [x \in Server |-> IF NameOf[x] = name THEN value ELSE @[x]]]

\* The handlers of the command table; a is the address of the node they may add.
Dispatch(s, c, line, a) ==
    CASE line.op \in {"QCMD", "QSTS"} -> Say(s, c, line.op)
      [] line.op = "SEND"  -> [s EXCEPT !.calls = @ \union {"command"}]
      [] line.op = "QURY"  -> StartNotify(s, c, line.code, a, TRUE, FALSE)
      [] line.op = "STRT"  -> StartNotify(s, c, line.code, a, FALSE, TRUE)
      [] line.op = "STOP"  -> StopNotify(s, c, line.code)
      [] line.op = "SENA"  -> SetDisabled(s, line.name, FALSE)
      [] line.op = "SDIS"  -> SetDisabled(s, line.name, TRUE)
      [] line.op = "short" -> s
      [] line.op = "????"  -> Say(s, c, "ECMD")

\* Mutant of Handle: a disabled server handles everything.
HandleDisabledToo(s, c, line, a) == Dispatch(s, c, line, a)

\* handle() of a line from connection c.
Handle(s, c, line, a) ==
    IF s.disabled[server[c]] /\ line.op # "SENA"
      THEN Say(s, c, "EDIS")
      ELSE Dispatch(s, c, line, a)

\* Mutant of Erase: the nodes stay in the chain.
EraseKeepsNodes(s, c) == [s EXCEPT !.codes[c] = NoTokens, !.said[c] = <<>>]

\* The connection is destroyed, and with it its map of tokens.
Erase(s, c) ==
    Release([s EXCEPT !.codes[c] = NoTokens, !.said[c] = <<>>],
            { s.codes[c][k] : k \in Code })

-----------------------------------------------------------------------------
(* Actions: one callback each. *)

FreeAddrs == Addr \ NodeAddrs(notify_chain)

\* Where the node goes that a line may add; the other commands need no address.
AddrsFor(line) == IF line.op \in {"QURY", "STRT"} THEN FreeAddrs ELSE {NoNode}

\* Clients do not ask for more than MaxOwed answers to a code at a time.
Affordable(line) ==
    line.op \in {"QURY", "STRT"} /\ line.code \in Reportable => owed[line.code] < MaxOwed

Accept(c, x) ==
    /\ alive
    /\ server[c] = NoServer
    /\ server' = [server EXCEPT ![c] = x]
    /\ Become(Current)
    /\ UNCHANGED <<partial, alive>>

\* readcb() finds a complete line.
Receive(c, line) ==
    /\ alive
    /\ c \in Open
    /\ partial[c] \in {NoLine, line}
    /\ Affordable(line)
    /\ \E a \in AddrsFor(line) : Become(Handle(Current, c, line, a))
    /\ partial' = [partial EXCEPT ![c] = NoLine]
    /\ UNCHANGED <<server, alive>>

\* A line has come in but for its end: evbuffer_readline leaves it in the buffer.
ReceivePart(c, line) ==
    /\ alive
    /\ c \in Open
    /\ line \in PartLines
    /\ partial[c] = NoLine
    /\ partial' = [partial EXCEPT ![c] = line]
    /\ Become(Current)
    /\ UNCHANGED <<server, alive>>

\* errorcb(): what is left in the buffer is handled as a line, then the
\* connection goes.
Hangup(c) ==
    /\ alive
    /\ c \in Open
    /\ IF partial[c] = NoLine
         THEN Become(Erase(Current, c))
         ELSE /\ Affordable(partial[c])
              /\ \E a \in AddrsFor(partial[c]) :
                    Become(Erase(Handle(Current, c, partial[c], a), c))
    /\ server' = [server EXCEPT ![c] = NoServer]
    /\ partial' = [partial EXCEPT ![c] = NoLine]
    /\ UNCHANGED alive

\* Where in the chain the listeners for a code are, and the one-shot ones.
ListenersAt(k) == { i \in DOMAIN notify_chain : notify_chain[i].code = k }
OneShotsAt(k)  == { i \in ListenersAt(k) : notify_chain[i].once }

\* The last node notify()'s loop comes to.  Serving a one-shot node frees it, and
\* the loop, which is still at that node, may go on to the one that followed it
\* or end there.
LastVisited(k) ==
    { i \in OneShotsAt(k) :
        /\ "stops" \in AfterErase
        /\ "continues" \in AfterErase \/ \A j \in OneShotsAt(k) : i <= j }
      \union { i \in {Len(notify_chain)} :
                 OneShotsAt(k) = {} \/ "continues" \in AfterErase }

\* Mutants of Notified: listeners for any code are told; the last node of the
\* chain is not reached.
NotifiedAnyCode(k, last) ==
    LET told(c) == Cardinality({ i \in 1 .. last : notify_chain[i].conn = c })
    IN  [Current EXCEPT !.said = [c \in Conn |-> [n \in 1 .. told(c) |-> "STAT"]]]

NotifiedButLast(k, last) ==
    LET told(c) == Cardinality({ i \in ListenersAt(k) :
                                   i < last /\ notify_chain[i].conn = c })
    IN  [Current EXCEPT !.said = [c \in Conn |-> [n \in 1 .. told(c) |-> "STAT"]]]

\* notify(): the listeners up to the last node visited get a STAT line, and the
\* one-shot ones among them are done.
Notified(k, last) ==
    LET served == { notify_chain[i] : i \in { j \in ListenersAt(k) : j <= last } }
        done   == { node \in served : node.once }
        told(c) == Cardinality({ node \in served : node.conn = c })
    IN  Release([ Current EXCEPT
                    !.said = [c \in Conn |-> [n \in 1 .. told(c) |-> "STAT"]],
                    !.codes = [c \in Conn |-> [j \in Code |->
                        IF \E node \in done : node.conn = c /\ node.code = j
                          THEN NoNode ELSE @[c][j]]] ],
                { node.addr : node \in done })

\* The device answers a status request for k.
Answer(k) ==
    /\ alive
    /\ owed[k] > 0
    /\ \E last \in LastVisited(k) : Become([Notified(k, last) EXCEPT !.owed[k] = @ - 1])
    /\ UNCHANGED <<server, partial, alive>>

\* The device reports k of its own accord, or as the answer to a command.
Report(k) ==
    /\ alive
    /\ k \in Reportable
    /\ \E last \in LastVisited(k) : Become(Notified(k, last))
    /\ UNCHANGED <<server, partial, alive>>

\* An answer to k never comes: nobody's query may count on it any more.
LoseAnswer(k) ==
    /\ alive
    /\ owed[k] > 0
    /\ owed' = [owed EXCEPT ![k] = @ - 1]
    /\ orphans' = orphans \union { notify_chain[i].addr : i \in ListenersAt(k) }
    /\ said' = Silence
    /\ calls' = {}
    /\ UNCHANGED <<disabled, server, partial, codes, notify_chain, alive>>

\* backend_reopen_devices(): the device's queue is gone, connections and chain stay.
Reopen ==
    /\ alive
    /\ owed' = [k \in Code |-> 0]
    /\ orphans' = NodeAddrs(notify_chain)
    /\ said' = Silence
    /\ calls' = {}
    /\ UNCHANGED <<disabled, server, partial, codes, notify_chain, alive>>

\* The loop runs into freed memory, or SIGTERM ends the daemon: either way the
\* connections, their tokens and the chain are gone.
Gone ==
    /\ alive' = FALSE
    /\ server' = [c \in Conn |-> NoServer]
    /\ partial' = [c \in Conn |-> NoLine]
    /\ codes' = [c \in Conn |-> NoTokens]
    /\ notify_chain' = <<>>
    /\ owed' = [k \in Code |-> 0]
    /\ said' = Silence
    /\ calls' = {}
    /\ orphans' = {}
    /\ UNCHANGED disabled

Crash(k) ==
    /\ alive
    /\ "crashes" \in AfterErase
    /\ k \in Reportable
    /\ OneShotsAt(k) # {}
    /\ Gone

Terminate == alive /\ Gone

Next ==
    \/ \E c \in Conn, x \in Server : Accept(c, x)
    \/ \E c \in Conn, line \in ClientLines : Receive(c, line) \/ ReceivePart(c, line)
    \/ \E c \in Conn : Hangup(c)
    \/ \E k \in Code : Answer(k) \/ Report(k) \/ LoseAnswer(k) \/ Crash(k)
    \/ Reopen
    \/ Terminate

Spec == Init /\ [][Next]_vars

-----------------------------------------------------------------------------
(* Correctness. *)

\* Every node of the chain is owned by the one token that will remove it, and its
\* callback writes to a connection that is still there; every token's node is in
\* the chain.  So neither replacing a subscription, nor serving a one-shot one, nor
\* a hangup with a command in the buffer leaves a callback into a freed connection.
TokensOwnNodes ==
    /\ \A i, j \in DOMAIN notify_chain : notify_chain[i].addr = notify_chain[j].addr => i = j
    /\ \A i \in DOMAIN notify_chain :
          /\ notify_chain[i].conn \in Open
          /\ codes[notify_chain[i].conn][notify_chain[i].code] = notify_chain[i].addr
    /\ \A c \in Conn, k \in Code :
          codes[c][k] # NoNode => codes[c][k] \in NodeAddrs(notify_chain)

\* For every pending query the device has a status request of the same code to
\* answer, however replies, other clients' subscriptions and hangups interleave:
\* no answer uses up the request of a query it does not serve.
QueriesAreOwed ==
    \A k \in Reportable :
        Cardinality({ i \in OneShotsAt(k) : notify_chain[i].addr \notin orphans }) <= owed[k]

\* The inductive invariant behind both: a token's node is the node of its connection
\* and code; and what was orphaned is older than every query of its code that was
\* not, so that the newest query, which an answer always serves, is a pending one if
\* any is.
TokenOfNode ==
    \A c \in Conn, k \in Code : codes[c][k] # NoNode =>
        \E i \in DOMAIN notify_chain :
            /\ notify_chain[i].addr = codes[c][k]
            /\ notify_chain[i].conn = c
            /\ notify_chain[i].code = k

OrphansAreOldest ==
    /\ orphans \subseteq NodeAddrs(notify_chain)
    /\ \A i, j \in DOMAIN notify_chain :
          (i < j /\ notify_chain[i].code = notify_chain[j].code
            /\ notify_chain[i].addr \in orphans) => notify_chain[j].addr \in orphans

ApiInv == TypeOK /\ TokensOwnNodes /\ TokenOfNode /\ OrphansAreOldest /\ QueriesAreOwed

Subscribed(c, k) == codes[c][k] # NoNode
Listens(c, k) == \E i \in ListenersAt(k) : notify_chain[i].conn = c /\ ~notify_chain[i].once
PlaceOf(c, k) == CHOOSE i \in DOMAIN notify_chain : notify_chain[i].addr = codes[c][k]

\* A report is told to nobody but its subscribers, to none of them twice, and to
\* all that stand in the chain before the first one-shot subscription is freed,
\* whatever the loop does after that.
ReportsReachListeners ==
    [][ \A k \in Code : (Answer(k) \/ Report(k)) =>
          \A c \in Conn :
            /\ said'[c] \in {<<>>, <<"STAT">>}
            /\ said'[c] # <<>> => Subscribed(c, k)
            /\ (Subscribed(c, k) /\ \A j \in OneShotsAt(k) : PlaceOf(c, k) <= j)
                  => said'[c] = <<"STAT">> ]_vars

\* Every client that listens to a code is told every report of it.
EveryListenerTold ==
    [][ \A k \in Code : (Answer(k) \/ Report(k)) =>
          \A c \in Conn : Listens(c, k) => said'[c] = <<"STAT">> ]_vars

\* A client that started listening is a listener until it says STOP or hangs up:
\* not its own later query, nor anything another client does, a disabling of its
\* server included, ends it or makes it one-shot.
ListenersStay ==
    [][ \A c \in Conn, k \in Code :
          (Listens(c, k) /\ ~Listens(c, k)' /\ alive') =>
              \/ server'[c] = NoServer
              \/ Receive(c, [op |-> "STOP", code |-> k]) ]_vars

\* A client whose serverside is disabled reaches the device with no line and subscribes to
\* nothing, whatever the clients of other serversides may do; a command left in the buffer at
\* a hangup is no way around it.
NodesOf(c) == { notify_chain[i].addr : i \in { j \in DOMAIN notify_chain : notify_chain[j].conn = c } }

DisabledServersIdle ==
    [][ \A c \in Open : disabled[server[c]] =>
          /\ NodesOf(c)' \subseteq NodesOf(c)
          /\ (Hangup(c) \/ \E line \in ClientLines : Receive(c, line)) => calls' = {} ]_vars

\* A query gets its answer, unless the client gives up, the answer is lost or the
\* daemon ends.
Pending(a) ==
    a \notin orphans
    /\ \E i \in DOMAIN notify_chain :
          /\ notify_chain[i].addr = a
          /\ notify_chain[i].once
          /\ notify_chain[i].code \in Reportable
QueriesAnswered == \A a \in Addr : Pending(a) ~> ~Pending(a)
=============================================================================
