------------------------------- MODULE Movactld -------------------------------
(***************************************************************************)
(* The daemon with one television: the serversides and their connections   *)
(* of module ApiServer on the driver of module LgeStatus.  A query becomes *)
(* a message on the driver's output list, is written when the rest of the  *)
(* message before it is over, and ends when the driver has found out what  *)
(* half an answer of the television is the answer to, and notifies the     *)
(* code.  A command is answered too, and its answer ends the queries of    *)
(* its code.                                                               *)
(*                                                                         *)
(* What ApiServer only counts, the requests a device owes an answer, is    *)
(* here what is on the list.  Serversides are enabled and lines come in    *)
(* whole: ApiServer has what happens if not.                               *)
(***************************************************************************)
EXTENDS LgeStatus, FiniteSets

CONSTANTS
    Conn, Server, NameOf, NoNode, NoServer, NoLine, AfterErase,    \* as in ApiServer
    ListenerNode,  \* the addresses of nodes of the chain
    ClientLines,   \* bound: the lines clients send
    MaxInflight    \* bound: clients wait while the television has so many to answer

\* An answer names the letters of one code at most.
ASSUME CodesDiffer ==
    \A c, d \in Code : FirstOf[RequestOf[c]] = FirstOf[RequestOf[d]]
                       /\ SecondOf[RequestOf[c]] = SecondOf[RequestOf[d]] => c = d

VARIABLES
    server,        \* per connection, the serverside that accepted it, or NoServer
    codes,         \* per connection and code, the address its token holds, or NoNode
    notify_chain,  \* the listeners, newest first
    said,          \* history: per connection, the lines written to it in the last step
    orphans        \* history: nodes whose answer was lost or may be taken for another one

clientVars == <<server, codes, notify_chain, said, orphans>>
daemonVars == <<lgeVars, clientVars>>

RequestsOf(k) == { i \in DOMAIN output.list : output.list[i].data = RequestOf[k] }

Api == INSTANCE ApiServer WITH
    Addr <- ListenerNode, Reportable <- Code, PartLines <- {}, MaxOwed <- Cardinality(Addr),
    disabled <- [x \in Server |-> FALSE], partial <- [c \in Conn |-> NoLine], calls <- {},
    owed <- [k \in Code |-> Cardinality(RequestsOf(k))], alive <- daemon # "exited"

DaemonInit ==
    /\ LgeInit
    /\ server = [c \in Conn |-> NoServer]
    /\ codes = [c \in Conn |-> Api!NoTokens]
    /\ notify_chain = <<>>
    /\ said = Api!Silence
    /\ orphans = {}

\* A loop that crashes is ApiServer's: here it is one more way to Terminate; and nobody
\* disables a serverside.
ASSUME DaemonAssumption ==
    /\ NoNode \notin ListenerNode /\ NoServer \notin Server
    /\ AfterErase # {} /\ AfterErase \subseteq {"continues", "stops", "crashes"}
    /\ NoLine \notin Api!Lines
    /\ ClientLines \subseteq { line \in Api!Lines : line.op \notin {"SENA", "SDIS"} }
    /\ IsFiniteSet(Addr)

\* The messages that are commands; as their letters say, they are answered like requests.
Command == Msg \ { RequestOf[k] : k \in Code }

\* What a handler, or notify(), has made of connections and chain; the answers to the
\* nodes at lost do not come.
Clients(s, lost) ==
    /\ codes' = s.codes
    /\ notify_chain' = s.chain
    /\ said' = s.said
    /\ orphans' = (IF lossless' THEN orphans \union lost ELSE ListenerNode)
                    \intersect Api!NodeAddrs(s.chain)

\* send() puts a message on the list, and the television can keep up.
DeviceSend(m) ==
    /\ Len(inflight) + Len(UnsentNodes(output)) < MaxInflight
    /\ LgeSend(m)

LgeIdle == UNCHANGED lgeVars

-----------------------------------------------------------------------------
(* The clients' side. *)

Accept(c, x) ==
    /\ daemon = "running" /\ server[c] = NoServer
    /\ server' = [server EXCEPT ![c] = x]
    /\ LgeIdle
    /\ Clients(Api!Current, {})

\* readcb() of a connection: what the handler asks of the device is send_command(), or
\* send_status_request() of the code.
Receive(c, line) ==
    /\ daemon = "running" /\ c \in Api!Open
    /\ \E a \in Api!AddrsFor(line) :
         LET s == Api!Handle(Api!Current, c, line, a)
         IN  /\ CASE "request" \in s.calls -> DeviceSend(RequestOf[line.code])
                  [] "command" \in s.calls -> \E m \in Command : DeviceSend(m)
                  [] OTHER                 -> LgeIdle
             /\ Clients(s, {})
    /\ UNCHANGED server

Hangup(c) ==
    /\ daemon = "running" /\ c \in Api!Open
    /\ server' = [server EXCEPT ![c] = NoServer]
    /\ LgeIdle
    /\ Clients(Api!Erase(Api!Current, c), {})

-----------------------------------------------------------------------------
(* The television's side. *)

ListeningAt(codeSet) ==
    { notify_chain[i].addr : i \in UNION { Api!ListenersAt(k) : k \in codeSet } }

\* The driver notifies the codes of what it takes the answer for.
Notifies(lost) ==
    IF event'.kind = "matched" /\ event'.notified # {}
      THEN \E k \in event'.notified : \E last \in Api!LastVisited(k) :
              Clients(Api!Notified(k, last), lost)
      ELSE Clients(Api!Current, lost)

TvAnswers(wellFormed) ==
    /\ Answer(wellFormed)
    /\ Notifies(IF wellFormed THEN {} ELSE ListeningAt(CodesOf(Head(inflight).data)))
    /\ UNCHANGED server

TvStrays(letter, wellFormed) ==
    /\ Stray(letter, wellFormed)
    /\ Notifies({})
    /\ UNCHANGED server

\* Nothing for the clients to see.
Unseen == Clients(Api!Current, {}) /\ UNCHANGED server

DeviceWriteTimeout == LgeWriteTimeout /\ Unseen
DeviceTick         == LgeTick /\ Unseen
DeviceEof          == LgeEof /\ Unseen
TvForgets(i)       == LoseAnswer(i) /\ Unseen

\* The connections and their nodes stay, the messages that ask for them are gone.
ReopenDevice ==
    /\ LgeReopen
    /\ Clients(Api!Current, ListenerNode)
    /\ UNCHANGED server

Terminate ==
    /\ LgeExit
    /\ server' = [c \in Conn |-> NoServer]
    /\ codes' = [c \in Conn |-> Api!NoTokens]
    /\ notify_chain' = <<>> /\ said' = Api!Silence /\ orphans' = {}

DaemonNext ==
    \/ \E c \in Conn, x \in Server : Accept(c, x)
    \/ \E c \in Conn, line \in ClientLines : Receive(c, line)
    \/ \E c \in Conn : Hangup(c)
    \/ \E wellFormed \in BOOLEAN : TvAnswers(wellFormed)
    \/ \E letter \in Letters, wellFormed \in BOOLEAN : TvStrays(letter, wellFormed)
    \/ \E i \in 1 .. Len(inflight) : TvForgets(i)
    \/ DeviceWriteTimeout
    \/ DeviceTick
    \/ DeviceEof
    \/ ReopenDevice
    \/ Terminate

\* The clock goes on, libevent runs a timer that is due, and the television answers what
\* it has read, unless its answer is lost.
DaemonSpec ==
    /\ DaemonInit /\ [][DaemonNext]_daemonVars
    /\ WF_daemonVars(DeviceTick)
    /\ WF_daemonVars(DeviceWriteTimeout)
    /\ WF_daemonVars(\E wellFormed \in BOOLEAN : TvAnswers(wellFormed))

-----------------------------------------------------------------------------
(* Correctness. *)

\* The driver and the serversides together.  What ApiServer assumes of a device this one
\* keeps: the requests on the driver's list are owed, and their answers end the queries
\* they are counted for.  Once the list is out of step no query counts on an answer.
DaemonInv ==
    /\ Inv /\ ListIsWhatTvOwes /\ Api!ApiInv
    /\ ~lossless => Api!NodeAddrs(notify_chain) \subseteq orphans

\* As long as no answer is lost, whoever subscribed to the code that the television answers,
\* to its request or to a command, is told, once, and nobody else, though the answer names
\* half of what it answers and one-shot subscriptions go while it is told.  Where the loop may
\* end at a node it freed, those in the chain up to the first one-shot subscription are told.
AnswersReachSubscribers ==
    [][ lossless /\ TvAnswers(TRUE) =>
          \A c \in Conn :
            LET asked == { k \in CodesOf(Head(inflight).data) : Api!Subscribed(c, k) }
            IN  /\ said'[c] \in {<<>>, <<"STAT">>}
                /\ said'[c] # <<>> => asked # {}
                /\ \A k \in asked :
                      (AfterErase = {"continues"} \/ \A j \in Api!OneShotsAt(k) : Api!PlaceOf(c, k) <= j)
                          => said'[c] = <<"STAT">> ]_daemonVars

\* A query ends with an answer of the television, unless the client or the daemon ends, or
\* an answer was lost, was malformed or was taken for another one since it was asked.
QueriesAnswered == Api!QueriesAnswered
=============================================================================
