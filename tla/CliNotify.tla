------------------------------ MODULE CliNotify ------------------------------
(***************************************************************************)
(* The client of `movactl status' and `movactl listen', cli_notify.c, with *)
(* its connection and the side of the daemon it talks to.                  *)
(*                                                                         *)
(* For each argument the client asks which of the notifications it may     *)
(* mean the server has (QSTS), reads the answer and subscribes (STRT);     *)
(* then it reads on, and a one-shot subscription ends with its first STAT. *)
(* It reads the answer through a buffer of its own, which is dropped with  *)
(* whatever else was read into it.                                         *)
(***************************************************************************)
EXTENDS Values, FiniteSets, SequencesExt

CONSTANTS
    Code,         \* codes of notifications
    Has,          \* the codes the device behind the server has
    Cases,        \* what may be on the command line, per argument the codes it may mean, and
                  \* of which kind each code is
    Says,         \* what the device may say, per kind
    NoValue,
    MaxLines,     \* bound: the device reports by itself while fewer lines are on their way
    MayDisable    \* whether other clients disable and enable the server

ASSUME CliNotifyAssumption ==
    /\ Has \subseteq Code
    /\ Cases \subseteq [args : Seq((SUBSET Code) \ {{}}) \ {<<>>}, kind : [Has -> Kind]]
    /\ \A k \in Kind : Says[k] \subseteq Saying /\ NoValue \notin Says[k]
    /\ \A k \in Kind : \E s \in Says[k] : About(k, s)
    /\ MaxLines \in Nat /\ MayDisable \in BOOLEAN

VARIABLES
    args,         \* the arguments
    kind,         \* per code, of which kind it is
    once,         \* status, and not listen
    client,       \* "ask", "reply", "listen", or how it ended
    argi,         \* arguments done
    notifies,     \* the codes subscribed to, oldest first
    toServer,     \* lines written by the client
    toClient,     \* lines written by the server
    alive,        \* the daemon runs
    disabled,     \* of the serverside
    codes,        \* the codes this connection is subscribed to
    owed,         \* per code, how often the device was asked for it and has not answered
    shown,        \* per code, the value last shown
    said,         \* history: what the device last said
    dropped,      \* history: codes whose STAT was read with a QSTS answer, and dropped
    refused,      \* history: what was answered with EDIS
    lost          \* history: an answer of the device was lost

clientVars == <<args, kind, once, client, argi, notifies, shown>>
serverVars == <<alive, disabled, codes, owed, said>>
cliVars    == <<clientVars, toServer, toClient, serverVars, dropped, refused, lost>>

Ended == {"done", "unexpected", "disabled", "no match", "ambiguous", "eof"}

Request == [op : {"QSTS"}, codes : SUBSET Code] \union [op : {"STRT", "STOP"}, code : Code]
Answer  == [op : {"QSTS"}, codes : SUBSET Code] \union [op : {"STAT"}, code : Code, val : Seq(Char)]
             \union [op : {"EDIS"}]

CliTypeOK ==
    /\ [args |-> args, kind |-> kind] \in Cases /\ argi \in 0 .. Len(args)
    /\ once \in BOOLEAN /\ disabled \in BOOLEAN /\ lost \in BOOLEAN
    /\ refused \subseteq {"QSTS", "STRT", "STOP"}
    /\ client \in {"ask", "reply", "listen"} \union Ended
    /\ notifies \in Seq(Code)
    /\ toServer \in Seq(Request) /\ toClient \in Seq(Answer)
    /\ alive \in BOOLEAN
    /\ codes \in SUBSET Code /\ owed \in [Code -> Nat] /\ dropped \in SUBSET Code
    /\ DOMAIN shown = Has /\ said \in [Has -> Saying \union {NoValue}]

CliInit ==
    /\ \E c \in Cases : args = c.args /\ kind = c.kind
    /\ once \in BOOLEAN
    /\ client = "ask" /\ argi = 0 /\ notifies = <<>>
    /\ toServer = <<>> /\ toClient = <<>>
    /\ alive = TRUE /\ disabled \in {FALSE, MayDisable}
    /\ codes = {} /\ owed = [c \in Code |-> 0]
    /\ shown = [c \in Has |-> NoValue] /\ said = [c \in Has |-> NoValue]
    /\ dropped = {} /\ refused = {} /\ lost = FALSE

-----------------------------------------------------------------------------
(* The client. *)

\* filter_notifies() asks which codes of the next argument the server has; whether the
\* write fails is not looked at.
Ask ==
    /\ client = "ask"
    /\ toServer' = Append(toServer, [op |-> "QSTS", codes |-> args[argi + 1]])
    /\ client' = "reply"
    /\ UNCHANGED <<args, kind, once, argi, notifies, shown, toClient, serverVars,
                   dropped, refused, lost>>

\* The client ends: its connection is closed, and with it go its subscriptions.
Ends(how) ==
    /\ client' = how
    /\ UNCHANGED <<argi, notifies>>
    /\ toServer' = toServer

\* start_notify(), for the one notification the argument can mean.
StartNotify(c) ==
    /\ notifies' = Append(notifies, c)
    /\ toServer' = Append(toServer, [op |-> "STRT", code |-> c])
    /\ argi' = argi + 1
    /\ client' = IF argi' = Len(args) THEN "listen" ELSE "ask"

\* filter_notifies() has a line.
FilterNotifies(line) ==
    \/ line.op = "EDIS" /\ Ends("disabled")
    \/ line.op = "STAT" /\ Ends("unexpected")
    \/ /\ line.op = "QSTS"
       /\ LET kept == line.codes \intersect args[argi + 1] IN
          \/ Cardinality(kept) = 1 /\ \E c \in kept : StartNotify(c)
          \/ kept = {} /\ Ends("no match")
          \/ Cardinality(kept) > 1 /\ Ends("ambiguous")

\* One line is read and used, and those that came with it, to the n-th, are dropped.
Reply(n) ==
    /\ client = "reply" /\ n \in 1 .. Len(toClient)
    /\ FilterNotifies(toClient[1])
    /\ toClient' = SubSeq(toClient, n + 1, Len(toClient))
    /\ dropped' = dropped \union
           { toClient[i].code : i \in {j \in 2 .. n : toClient[j].op = "STAT"} }
    /\ UNCHANGED <<args, kind, once, shown, serverVars, refused, lost>>

\* Mutant of StopNotify: the server is told at once.
StopNotifyAlways(i) ==
    /\ notifies' = RemoveAt(notifies, i)
    /\ toServer' = Append(toServer, [op |-> "STOP", code |-> notifies[i]])
    /\ client' = IF notifies' = <<>> THEN "done" ELSE client

\* stop_notify() of the i-th subscription: the server is told when it was the last of
\* its code.
StopNotify(i) ==
    /\ notifies' = RemoveAt(notifies, i)
    /\ toServer' = IF Contains(notifies', notifies[i]) THEN toServer
                   ELSE Append(toServer, [op |-> "STOP", code |-> notifies[i]])
    /\ client' = IF notifies' = <<>> THEN "done" ELSE client

\* Mutant of Matching: only the oldest subscription is looked at.
MatchingFirst(line) ==
    { i \in DOMAIN notifies : i = 1 /\ line.op = "STAT" /\ notifies[i] = line.code }

\* The subscriptions a line is for.
Matching(line) ==
    { i \in DOMAIN notifies : line.op = "STAT" /\ notifies[i] = line.code }

\* The loop of cli_notify() has a line: a STAT of a code it subscribed to is shown, and
\* ends the first of its one-shots; every other line is passed over.
Listen ==
    /\ client = "listen" /\ toClient # <<>>
    /\ toClient' = Tail(toClient)
    /\ LET for == Matching(toClient[1]) IN
       /\ shown' = IF for = {} THEN shown ELSE
             [shown EXCEPT ![toClient[1].code] = Shows(kind[toClient[1].code], toClient[1].val)]
       /\ \/ once /\ \E i \in for : (\A j \in for : i <= j) /\ StopNotify(i)
          \/ (~once \/ for = {}) /\ UNCHANGED <<notifies, toServer, client>>
    /\ UNCHANGED <<args, kind, once, argi, serverVars, dropped, refused, lost>>

\* The daemon is gone: a write raises SIGPIPE, a read gives the end of file or an error.
\* While the client waits for an answer to QSTS it does not notice.
Eof ==
    /\ ~alive /\ client \in {"ask", "listen"}
    /\ client' = "eof"
    /\ UNCHANGED <<args, kind, once, argi, notifies, shown, toServer, toClient, serverVars,
                   dropped, refused, lost>>

-----------------------------------------------------------------------------
(* The daemon, as long as the connection is there. *)

Connected == alive /\ client \notin Ended

\* api_ss_conn::handle has a line; a STRT makes the device be asked for the status.
Handle ==
    /\ Connected /\ toServer # <<>>
    /\ toServer' = Tail(toServer)
    /\ LET line == toServer[1] IN
       \/ /\ disabled
          /\ toClient' = Append(toClient, [op |-> "EDIS"])
          /\ refused' = refused \union {line.op}
          /\ UNCHANGED <<codes, owed>>
       \/ /\ ~disabled /\ line.op = "QSTS"
          /\ toClient' = Append(toClient, [op |-> "QSTS", codes |-> line.codes \intersect Has])
          /\ UNCHANGED <<codes, owed, refused>>
       \/ /\ ~disabled /\ line.op = "STRT"
          /\ codes' = codes \union {line.code}
          /\ owed' = [owed EXCEPT ![line.code] = @ + 1]
          /\ UNCHANGED <<toClient, refused>>
       \/ /\ ~disabled /\ line.op = "STOP"
          /\ codes' = codes \ {line.code}
          /\ UNCHANGED <<toClient, owed, refused>>
    /\ UNCHANGED <<clientVars, alive, disabled, said, dropped, lost>>

\* The device says something, of c if it is about that: the update function reads it, and
\* notify_cb of the connection, if it is subscribed, writes it.
Tell(c, s) ==
    /\ said' = IF About(kind[c], s) THEN [said EXCEPT ![c] = s] ELSE said
    /\ toClient' = IF c \notin codes \/ ~Notified(kind[c], s) THEN toClient
                   ELSE Append(toClient, [op |-> "STAT", code |-> c,
                                          val |-> Payload(kind[c], Value(kind[c], s))])

\* The device answers what it was asked.
DeviceAnswers(c) ==
    /\ Connected /\ owed[c] > 0
    /\ owed' = [owed EXCEPT ![c] = @ - 1]
    /\ \E s \in Says[kind[c]] : About(kind[c], s) /\ Tell(c, s)
    /\ UNCHANGED <<clientVars, toServer, alive, disabled, codes, dropped, refused, lost>>

\* It does not, or its answer is lost.
LoseAnswer(c) ==
    /\ Connected /\ owed[c] > 0
    /\ owed' = [owed EXCEPT ![c] = @ - 1]
    /\ lost' = TRUE
    /\ UNCHANGED <<clientVars, toServer, toClient, alive, disabled, codes, said, dropped, refused>>

\* The status changes, and the device says so by itself.
Report(c) ==
    /\ Connected /\ c \in codes /\ Len(toClient) < MaxLines
    /\ \E s \in Says[kind[c]] : Tell(c, s)
    /\ UNCHANGED <<clientVars, toServer, alive, disabled, codes, owed, dropped, refused, lost>>

\* Another client disables or enables the server.
SetDisabled ==
    /\ Connected /\ MayDisable
    /\ disabled' = ~disabled
    /\ UNCHANGED <<clientVars, toServer, toClient, alive, codes, owed, said,
                   dropped, refused, lost>>

\* The daemon ends, and what it has not written with it.
DaemonEnds ==
    /\ alive /\ client \notin Ended
    /\ alive' = FALSE
    /\ UNCHANGED <<clientVars, toServer, toClient, disabled, codes, owed, said,
                   dropped, refused, lost>>

CliNext ==
    \/ Ask
    \/ \E n \in 1 .. Len(toClient) : Reply(n)
    \/ Listen
    \/ Eof
    \/ Handle
    \/ \E c \in Has : DeviceAnswers(c) \/ LoseAnswer(c) \/ Report(c)
    \/ SetDisabled
    \/ DaemonEnds

CliSpec == CliInit /\ [][CliNext]_cliVars

\* Client and daemon run, and an answer the device owes comes or is lost.
CliFairSpec ==
    /\ CliSpec
    /\ WF_cliVars(Ask)
    /\ WF_cliVars(\E n \in 1 .. Len(toClient) : Reply(n))
    /\ WF_cliVars(Listen)
    /\ WF_cliVars(Eof)
    /\ WF_cliVars(Handle)
    /\ \A c \in Has : WF_cliVars(DeviceAnswers(c) \/ LoseAnswer(c))

-----------------------------------------------------------------------------
(* Correctness. *)

\* With one argument there is nothing to be mistaken for the answer or dropped with it.
Several == Len(args) > 1

\* Once the server has read all lines it is subscribed to what the client waits for, neither
\* less nor more, though codes may be given twice, and STAT and STOP cross.
SubscribedWhileWaiting ==
    client = "listen" /\ Connected /\ toServer = <<>> /\ refused = {} => codes = ToSet(notifies)

\* A value as far as 24 bits hold it.
Held(k, v) == IF k = "string" THEN v ELSE Clipped(v)

\* When the client has read all there is, it has shown of every code it still listens to the
\* value the driver made of the last that the device said, as far as 24 bits hold it: none is
\* mistaken for that of another code, shown late, or changed between driver and terminal.
ShowsTheLatest ==
    client = "listen" /\ Connected /\ toClient = <<>> =>
        \A c \in ToSet(notifies) \ (IF Several THEN dropped ELSE {}) :
            \/ kind[c] = "silent"
            \/ said[c] = NoValue /\ shown[c] = NoValue
            \/ said[c] # NoValue /\ shown[c] = Held(kind[c], Value(kind[c], said[c]))

\* What makes both so.  The lines about c that are on their way: the last that the client
\* wrote is in accordance with what it waits for, and if there is none the server is.
Tells(c) == { i \in DOMAIN toServer : toServer[i].op \in {"STRT", "STOP"} /\ toServer[i].code = c }
Stats(c) == { i \in DOMAIN toClient : toClient[i].op = "STAT" /\ toClient[i].code = c }

IsLast(i, places) == i \in places /\ \A j \in places : j <= i

SubscriptionsFollow ==
    refused = {} => \A c \in Code :
        /\ Tells(c) = {} => (c \in codes <=> c \in ToSet(notifies))
        /\ \A i \in Tells(c) :
              IsLast(i, Tells(c)) => (toServer[i].op = "STRT" <=> c \in ToSet(notifies))

\* Until the client has asked for everything, nothing is known of what it has not subscribed
\* to; and what it waits for is not stopped, nor is the device asked for it in vain.
Untouched(c) ==
    /\ Tells(c) = {} /\ Stats(c) = {} /\ c \notin codes /\ owed[c] = 0
    /\ said[c] = NoValue /\ shown[c] = NoValue

Asking ==
    client \in {"ask", "reply"} =>
        /\ argi < Len(args) /\ Len(notifies) = argi
        /\ \A c \in Has \ ToSet(notifies) : Untouched(c)

Steady ==
    \A c \in ToSet(notifies) :
        /\ \A i \in Tells(c) : toServer[i].op = "STRT"
        /\ owed[c] > 0 => c \in codes

\* The last line about c that was written to the client is what the device last said of it.
LatestUnderWay ==
    client \notin Ended =>
        \A c \in ToSet(notifies) \ (IF Several THEN dropped ELSE {}) :
            kind[c] # "silent" =>
                /\ Stats(c) = {} => \/ said[c] = NoValue /\ shown[c] = NoValue
                                    \/ /\ said[c] # NoValue
                                       /\ shown[c] = Held(kind[c], Value(kind[c], said[c]))
                /\ \A i \in Stats(c) : IsLast(i, Stats(c)) =>
                      /\ said[c] # NoValue
                      /\ toClient[i].val = Payload(kind[c], Value(kind[c], said[c]))

OfTheDevice ==
    /\ ToSet(notifies) \subseteq Has
    /\ \A i \in DOMAIN toClient : /\ toClient[i].op = "QSTS" => toClient[i].codes \subseteq Has
                                  /\ toClient[i].op = "STAT" => toClient[i].code \in Has

CliInv ==
    /\ CliTypeOK /\ OfTheDevice
    /\ SubscriptionsFollow /\ Asking /\ Steady /\ LatestUnderWay

\* A `status' comes to its end, unless its STRT was refused, an answer was lost, or dropped
\* or mistaken among those to several arguments, the daemon ended while it was waiting for
\* the answer to QSTS, or nobody is notified of the answer.  A `listen' finds the answer to
\* each QSTS while the daemon runs, an EDIS if the server was disabled.
StatusEnds ==
    once \/ client = "reply" ~>
        IF once THEN \/ client \in Ended \ {"unexpected"}
                     \/ "STRT" \in refused \/ lost
                     \/ Several /\ (dropped # {} \/ client = "unexpected")
                     \/ client = "reply" /\ ~alive
                     \/ \E c \in ToSet(notifies) : kind[c] = "silent"
                ELSE client # "reply" \/ ~alive

\* What filter_notifies reads is the answer to what it asked: errx() of cli_notify.c 188
\* is for what does not happen.
RepliesExpected == client # "unexpected"
=============================================================================
