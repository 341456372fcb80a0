---------------------------------- MODULE Cli ----------------------------------
(***************************************************************************)
(* movactl with a command, cli.c, and the serversides of one daemon that   *)
(* it is connected to: what is done once complete() has returned.          *)
(*                                                                         *)
(* Of the candidates that complete() left, the client asks every line      *)
(* which it has (QCMD), keeps those that one of them has, and if one is    *)
(* left sends it (SEND) on every line.  It ends without the newline: the   *)
(* serverside has the command when the connection ends.                    *)
(***************************************************************************)
EXTENDS Naturals, Sequences, FiniteSets, SequencesExt

CONSTANTS
    Lines,        \* how many lines the client is connected to, each a serverside
    Command,      \* commands of devices, by name
    Nargs,        \* how many arguments each takes
    CodeOf,       \* the code that each has in its device's table
    Wire,         \* the four letters of it that the client writes
    Supports,     \* per line, the commands its device has
    Enable, Disable,   \* the names `enable' and `disable'
    Notify,       \* the names `status' and `listen'
    MayDisable    \* whether other clients disable and enable the servers

Line    == 1 .. Lines
Builtin == {Enable, Disable} \union Notify

\* The codes the client writes, and the commands whose code it writes whole.
Code  == { Wire[c] : c \in Command }
Whole == { c \in Command : Wire[c] = CodeOf[c] }

ASSUME CliAssumption ==
    /\ Lines \in Nat \ {0}
    /\ Supports \in [Line -> SUBSET Command] /\ Nargs \in [Command -> Nat]
    /\ DOMAIN CodeOf = Command /\ DOMAIN Wire = Command
    /\ Command \intersect Builtin = {} /\ Enable # Disable /\ {Enable, Disable} \intersect Notify = {}
    /\ MayDisable \in BOOLEAN

\* Two commands may share a code (`clear' of the receiver and `colour_value' of the television
\* are both CLR0), but not with as many arguments.
ASSUME CodesAssumption ==
    \A c, d \in Command : CodeOf[c] = Wire[d] /\ Nargs[c] = Nargs[d] => c = d

VARIABLES
    asked,        \* the candidates complete() left
    left,         \* those that are left since
    client,       \* "complete", the loop it is in, or how it ended
    fd,           \* the line the loop is at
    answers,      \* per line, the codes it answered it has
    request,      \* what it sends on every line
    toServer,     \* per line, what the client wrote
    toClient,     \* per line, what the server wrote
    alive,        \* the daemon runs
    disabled,     \* per line, of its serverside
    done,         \* history: per line, the commands its device carried out
    refused       \* history: the lines that answered EDIS, and to what

clientVars == <<asked, left, client, fd, answers, request>>
cliVars    == <<clientVars, toServer, toClient, alive, disabled, done, refused>>

Ended == {"done", "no match", "ambiguous", "usage", "killed", "notify"}

NoRequest == [op |-> "none"]
Request   == [op : {"QCMD"}, codes : SUBSET Code] \union [op : {"SEND"}, code : Code, nargs : Nat]
               \union [op : {"SENA", "SDIS"}, server : Line]
Answer    == [op : {"QCMD"}, codes : SUBSET Code] \union {[op |-> "EDIS"]}

CliTypeOK ==
    /\ asked \subseteq Command \union Builtin /\ left \subseteq asked
    /\ client \in {"complete", "ask", "reply", "decide", "send"} \union Ended
    /\ fd \in Line
    /\ answers \in [Line -> SUBSET Code]
    /\ request \in Request \union {NoRequest}
    /\ toServer \in [Line -> Seq(Request)] /\ toClient \in [Line -> Seq(Answer)]
    /\ alive \in BOOLEAN /\ disabled \in [Line -> BOOLEAN]
    /\ done \in [Line -> Seq(Command)] /\ refused \subseteq Line \X {"QCMD", "SEND", "SDIS"}

CliInit ==
    /\ asked = {} /\ left = {} /\ client = "complete"
    /\ fd = 1
    /\ answers = [l \in Line |-> {}] /\ request = NoRequest
    /\ toServer = [l \in Line |-> <<>>] /\ toClient = [l \in Line |-> <<>>]
    /\ alive = TRUE /\ disabled \in [Line -> {FALSE, MayDisable}]
    /\ done = [l \in Line |-> <<>>] /\ refused = {}

-----------------------------------------------------------------------------
(* The client. *)

\* complete() has left the candidates C.  Without commands among them no line is asked.
Completed(C) ==
    /\ client = "complete"
    /\ asked' = C /\ left' = C
    /\ client' = IF C \intersect Command = {} THEN "decide" ELSE "ask"
    /\ UNCHANGED <<fd, answers, request, toServer, toClient, alive, disabled, done, refused>>

\* The loops over the lines go on to the next, or to what follows.
NextLine(then) ==
    \/ fd < Lines /\ fd' = fd + 1 /\ client' = client
    \/ fd = Lines /\ fd' = 1 /\ client' = then

\* A write on the line at hand.  When the daemon is gone, the write may still succeed, or
\* raises SIGPIPE.
Write(r, then) ==
    \/ toServer' = [toServer EXCEPT ![fd] = Append(@, r)] /\ NextLine(then)
    \/ ~alive /\ client' = "killed" /\ UNCHANGED <<fd, toServer>>

\* What filter_candidates() asks a line: which codes of the candidates C it has.
Question(C) == [op |-> "QCMD", codes |-> { Wire[c] : c \in C \intersect Command }]

\* It asks every line.
Ask ==
    /\ client = "ask"
    /\ Write(Question(left), "reply")
    /\ UNCHANGED <<asked, left, answers, request, toClient, alive, disabled, done, refused>>

\* Mutant of Filtered: the line that answered last decides.
FilteredByLast(C, a) == { c \in C : c \in Builtin \/ Wire[c] \in a[Lines] }

\* The candidates whose code some line has; what is no command of a device stays.  A code that
\* two candidates share is asked and answered twice, in the order of the candidates, so each
\* finds its own.
Filtered(C, a) == { c \in C : c \in Builtin \/ \E l \in Line : Wire[c] \in a[l] }

\* It reads the answer of one line after the other; EDIS is an answer without commands.  On
\* a line that is gone it reads for ever.
Reply ==
    /\ client = "reply" /\ toClient[fd] # <<>>
    /\ LET line == toClient[fd][1] IN
       answers' = [answers EXCEPT ![fd] = IF line.op = "QCMD" THEN line.codes ELSE {}]
    /\ toClient' = [toClient EXCEPT ![fd] = Tail(@)]
    /\ NextLine("decide")
    /\ left' = IF client' = "decide" THEN Filtered(left, answers') ELSE left
    /\ UNCHANGED <<asked, request, toServer, alive, disabled, done, refused>>

\* main() looks at what is left, n arguments being behind the name: as many as the command
\* takes, or the name of a server for `enable' and `disable'.
Decide(n) ==
    /\ client = "decide"
    /\ \/ left = {} /\ client' = "no match" /\ request' = request
       \/ Cardinality(left) > 1 /\ client' = "ambiguous" /\ request' = request
       \/ \E c \in left :
            /\ left = {c}
            /\ \/ /\ c \in Command /\ n = Nargs[c] /\ client' = "send"
                  /\ request' = [op |-> "SEND", code |-> Wire[c], nargs |-> n]
               \/ /\ c \in {Enable, Disable} /\ n = 1 /\ client' = "send"
                  /\ \E l \in Line : request' =
                        [op |-> IF c = Enable THEN "SENA" ELSE "SDIS", server |-> l]
               \/ /\ n # (IF c \in Command THEN Nargs[c] ELSE 1) /\ c \notin Notify
                  /\ client' = "usage" /\ request' = request
               \/ c \in Notify /\ client' = "notify" /\ request' = request
    /\ UNCHANGED <<asked, left, fd, answers, toServer, toClient, alive, disabled, done, refused>>

\* send_int_command() or set_server_enabled() writes to every line, and main() returns.
Send ==
    /\ client = "send"
    /\ Write(request, "done")
    /\ UNCHANGED <<asked, left, answers, request, toClient, alive, disabled, done, refused>>

-----------------------------------------------------------------------------
(* The daemon. *)

\* Mutant of Readable: what has no newline is left in the buffer when the connection ends.
ReadableLines(l) == toServer[l] # <<>> /\ toServer[l][1].op # "SEND"

\* A line is there for the serverside: it ends in a newline, or the connection has ended.
Readable(l) == toServer[l] # <<>> /\ (toServer[l][1].op # "SEND" \/ client \in Ended)

\* The codes in the table of a line's device.
CodesOn(l) == { CodeOf[c] : c \in Supports[l] }

\* send_command() of its driver: the command with the code, if it takes as many arguments.
Meant(l, line) == { c \in Supports[l] : CodeOf[c] = line.code /\ Nargs[c] = line.nargs }

\* api_ss_conn::handle, from readcb or from errorcb.
Handle(l) ==
    /\ alive /\ Readable(l)
    /\ toServer' = [toServer EXCEPT ![l] = Tail(@)]
    /\ LET line == toServer[l][1] IN
       \/ /\ disabled[l] /\ line.op # "SENA"
          /\ toClient' = [toClient EXCEPT ![l] = Append(@, [op |-> "EDIS"])]
          /\ refused' = refused \union {<<l, line.op>>}
          /\ UNCHANGED <<disabled, done>>
       \/ /\ ~disabled[l] /\ line.op = "QCMD"
          /\ toClient' = [toClient EXCEPT ![l] = Append(@,
                             [op |-> "QCMD", codes |-> line.codes \intersect CodesOn(l)])]
          /\ UNCHANGED <<disabled, done, refused>>
       \/ /\ ~disabled[l] /\ line.op = "SEND"
          /\ \/ Meant(l, line) = {} /\ done' = done
             \/ \E c \in Meant(l, line) : done' = [done EXCEPT ![l] = Append(@, c)]
          /\ UNCHANGED <<toClient, disabled, refused>>
       \/ /\ line.op = "SENA" \/ (~disabled[l] /\ line.op = "SDIS")
          /\ disabled' = [disabled EXCEPT ![line.server] = (line.op = "SDIS")]
          /\ UNCHANGED <<toClient, done, refused>>
    /\ UNCHANGED <<clientVars, alive>>

\* Another client disables or enables a server.
SetDisabled(l) ==
    /\ alive /\ MayDisable
    /\ disabled' = [disabled EXCEPT ![l] = ~@]
    /\ UNCHANGED <<clientVars, toServer, toClient, alive, done, refused>>

\* The daemon ends.
DaemonEnds ==
    /\ alive /\ alive' = FALSE
    /\ UNCHANGED <<clientVars, toServer, toClient, disabled, done, refused>>

-----------------------------------------------------------------------------
(* Correctness. *)

\* A device carries out a command only if it was the only one meant: it was a candidate, and of
\* all the candidates there were, no line that answered the question has another, but for those
\* whose code the client does not write whole.  And it does so once.
ToldWhatWasMeant ==
    \A l \in Line : \A i \in DOMAIN done[l] :
        /\ i = 1 /\ done[l][i] \in asked /\ asked \intersect Builtin = {}
        /\ \A k \in Line : <<k, "QCMD">> \in refused
                           \/ asked \intersect Supports[k] \intersect Whole \subseteq {done[l][i]}
=============================================================================
