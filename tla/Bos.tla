-------------------------------- MODULE Bos ---------------------------------
(***************************************************************************)
(* The supervisor bos() of bos.cc, in which movactld -b and the listener   *)
(* run: a parent process forks the program, waits for signals, passes them *)
(* on, and starts a new child for one that has failed.                     *)
(*                                                                         *)
(* run() waits in sigwait() for all signals, and no signal is ever         *)
(* blocked: one that comes while the parent is anywhere else takes its     *)
(* default action.  For one that comes in sigwait() POSIX leaves open      *)
(* whether sigwait() takes it; InSigwait says what the system does.        *)
(***************************************************************************)
EXTENDS Naturals, FiniteSets

CONSTANTS
    Pid,          \* processes the system has room for
    Code,         \* exit codes of the child
    Signum,       \* numbers of the signals that may end the child
    NoPid,
    InSigwait     \* a subset of {"taken", "default"}

ASSUME BosAssumption ==
    /\ NoPid \notin Pid
    /\ 0 \in Code /\ Code \subseteq 0 .. 127
    /\ Signum \subseteq 1 .. 64
    /\ InSigwait \subseteq {"taken", "default"} /\ InSigwait # {}

\* What may be sent to the parent, and by default ends it.
Stop   == {"TERM", "INT"}
Fatal  == Stop \union {"HUP"}
Signal == Fatal \union {"WINCH", "CHLD"}

Gone == {"exited", "killed", "aborted"}

\* How a child may end.
Ending == [how : {"exited"}, n : Code] \union [how : {"signaled"}, n : Signum]

VARIABLES
    bos,         \* where the parent is: "spawn", "run", "sigwait", "took", "reap" or Gone
    sig,         \* the signal sigwait() took
    child,       \* the current child
    state,       \* the loop counter of reap()
    exiting,
    exit_code,
    proc,        \* per pid "none", "running" or "zombie"
    ending,      \* how the pid's last process ended
    abandoned,   \* history: children reap() has given up
    asked,       \* history: the parent took a TERM or INT
    stray,       \* history: a SIGCHLD came that was not the end of the current child
    missed       \* history: the SIGCHLD of the current child's end was not there to be taken

bosVars == <<bos, sig, child, state, exiting, exit_code, proc, ending,
             abandoned, asked, stray, missed>>

BosTypeOK ==
    /\ bos \in {"spawn", "run", "sigwait", "took", "reap"} \union Gone
    /\ sig \in Signal
    /\ child \in Pid \union {NoPid}
    /\ state \in 0 .. 12
    /\ exiting \in BOOLEAN /\ asked \in BOOLEAN /\ stray \in BOOLEAN /\ missed \in BOOLEAN
    /\ exit_code \in 0 .. 255
    /\ proc \in [Pid -> {"none", "running", "zombie"}]
    /\ ending \in [Pid -> Ending]
    /\ abandoned \in SUBSET Pid

BosInit ==
    /\ bos = "spawn"
    /\ sig = "CHLD"
    /\ child = NoPid
    /\ state = 0
    /\ exiting = FALSE
    /\ exit_code = 0
    /\ proc = [p \in Pid |-> "none"]
    /\ ending = [p \in Pid |-> [how |-> "exited", n |-> 0]]
    /\ abandoned = {}
    /\ asked = FALSE
    /\ stray = FALSE
    /\ missed = FALSE

-----------------------------------------------------------------------------
(* The parent. *)

\* fork(), and run() is entered.
Spawn(p) ==
    /\ bos = "spawn"
    /\ proc[p] = "none"
    /\ proc' = [proc EXCEPT ![p] = "running"]
    /\ child' = p
    /\ bos' = "run"
    /\ missed' = FALSE
    /\ UNCHANGED <<sig, state, exiting, exit_code, ending, abandoned, asked, stray>>

\* fork() fails: nobody catches the exception.
SpawnFails ==
    /\ bos = "spawn"
    /\ bos' = "aborted"
    /\ UNCHANGED <<sig, child, state, exiting, exit_code, proc, ending,
                   abandoned, asked, stray, missed>>

Sigwait ==
    /\ bos = "run"
    /\ bos' = "sigwait"
    /\ UNCHANGED <<sig, child, state, exiting, exit_code, proc, ending,
                   abandoned, asked, stray, missed>>

\* Mutants of Took: every signal ends the wait; a stop signal does not make the end
\* final, or does not wait for the child; SIGCHLD is passed on like any other.
TookReturns ==
    /\ bos = "took"
    /\ bos' = "reap" /\ exiting' = (sig \in Stop) /\ state' = 0
    /\ UNCHANGED <<sig, child, exit_code, proc, ending, abandoned, asked, stray, missed>>

TookForgets ==
    /\ bos = "took"
    /\ IF sig \in Stop \union {"CHLD"}
         THEN bos' = "reap" /\ state' = 0
         ELSE bos' = "run" /\ UNCHANGED state
    /\ UNCHANGED <<sig, child, exiting, exit_code, proc, ending, abandoned, asked, stray, missed>>

TookLeaves ==
    /\ bos = "took"
    /\ bos' = CASE sig \in Stop -> "exited" [] sig = "CHLD" -> "reap" [] OTHER -> "run"
    /\ state' = 0
    /\ UNCHANGED <<sig, child, exiting, exit_code, proc, ending, abandoned, asked, stray, missed>>

TookPassesOn ==
    /\ bos = "took"
    /\ IF sig \in Stop
         THEN bos' = "reap" /\ exiting' = TRUE /\ state' = 0
         ELSE bos' = "run" /\ UNCHANGED <<exiting, state>>
    /\ UNCHANGED <<sig, child, exit_code, proc, ending, abandoned, asked, stray, missed>>

\* The signal is looked at: SIGCHLD and the stop signals end run(), the stop
\* signals and the others are passed on to the child.
Took ==
    /\ bos = "took"
    /\ \/ sig = "CHLD" /\ bos' = "reap" /\ exiting' = FALSE /\ state' = 0
       \/ sig \in Stop /\ bos' = "reap" /\ exiting' = TRUE /\ state' = 0
       \/ sig \notin Stop \union {"CHLD"} /\ bos' = "run" /\ UNCHANGED <<exiting, state>>
    /\ UNCHANGED <<sig, child, exit_code, proc, ending, abandoned, asked, stray, missed>>

\* What waitpid() tells of a child becomes the parent's own exit code.
CodeOf(e) == IF e.how = "exited" THEN e.n ELSE 128 + e.n

\* Mutant of Reaped: the code of a child that a signal ended is not taken over.
ReapedKeepsCode ==
    /\ proc[child] = "zombie"
    /\ proc' = [proc EXCEPT ![child] = "none"]
    /\ exit_code' = IF ending[child].how = "exited" THEN ending[child].n ELSE exit_code
    /\ exiting' = (exiting \/ exit_code' = 0)
    /\ bos' = IF exiting' THEN "exited" ELSE "spawn"
    /\ UNCHANGED <<state, abandoned>>

\* reap() finds that the child has ended.
Reaped ==
    /\ proc[child] = "zombie"
    /\ proc' = [proc EXCEPT ![child] = "none"]
    /\ exit_code' = CodeOf(ending[child])
    /\ exiting' = (exiting \/ exit_code' = 0)
    /\ bos' = IF exiting' THEN "exited" ELSE "spawn"
    /\ UNCHANGED <<state, abandoned>>

\* Mutant of GivenUp: reap() goes on asking.
GivenUpNever ==
    /\ proc[child] = "running" /\ state = 12
    /\ state' = 9
    /\ UNCHANGED <<bos, exiting, exit_code, proc, abandoned>>

\* reap() has asked and killed in vain.
GivenUp ==
    /\ proc[child] = "running" /\ state = 12
    /\ abandoned' = abandoned \union {child}
    /\ exit_code' = 255
    /\ bos' = IF exiting THEN "exited" ELSE "spawn"
    /\ UNCHANGED <<state, exiting, proc>>

\* reap() sleeps, having sent TERM, INT or KILL in the third, sixth and ninth round.
StillRunning ==
    /\ proc[child] = "running" /\ state < 12
    /\ state' = state + 1
    /\ UNCHANGED <<bos, exiting, exit_code, proc, abandoned>>

\* A round of the loop in reap(), and what bos() makes of its result.
Poll ==
    /\ bos = "reap"
    /\ Reaped \/ GivenUp \/ StillRunning
    /\ UNCHANGED <<sig, child, ending, asked, stray, missed>>

-----------------------------------------------------------------------------
(* The system. *)

\* The signal s comes to the parent.
Deliver(s) ==
    \/ /\ bos = "sigwait" /\ "taken" \in InSigwait
       /\ bos' = "took"
       /\ sig' = s
       /\ asked' = IF s \in Stop THEN TRUE ELSE asked
    \/ /\ bos # "sigwait" \/ "default" \in InSigwait
       /\ bos' = IF s \in Fatal /\ bos \notin Gone THEN "killed" ELSE bos
       /\ UNCHANGED <<sig, asked>>

\* A signal from outside.
Signalled(s) ==
    /\ bos \notin Gone
    /\ Deliver(s)
    /\ UNCHANGED <<child, state, exiting, exit_code, proc, ending, abandoned, stray, missed>>

\* A child ends, of its own accord or of a signal, the current one or another.
ChildEnds(p, e) ==
    /\ proc[p] = "running"
    /\ proc' = [proc EXCEPT ![p] = "zombie"]
    /\ ending' = [ending EXCEPT ![p] = e]
    /\ Deliver("CHLD")
    /\ stray' = (stray \/ p # child)
    /\ missed' = (missed \/ (p = child /\ (bos \in {"run", "took"} \/ bos' = "sigwait")))
    /\ UNCHANGED <<child, state, exiting, exit_code, abandoned>>

\* A child is stopped or continued by a debugger or a shell.
ChildStops(p) ==
    /\ proc[p] = "running"
    /\ bos \notin Gone
    /\ Deliver("CHLD")
    /\ stray' = TRUE
    /\ UNCHANGED <<child, state, exiting, exit_code, proc, ending, abandoned, missed>>

BosNext ==
    \/ \E p \in Pid : Spawn(p)
    \/ SpawnFails
    \/ Sigwait
    \/ Took
    \/ Poll
    \/ \E s \in Signal \ {"CHLD"} : Signalled(s)
    \/ \E p \in Pid, e \in Ending : ChildEnds(p, e)
    \/ \E p \in Pid : ChildStops(p)

BosSpec == BosInit /\ [][BosNext]_bosVars

\* The parent is scheduled; nothing is assumed of its children.
BosFairSpec ==
    /\ BosSpec
    /\ WF_bosVars(\E p \in Pid : Spawn(p))
    /\ WF_bosVars(Sigwait)
    /\ WF_bosVars(Took)
    /\ WF_bosVars(Poll)

-----------------------------------------------------------------------------
(* Correctness. *)

\* Through restarts, children given up and pids used again: a child other than
\* the current one runs only if it was given up, and once the parent has ended in its
\* own way so does the current one.
NoneLeftBehind ==
    \A p \in Pid : proc[p] = "running" /\ p \notin abandoned =>
        p = child /\ bos \in {"run", "sigwait", "took", "reap", "killed"}

\* reap(), which signals and kills, is at a living child only if the parent was asked to
\* stop, or SIGCHLD told of something else than the end of that child.
HealthyChildSpared ==
    (bos = "reap" /\ proc[child] = "running") => exiting \/ stray

\* The parent's exit code is what became of its last child, although codes of
\* children before it were taken over as well.
ExitCodeIsLastChilds ==
    bos = "exited" =>
        exit_code = IF child \in abandoned THEN 255 ELSE CodeOf(ending[child])

\* The parent ends by itself only when it was asked to or when a child has ended as
\* one that is done, and not with an exit code left over from a child before.
EndsForAReason ==
    bos = "exited" => asked \/ ending[child] = [how |-> "exited", n |-> 0]

\* What holds between: where the parent has a child, what it knows of it, and what
\* the signal it took stands for.
ChildKnown ==
    /\ bos \in {"run", "sigwait", "took", "reap"} =>
          child \in Pid /\ child \notin abandoned /\ proc[child] # "none"
    /\ bos = "exited" => child \in Pid
    /\ \A p \in abandoned : proc[p] # "none"

ReasonKnown ==
    /\ bos = "took" =>
          /\ sig = "CHLD" => (stray \/ proc[child] = "zombie")
          /\ sig \in Stop <=> asked
    /\ bos \in {"spawn", "run", "sigwait"} => ~asked
    /\ bos \in {"spawn", "run", "sigwait", "took"} => ~exiting
    /\ bos = "reap" => (exiting <=> asked)
    /\ bos = "exited" /\ child \in abandoned => asked

BosInv ==
    /\ BosTypeOK
    /\ NoneLeftBehind /\ HealthyChildSpared /\ ExitCodeIsLastChilds /\ EndsForAReason
    /\ ChildKnown /\ ReasonKnown

\* Once the parent has taken a TERM or INT, it starts no child any more.
TerminationFinal ==
    [][ asked => \A p \in Pid : proc'[p] = "running" => proc[p] = "running" ]_bosVars

\* And it ends, even if the child does not.
TerminationCompletes == asked ~> bos \in Gone

\* A child that ends while the parent is in sigwait() is replaced or was the last.
DeathNoticed ==
    \A p \in Pid :
        (child = p /\ proc[p] = "zombie" /\ ~missed /\ p \notin abandoned)
            ~> (proc[p] # "zombie" \/ bos \in Gone)
=============================================================================
