-------------------------------- MODULE Movactl --------------------------------
(***************************************************************************)
(* movactl with a command from its arguments to the device: main() of      *)
(* cli.c calls complete(), and goes on with the candidates it leaves and   *)
(* the arguments it has not used.                                          *)
(***************************************************************************)
EXTENDS Complete, Cli

\* The names main() has are commands and its own.
ASSUME NamesAssumption == \A N \in NameSets : N \subseteq Command \union Builtin

MovactlInit == CompleteInit /\ CliInit

MovactlNext ==
    \/ CompleteNext /\ UNCHANGED cliVars
    \/ /\ UNCHANGED completeVars
       /\ \/ returned /\ Completed(cands)
          \/ Ask
          \/ Reply
          \/ Decide(Len(args) - argi)
          \/ Send
          \/ \E l \in Line : Handle(l)
          \/ \E l \in Line : SetDisabled(l)
          \/ DaemonEnds

movactlVars == <<completeVars, cliVars>>

MovactlSpec == MovactlInit /\ [][MovactlNext]_movactlVars

\* The client runs, and the daemon while it does not end.
MovactlFairSpec ==
    /\ MovactlSpec
    /\ WF_movactlVars(CompleteNext /\ UNCHANGED cliVars)
    /\ WF_movactlVars((Completed(cands) \/ Ask \/ Reply \/ Decide(Len(args) - argi) \/ Send)
                         /\ returned /\ UNCHANGED completeVars)
    /\ \A l \in Line : WF_movactlVars(Handle(l) /\ UNCHANGED completeVars)

\* A name that is written in full, on a command line that has what the command takes and
\* nothing else, is carried out by each device that has it: completion does not lose the name,
\* no other line's answer hides it, and the missing newline does not matter.  Servers that were
\* disabled when they were asked, or when they got it, do not count, nor a daemon that ended, nor
\* a command whose code is not written whole.
NamedCommandIsDone ==
    \A l \in Line : \A c \in Whole :
        returned /\ read = c /\ argi = Len(args) /\ c \in names /\ Nargs[c] = 0 /\ c \in Supports[l]
            ~> \/ done[l] = <<c>>
               \/ ~alive \/ l \in { x[1] : x \in refused }
=============================================================================
