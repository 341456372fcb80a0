------------------------------- MODULE Complete -------------------------------
(***************************************************************************)
(* complete.c: which of the candidates the arguments of a command line     *)
(* mean, and how many of the arguments were used for it.                   *)
(*                                                                         *)
(* A name is a sequence of words (what `_', `-' and space separate), an    *)
(* argument too.  They are compared word by word: a word of an argument is *)
(* the beginning of one of the name, and where some names have it in full  *)
(* the others are dropped.                                                 *)
(***************************************************************************)
EXTENDS Naturals, Sequences, FiniteSets, SequencesExt

CONSTANTS
    Letter,
    NameSets,     \* the sets of names there may be to choose from
    ArgLists      \* the arguments there may be; an empty word ends "volume_"

Word == Seq(Letter)

ASSUME CompleteAssumption ==
    /\ \A names \in NameSets : IsFiniteSet(names) /\ names \subseteq Seq(Word \ {<<>>}) \ {<<>>}
    /\ ArgLists \subseteq Seq(Seq(Word) \ {<<>>})

VARIABLES
    names,        \* the candidates at the call
    args,         \* argc and argv
    cands,        \* the candidates that are left
    argi,         \* arguments used
    argo,         \* words of the next argument used
    read,         \* the words used so far: what name_off of every candidate stands behind
    returned      \* complete() has returned

completeVars == <<names, args, cands, argi, argo, read, returned>>

CompleteTypeOK ==
    /\ names \in NameSets /\ cands \subseteq names
    /\ args \in ArgLists /\ argi \in 0 .. Len(args)
    /\ argo \in Nat /\ (argi < Len(args) => argo < Len(args[argi + 1]))
    /\ (argi = Len(args) => argo = 0)
    /\ read \in Seq(Word)
    /\ returned \in BOOLEAN

CompleteInit ==
    /\ names \in NameSets /\ args \in ArgLists
    /\ cands = names
    /\ argi = 0 /\ argo = 0 /\ read = <<>> /\ returned = FALSE

\* The i-th word of a name, or what is left behind its last.
WordAt(c, i) == IF i <= Len(c) THEN c[i] ELSE <<>>

\* Mutant of Kept: names that have the word in full are not preferred.
KeptAll(C, w, i) == { c \in C : IsPrefix(w, WordAt(c, i)) }

\* One pass through the list and prune_inexact(): those whose i-th word begins with w,
\* and only those that have it in full if there are any.
Kept(C, w, i) ==
    LET matching == { c \in C : IsPrefix(w, WordAt(c, i)) }
        exact    == { c \in matching : WordAt(c, i) = w }
    IN  IF exact = {} THEN matching ELSE exact

\* The next word of the arguments.  One candidate is enough at the end of an argument.
ReadWord ==
    /\ ~returned /\ argi < Len(args)
    /\ LET w == args[argi + 1][argo + 1] IN
       /\ read' = Append(read, w)
       /\ cands' = Kept(cands, w, Len(read) + 1)
    /\ \/ /\ argo + 1 < Len(args[argi + 1])
          /\ argo' = argo + 1 /\ argi' = argi
       \/ /\ argo + 1 = Len(args[argi + 1])
          /\ argo' = 0 /\ argi' = argi + 1
    /\ returned' = (cands' = {} \/ (argo' = 0 /\ Cardinality(cands') = 1))
    /\ UNCHANGED <<names, args>>

\* The names among C of which no word is left.
Spelled(C) == { c \in C : Len(c) <= Len(read) }

\* The last pass of complete(): names spelled to their end are preferred.
PreferSpelled(C) == IF Spelled(C) = {} THEN C ELSE Spelled(C)

\* Out of arguments.
Finish ==
    /\ ~returned /\ argi = Len(args)
    /\ cands' = PreferSpelled(cands)
    /\ returned' = TRUE
    /\ UNCHANGED <<names, args, argi, argo, read>>

CompleteNext == ReadWord \/ Finish

CompleteSpec == CompleteInit /\ [][CompleteNext]_completeVars

-----------------------------------------------------------------------------
(* Correctness. *)

\* Of the words r, the first k read like the name c; the i-th is a word of c in full; the names
\* c and d have the same of the first k in full.
Reads(r, c, k)    == \A i \in 1 .. k : IsPrefix(r[i], WordAt(c, i))
Exact(r, c, i)    == WordAt(c, i) = r[i]
Agree(r, c, d, k) == \A i \in 1 .. k : Exact(r, c, i) <=> Exact(r, d, i)

\* A name that reads like r up to its i-th word, and as well as c so far, has that word in full.
Better(N, r, c, i) == \E d \in N : Reads(r, d, i) /\ Agree(r, c, d, i - 1) /\ Exact(r, d, i)

\* What the passes over the list amount to, said of each name for itself: it reads like the
\* words, and where it only begins like one, no name is better.
BestOf(N, r) ==
    { c \in N :
        /\ Reads(r, c, Len(r))
        /\ \A i \in 1 .. Len(r) : Exact(r, c, i) \/ ~Better(N, r, c, i) }

\* The list complete() prunes in place is always the best of all names, and of these the ones
\* spelled to their end when it has run out of arguments: no name is lost because an earlier
\* pass dropped it for one that is dropped itself without having been better.
CandidatesAreBest ==
    LET best    == BestOf(names, read)
        spelled == { c \in best : Len(c) <= Len(read) }
    IN  cands = IF returned /\ argi = Len(args) /\ spelled # {} THEN spelled ELSE best

\* A name that is written in full means itself, though others begin like it: the caller has
\* one candidate, and never reports several matches.
FullNameWins == returned /\ argi = Len(args) /\ read \in names => cands = {read}
=============================================================================
