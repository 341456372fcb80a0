----------------------------- MODULE MovactlProofs -----------------------------
(***************************************************************************)
(* Two facts about movactl with a command, for any letters, names,         *)
(* arguments and lines: the pruning of complete() finds the best names,    *)
(* among them a name written in full; and a device is told nothing but     *)
(* what was meant, once.                                                   *)
(***************************************************************************)
EXTENDS Movactl, FiniteSetTheorems, TLAPS

-----------------------------------------------------------------------------
(* complete().                                                             *)

\* A pass over the list takes the best names of some words to those of the words with one more,
\* since all that are left read alike so far.
LEMMA KeptIsBest ==
    ASSUME NEW N, NEW r \in Seq(Word), NEW w \in Word,
           \A c, d \in BestOf(N, r) : Agree(r, c, d, Len(r))
    PROVE  /\ BestOf(N, Append(r, w)) = Kept(BestOf(N, r), w, Len(r) + 1)
           /\ \A c, d \in BestOf(N, Append(r, w)) : Agree(Append(r, w), c, d, Len(r) + 1)
<1> DEFINE q == Append(r, w)
           n == Len(r)
           B == BestOf(N, r)
<1>1. n \in Nat /\ Len(q) = n + 1 /\ q[n + 1] = w /\ \A i \in 1 .. n : q[i] = r[i]
    OBVIOUS
<1>2. \A c : Reads(q, c, n) <=> Reads(r, c, n)
    BY <1>1 DEF Reads
<1>3. \A i \in 1 .. n : \A c : /\ Reads(q, c, i) <=> Reads(r, c, i)
                               /\ Exact(q, c, i) <=> Exact(r, c, i)
    BY <1>1 DEF Reads, Exact
<1>4. \A c, d : \A k \in 0 .. n : Agree(q, c, d, k) <=> Agree(r, c, d, k)
  <2> SUFFICES ASSUME NEW c, NEW d, NEW k \in 0 .. n
               PROVE  Agree(q, c, d, k) <=> Agree(r, c, d, k)
      OBVIOUS
  <2>1. \A i \in 1 .. k : i \in 1 .. n
      BY <1>1
  <2> QED
      BY <2>1, <1>3 DEF Agree
<1>5. \A c : \A i \in 1 .. n : Better(N, q, c, i) <=> Better(N, r, c, i)
  <2> SUFFICES ASSUME NEW c, NEW i \in 1 .. n
               PROVE  Better(N, q, c, i) <=> Better(N, r, c, i)
      OBVIOUS
  <2>1. i - 1 \in 0 .. n
      BY <1>1
  <2> QED
      BY <2>1, <1>3, <1>4 DEF Better
<1>6. \A c : Reads(q, c, n + 1) <=> Reads(r, c, n) /\ IsPrefix(w, WordAt(c, n + 1))
  <2>1. \A i \in 1 .. n + 1 : i \in 1 .. n \/ i = n + 1
      BY <1>1
  <2>2. \A i \in 1 .. n : i \in 1 .. n + 1
      BY <1>1
  <2>3. n + 1 \in 1 .. n + 1
      BY <1>1
  <2> QED
      BY <2>1, <2>2, <2>3, <1>1 DEF Reads
<1>7. \A c : Exact(q, c, n + 1) <=> WordAt(c, n + 1) = w
    BY <1>1 DEF Exact
<1>8. \A c : c \in BestOf(N, q) <=>
               /\ c \in B /\ IsPrefix(w, WordAt(c, n + 1))
               /\ WordAt(c, n + 1) = w \/ ~Better(N, q, c, n + 1)
  <2>1. \A i \in 1 .. n + 1 : i \in 1 .. n \/ i = n + 1
      BY <1>1
  <2>2. \A i \in 1 .. n : i \in 1 .. n + 1
      BY <1>1
  <2>3. n + 1 \in 1 .. n + 1
      BY <1>1
  <2>4. \A c : (\A i \in 1 .. n + 1 : Exact(q, c, i) \/ ~Better(N, q, c, i)) <=>
                 /\ \A i \in 1 .. n : Exact(r, c, i) \/ ~Better(N, r, c, i)
                 /\ WordAt(c, n + 1) = w \/ ~Better(N, q, c, n + 1)
      BY <2>1, <2>2, <2>3, <1>3, <1>5, <1>7
  <2> QED
      BY <2>4, <1>1, <1>6 DEF BestOf
\* Who is better than a best name, and reads alike, is a best name too.
<1>9. \A c \in B, d \in N : Reads(r, d, n) /\ Agree(r, c, d, n) => d \in B
  <2> SUFFICES ASSUME NEW c \in B, NEW d \in N, Reads(r, d, n), Agree(r, c, d, n),
                      NEW i \in 1 .. n, ~Exact(r, d, i), Better(N, r, d, i)
               PROVE  FALSE
      BY DEF BestOf
  <2>1. ~Exact(r, c, i)
      BY DEF Agree
  <2>2. PICK e \in N : Reads(r, e, i) /\ Agree(r, d, e, i - 1) /\ Exact(r, e, i)
      BY DEF Better
  <2>3. \A j \in 1 .. i - 1 : j \in 1 .. n
      BY <1>1
  <2>4. Agree(r, c, e, i - 1)
      BY <2>2, <2>3 DEF Agree
  <2>5. Better(N, r, c, i)
      BY <2>2, <2>4 DEF Better
  <2> QED
      BY <2>1, <2>5 DEF BestOf
<1>10. \A c \in B : Better(N, q, c, n + 1) <=>
                      \E d \in B : IsPrefix(w, WordAt(d, n + 1)) /\ WordAt(d, n + 1) = w
  <2> SUFFICES ASSUME NEW c \in B
               PROVE  Better(N, q, c, n + 1) <=>
                      \E d \in B : IsPrefix(w, WordAt(d, n + 1)) /\ WordAt(d, n + 1) = w
      OBVIOUS
  <2>1. Better(N, q, c, n + 1) <=>
          \E d \in N : /\ Reads(r, d, n) /\ IsPrefix(w, WordAt(d, n + 1))
                       /\ Agree(r, c, d, n) /\ WordAt(d, n + 1) = w
      BY <1>1, <1>4, <1>6, <1>7 DEF Better
  <2>2. \A d \in B : d \in N /\ Reads(r, d, n) /\ Agree(r, c, d, n)
      BY DEF BestOf
  <2> QED
      BY <2>1, <2>2, <1>9
<1>11. BestOf(N, q) = Kept(B, w, n + 1)
  <2>1. \A c : c \in BestOf(N, q) <=> c \in Kept(B, w, n + 1)
      BY <1>8, <1>10 DEF Kept
  <2> QED
      BY <2>1
<1>12. \A c, d \in BestOf(N, q) : Agree(q, c, d, n + 1)
  <2> SUFFICES ASSUME NEW c \in BestOf(N, q), NEW d \in BestOf(N, q)
               PROVE  Agree(q, c, d, n + 1)
      OBVIOUS
  <2>1. c \in B /\ d \in B
      BY <1>8
  <2>2. Agree(q, c, d, n)
      BY <2>1, <1>1, <1>4
  <2>3. Exact(q, c, n + 1) <=> Exact(q, d, n + 1)
      BY <2>1, <1>7, <1>11 DEF Kept
  <2>4. \A i \in 1 .. n + 1 : i \in 1 .. n \/ i = n + 1
      BY <1>1
  <2> QED
      BY <2>2, <2>3, <2>4 DEF Agree
<1> QED
    BY <1>11, <1>12

\* What is left at any time reads alike.
CompleteInv ==
    /\ CompleteTypeOK
    /\ \A c, d \in BestOf(names, read) : Agree(read, c, d, Len(read))
    /\ CandidatesAreBest

\* Before the first word every name is a best one.
LEMMA CompleteInitInv == CompleteInit => CompleteInv
<1> SUFFICES ASSUME CompleteInit
             PROVE  CompleteInv
    OBVIOUS
<1>1. args \in Seq(Seq(Word) \ {<<>>})
    BY CompleteAssumption DEF CompleteInit
<1>2. argi < Len(args) => args[argi + 1] \in Seq(Word) \ {<<>>}
    BY <1>1 DEF CompleteInit
<1>3. CompleteTypeOK
  <2>1. argi < Len(args) => Len(args[argi + 1]) > 0
      BY <1>2
  <2>2. returned \in BOOLEAN
      BY DEF CompleteInit
  <2>3. read \in Seq(Word) /\ argi \in 0 .. Len(args)
      BY <1>1 DEF CompleteInit
  <2> QED
      BY <2>1, <2>2, <2>3 DEF CompleteInit, CompleteTypeOK
<1>4. Len(read) = 0 /\ BestOf(names, read) = names
    BY DEF CompleteInit, BestOf, Reads
<1>5. CandidatesAreBest
    BY <1>4 DEF CompleteInit, CandidatesAreBest
<1> QED
    BY <1>3, <1>4, <1>5 DEF CompleteInv, Agree

\* The next word of the arguments keeps the types.
LEMMA ReadWordTypes ==
    ASSUME CompleteTypeOK, ReadWord
    PROVE  /\ args[argi + 1][argo + 1] \in Word
           /\ CompleteTypeOK'
<1> DEFINE x == args[argi + 1]
<1>1. args \in Seq(Seq(Word) \ {<<>>}) /\ argi \in Nat /\ argi < Len(args) /\ argo < Len(x)
    BY CompleteAssumption DEF CompleteTypeOK, ReadWord
<1>2. x \in Seq(Word)
    BY <1>1
<1>3. x[argo + 1] \in Word
    BY <1>1, <1>2 DEF CompleteTypeOK
<1>4. cands' \subseteq names
    BY DEF CompleteTypeOK, ReadWord, Kept
<1>5. read' \in Seq(Word)
    BY <1>3 DEF CompleteTypeOK, ReadWord
<1>6. /\ argi' \in 0 .. Len(args) /\ argo' \in Nat
      /\ argi' < Len(args) => argo' < Len(args[argi' + 1])
      /\ argi' = Len(args) => argo' = 0
  <2>1. CASE argo + 1 < Len(x) /\ argo' = argo + 1 /\ argi' = argi
      BY <2>1, <1>1 DEF CompleteTypeOK
  <2>2. CASE argo + 1 = Len(x) /\ argo' = 0 /\ argi' = argi + 1
    <3>1. argi' < Len(args) => args[argi' + 1] \in Seq(Word) \ {<<>>}
        BY <2>2, <1>1
    <3>2. argi' < Len(args) => Len(args[argi' + 1]) > 0
        BY <3>1
    <3> QED
        BY <2>2, <3>2, <1>1
  <2> QED
      BY <2>1, <2>2 DEF ReadWord
<1>7. returned' \in BOOLEAN
    BY DEF ReadWord
<1> QED
    BY <1>3, <1>4, <1>5, <1>6, <1>7 DEF CompleteTypeOK, ReadWord

\* Each word, and the last pass, keep the invariant.
LEMMA CompleteNextInv ==
    ASSUME CompleteInv, [CompleteNext]_completeVars
    PROVE  CompleteInv'
<1>1. ASSUME ReadWord
      PROVE  CompleteInv'
  <2> DEFINE w == args[argi + 1][argo + 1]
  <2>1. w \in Word /\ CompleteTypeOK'
      BY <1>1, ReadWordTypes DEF CompleteInv
  <2>2. cands = BestOf(names, read)
      BY <1>1 DEF CompleteInv, CandidatesAreBest, ReadWord
  <2>3. /\ read \in Seq(Word) /\ read' = Append(read, w) /\ Len(read') = Len(read) + 1
        /\ names' = names
      BY <1>1, <2>1 DEF CompleteInv, CompleteTypeOK, ReadWord
  <2>4. /\ BestOf(names, read') = Kept(BestOf(names, read), w, Len(read) + 1)
        /\ \A c, d \in BestOf(names, read') : Agree(read', c, d, Len(read) + 1)
      BY <2>1, <2>3, KeptIsBest DEF CompleteInv
  <2>5. cands' = BestOf(names, read')
      BY <1>1, <2>2, <2>4 DEF ReadWord
  <2>6. returned' => cands' = {} \/ \E c : cands' = {c}
    <3>1. IsFiniteSet(cands')
        BY <2>1, <2>3, CompleteAssumption, FS_Subset DEF CompleteTypeOK
    <3> QED
        BY <1>1, <3>1, FS_Singleton DEF ReadWord
  <2>7. CandidatesAreBest'
    <3> DEFINE spelled == { c \in BestOf(names, read') : Len(c) <= Len(read') }
    <3>1. returned' /\ spelled # {} => cands' = spelled
        BY <2>5, <2>6
    <3> QED
        BY <3>1, <2>3, <2>5 DEF CandidatesAreBest
  <2> QED
      BY <2>1, <2>3, <2>4, <2>7 DEF CompleteInv
<1>2. ASSUME Finish
      PROVE  CompleteInv'
  <2>1. cands = BestOf(names, read)
      BY <1>2 DEF CompleteInv, CandidatesAreBest, Finish
  <2>2. cands' \subseteq names
      BY <1>2 DEF CompleteInv, CompleteTypeOK, Finish, PreferSpelled, Spelled
  <2>3. CompleteTypeOK'
      BY <1>2, <2>2 DEF CompleteInv, CompleteTypeOK, Finish
  <2>4. CandidatesAreBest'
      BY <1>2, <2>1 DEF CandidatesAreBest, Finish, PreferSpelled, Spelled
  <2> QED
      BY <1>2, <2>3, <2>4 DEF CompleteInv, Finish
<1>3. ASSUME UNCHANGED completeVars
      PROVE  CompleteInv'
    BY <1>3 DEF CompleteInv, CompleteTypeOK, CandidatesAreBest, completeVars
<1> QED
    BY <1>1, <1>2, <1>3 DEF CompleteNext

\* The invariant holds of every call.
LEMMA CompleteInvHolds == CompleteSpec => []CompleteInv
<1> QED
    BY CompleteInitInv, CompleteNextInv, PTL DEF CompleteSpec

\* complete() leaves the best names, whatever names there are and whatever it is given: its
\* passes over the list lose none.
THEOREM BestAreLeft == CompleteSpec => []CandidatesAreBest
<1>1. CompleteInv => CandidatesAreBest
    BY DEF CompleteInv
<1> QED
    BY <1>1, CompleteInvHolds, PTL

\* A name that is written in full means itself.
THEOREM FullNameAlwaysWins == CompleteSpec => []FullNameWins
<1>1. CompleteInv => FullNameWins
  <2> SUFFICES ASSUME CompleteInv, returned, argi = Len(args), read \in names
               PROVE  cands = {read}
      BY DEF FullNameWins
  <2> DEFINE best == BestOf(names, read)
             n == Len(read)
  <2>1. names \subseteq Seq(Word \ {<<>>}) \ {<<>>}
      BY CompleteAssumption DEF CompleteInv, CompleteTypeOK
  <2>2. \A i \in 1 .. n : read[i] \in Word \ {<<>>}
      BY <2>1
  <2>3. \A i \in 1 .. n : WordAt(read, i) = read[i]
      BY DEF WordAt
  <2>4. \A v \in Word : IsPrefix(v, v)
      BY DEF Word, IsPrefix
  <2>5. read \in best
      BY <2>2, <2>3, <2>4 DEF BestOf, Reads, Exact
  <2>6. \A c \in best : \A i \in 1 .. n : WordAt(c, i) = read[i]
      BY <2>3, <2>5 DEF CompleteInv, Agree, Exact
  <2>7. \A c \in best : Len(c) <= n => c = read
    <3> SUFFICES ASSUME NEW c \in best, Len(c) <= n
                 PROVE  c = read
        OBVIOUS
    <3>1. c \in Seq(Word \ {<<>>}) /\ read \in Seq(Word \ {<<>>}) /\ read # <<>>
        BY <2>1 DEF BestOf
    <3>2. n \in 1 .. n
        BY <3>1
    <3>3. Len(c) = n
        BY <2>2, <2>6, <3>1, <3>2 DEF WordAt
    <3>4. \A i \in 1 .. n : c[i] = read[i]
        BY <2>6, <3>3 DEF WordAt
    <3> QED
        BY <3>1, <3>3, <3>4
  <2>8. { c \in best : Len(c) <= n } = {read}
      BY <2>1, <2>5, <2>7
  <2> QED
      BY <2>8 DEF CompleteInv, CandidatesAreBest
<1> QED
    BY <1>1, CompleteInvHolds, PTL

-----------------------------------------------------------------------------
(* The client and the serversides.                                         *)

\* The composition only calls complete(): every step of it is a step there or none.
THEOREM MovactlCompletes == MovactlSpec => CompleteSpec
<1>1. MovactlInit => CompleteInit
    BY DEF MovactlInit
<1>2. [MovactlNext]_movactlVars => [CompleteNext]_completeVars
    BY DEF MovactlNext, movactlVars
<1> QED
    BY <1>1, <1>2, PTL DEF MovactlSpec, CompleteSpec

\* Nothing is on its way on this line.
Idle(l) == toServer[l] = <<>> /\ toClient[l] = <<>>

\* What the serverside of a line answers to a question.
Has(l, line) == [op |-> "QCMD", codes |-> line.codes \intersect CodesOn(l)]

\* A line that was asked: the question, or one answer, is on its way.
Questioned(l) ==
    \/ toServer[l] = << Question(asked) >> /\ toClient[l] = <<>>
    \/ /\ toServer[l] = <<>>
       /\ \/ toClient[l] = << Has(l, Question(asked)) >>
          \/ toClient[l] = << [op |-> "EDIS"] >> /\ <<l, "QCMD">> \in refused

\* A line whose answer was read.
Heard(l) ==
    /\ Idle(l)
    /\ \/ <<l, "QCMD">> \in refused
       \/ \A c \in asked \intersect Supports[l] \intersect Whole : Wire[c] \in answers[l]

\* C has all the client's own names among the candidates, and what each line has of them, but
\* for those whose code is not written whole.
Covered(C) ==
    /\ asked \intersect Builtin \subseteq C
    /\ \A l \in Line : \/ <<l, "QCMD">> \in refused
                       \/ asked \intersect Supports[l] \intersect Whole \subseteq C

\* A command that is sent is that of a candidate, and nothing else was covered.
SentKnown ==
    request.op = "SEND" =>
        \E c \in asked \intersect Command :
            request.code = Wire[c] /\ request.nargs = Nargs[c] /\ Covered({c})

\* What a device has carried out, by its own table, is what the request says.
Done(l) ==
    \/ done[l] = <<>>
    \/ /\ request.op = "SEND"
       /\ \E c \in Command : /\ CodeOf[c] = request.code /\ Nargs[c] = request.nargs
                            /\ done[l] = <<c>>

\* A line that the request was or was not sent on, and what became of it.
Requested(l) ==
    \/ toServer[l] = <<>> /\ Done(l)
    \/ toServer[l] = <<request>> /\ done[l] = <<>>

\* What is under way in each state of the client.
PhaseKnown ==
    /\ client \in {"complete", "ask", "reply"} => left = asked
    /\ client = "complete" => fd = 1 /\ \A l \in Line : Idle(l)
    /\ client = "ask" => \A l \in Line : IF l < fd THEN Questioned(l) ELSE Idle(l)
    /\ client = "reply" => \A l \in Line : IF l < fd THEN Heard(l) ELSE Questioned(l)
    /\ client = "decide" => Covered(left) /\ \A l \in Line : Idle(l)
    /\ client \in {"no match", "ambiguous", "usage", "notify"} => \A l \in Line : Idle(l)
    /\ client \in {"send", "done"} =>
          /\ request \in Request /\ request.op # "QCMD"
          /\ SentKnown
          /\ \A l \in Line : Requested(l)
    /\ client = "send" => \A l \in Line : l >= fd => toServer[l] = <<>>
    /\ client = "killed" => ~alive
    /\ client # "done" => \A l \in Line : done[l] = <<>>

CliInv == CliTypeOK /\ PhaseKnown

\* A step leaves a line as it was, if it leaves these variables of it alone.
LEMMA LinesKept ==
    ASSUME NEW l \in Line, toServer'[l] = toServer[l], toClient'[l] = toClient[l], asked' = asked,
           refused \subseteq refused'
    PROVE  /\ Idle(l) => Idle(l)'
           /\ Questioned(l) => Questioned(l)'
           /\ Heard(l) /\ answers'[l] = answers[l] => Heard(l)'
    BY DEF Idle, Questioned, Heard, Question, Has

\* A line of one answer.
LEMMA Singles ==
    /\ \A x : Append(<<>>, x) = <<x>> /\ <<x>>[1] = x /\ <<x>> # <<>>
    /\ \A S : \A x \in S : Tail(<<x>>) = <<>> /\ <<x>> \in Seq(S)
<1>1. \A x : Append(<<>>, x) = <<x>> /\ <<x>>[1] = x /\ <<x>> # <<>>
    OBVIOUS
<1>2. \A S : \A x \in S : Tail(<<x>>) = <<>> /\ <<x>> \in Seq(S)
    OBVIOUS
<1> QED
    BY <1>1, <1>2

\* movactl begins with nothing asked and nothing under way.
LEMMA CliInitInv == CliInit => CliInv
<1> SUFFICES ASSUME CliInit
             PROVE  CliInv
    OBVIOUS
<1>1. CliTypeOK
  <2>1. fd \in Line
      BY CliAssumption DEF CliInit, Line
  <2>2. disabled \in [Line -> BOOLEAN]
      BY CliAssumption DEF CliInit
  <2>3. /\ answers \in [Line -> SUBSET Code]
        /\ toServer \in [Line -> Seq(Request)] /\ toClient \in [Line -> Seq(Answer)]
        /\ done \in [Line -> Seq(Command)]
      BY DEF CliInit
  <2>4. /\ asked = {} /\ left = {} /\ client = "complete" /\ request = NoRequest
        /\ alive = TRUE /\ refused = {}
      BY DEF CliInit
  <2> QED
      BY <2>1, <2>2, <2>3, <2>4 DEF CliTypeOK
<1>2. PhaseKnown
    BY DEF CliInit, PhaseKnown, Idle
<1> QED
    BY <1>1, <1>2 DEF CliInv

\* complete() leaves the candidates, and nothing is asked of any line yet.
LEMMA CompletedInv ==
    ASSUME CliInv, NEW C, C \subseteq Command \union Builtin, Completed(C)
    PROVE  CliInv'
<1>1. CliTypeOK /\ client = "complete" /\ PhaseKnown
    BY DEF CliInv, Completed
<1>2. asked' = C /\ left' = C /\ client' = IF C \intersect Command = {} THEN "decide" ELSE "ask"
    BY DEF Completed
<1>3. UNCHANGED <<fd, answers, request, toServer, toClient, alive, disabled, done, refused>>
    BY DEF Completed
<1>4. CliTypeOK'
    BY <1>1, <1>2, <1>3 DEF CliTypeOK, Ended
<1>5. \A l \in Line : Idle(l)' /\ done'[l] = <<>>
    BY <1>1, <1>3 DEF PhaseKnown, Idle
<1>6. client' = "decide" => Covered(C)'
  <2>1. \A l \in Line : Supports[l] \subseteq Command
      BY CliAssumption
  <2> QED
      BY <1>2, <2>1 DEF Covered
<1>7. \A l \in Line : ~(l < fd')
    BY <1>1, <1>3, CliAssumption DEF PhaseKnown, Line
<1> QED
    BY <1>2, <1>4, <1>5, <1>6, <1>7 DEF CliInv, PhaseKnown

\* The question goes to the line at hand.
LEMMA AskInv ==
    ASSUME CliInv, Ask
    PROVE  CliInv'
<1> DEFINE q == Question(left)
<1>1. CliTypeOK /\ PhaseKnown /\ client = "ask" /\ left = asked
    BY DEF CliInv, Ask, PhaseKnown
<1>2. UNCHANGED <<asked, left, answers, request, toClient, alive, disabled, done, refused>>
    BY DEF Ask
<1>3. q \in Request
    BY DEF Request, Question, Code
<1>4. CASE ~alive /\ client' = "killed" /\ UNCHANGED <<fd, toServer>>
  <2>1. CliTypeOK'
      BY <1>1, <1>2, <1>4 DEF CliTypeOK, Ended
  <2> QED
      BY <1>1, <1>2, <1>4, <2>1 DEF CliInv, PhaseKnown
<1>5. CASE toServer' = [toServer EXCEPT ![fd] = Append(@, q)] /\ NextLine("reply")
  <2>1. fd \in Line /\ fd \in 1 .. Lines /\ Lines \in Nat /\ Lines > 0
      BY <1>1, CliAssumption DEF CliTypeOK, Line
  <2>2. fd' \in Line /\ client' \in {"ask", "reply"}
      BY <1>1, <1>5, <2>1 DEF NextLine, Line
  <2>3. CliTypeOK'
    <3>1. toServer' \in [Line -> Seq(Request)]
      <4>1. Append(toServer[fd], q) \in Seq(Request)
          BY <1>1, <1>3, <2>1 DEF CliTypeOK
      <4> QED
          BY <1>1, <1>5, <4>1 DEF CliTypeOK
    <3> QED
        BY <1>1, <1>2, <2>2, <3>1 DEF CliTypeOK
  <2>4. \A l \in Line : IF l < fd THEN Questioned(l) ELSE Idle(l)
      BY <1>1 DEF PhaseKnown
  <2>5. \A l \in Line : l = fd => Questioned(l)'
    <3>1. toServer[fd] = <<>> /\ toClient[fd] = <<>>
        BY <2>1, <2>4 DEF Idle
    <3>2. toServer'[fd] = <<q>>
        BY <1>1, <1>5, <2>1, <3>1, Singles DEF CliTypeOK
    <3>3. Question(asked)' = Question(asked)
        BY <1>2 DEF Question
    <3> QED
        BY <1>1, <1>2, <3>1, <3>2, <3>3 DEF Questioned
  <2>6. \A l \in Line : l # fd => /\ Questioned(l) => Questioned(l)'
                                  /\ Idle(l) => Idle(l)'
      BY <1>1, <1>2, <1>5, LinesKept DEF CliTypeOK
  <2>7. \A l \in Line : l \in Int /\ l <= Lines
      BY <2>1 DEF Line
  <2>8. CASE fd < Lines /\ fd' = fd + 1 /\ client' = client
    <3>1. \A l \in Line : IF l < fd' THEN Questioned(l)' ELSE Idle(l)'
        BY <2>1, <2>4, <2>5, <2>6, <2>7, <2>8
    <3> QED
        BY <1>1, <1>2, <2>3, <2>8, <3>1 DEF CliInv, PhaseKnown
  <2>9. CASE fd = Lines /\ fd' = 1 /\ client' = "reply"
    <3>1. \A l \in Line : ~(l < fd') /\ Questioned(l)'
        BY <2>1, <2>4, <2>5, <2>6, <2>7, <2>9 DEF Line
    <3> QED
        BY <1>1, <1>2, <2>3, <2>9, <3>1 DEF CliInv, PhaseKnown
  <2> QED
      BY <1>5, <2>8, <2>9 DEF NextLine
<1> QED
    BY <1>4, <1>5 DEF Ask, Write

\* An answer is read; behind the last of them the candidates are what was covered.
LEMMA ReplyInv ==
    ASSUME CliInv, Reply
    PROVE  CliInv'
<1> DEFINE line == toClient[fd][1]
           a    == [answers EXCEPT ![fd] = IF line.op = "QCMD" THEN line.codes ELSE {}]
<1>1. CliTypeOK /\ PhaseKnown /\ client = "reply" /\ left = asked /\ toClient[fd] # <<>>
    BY DEF CliInv, Reply, PhaseKnown
<1>2. /\ UNCHANGED <<asked, request, toServer, alive, disabled, done, refused>>
      /\ answers' = a /\ toClient' = [toClient EXCEPT ![fd] = Tail(@)]
      /\ NextLine("decide")
      /\ left' = IF client' = "decide" THEN Filtered(left, a) ELSE left
    BY DEF Reply
<1>3. fd \in Line /\ fd \in 1 .. Lines /\ Lines \in Nat /\ Lines > 0
    BY <1>1, CliAssumption DEF CliTypeOK, Line
<1>4. fd' \in Line /\ client' \in {"reply", "decide"}
    BY <1>1, <1>2, <1>3 DEF NextLine, Line
<1>5. \A l \in Line : IF l < fd THEN Heard(l) ELSE Questioned(l)
    BY <1>1 DEF PhaseKnown
<1>6. /\ toServer[fd] = <<>>
      /\ \/ toClient[fd] = << Has(fd, Question(asked)) >>
         \/ toClient[fd] = << [op |-> "EDIS"] >> /\ <<fd, "QCMD">> \in refused
    BY <1>1, <1>3, <1>5 DEF Questioned
<1>7. a[fd] \subseteq Code /\ \A l \in Line : l = fd => Heard(l)'
  <2>1. \A x : toClient[fd] = <<x>> => line = x /\ toClient'[fd] = <<>>
      BY <1>1, <1>2, <1>3, Singles DEF CliTypeOK
  <2>2. a[fd] = IF line.op = "QCMD" THEN line.codes ELSE {}
      BY <1>1, <1>3 DEF CliTypeOK
  <2>3. \A c \in asked \intersect Supports[fd] \intersect Whole :
             Wire[c] \in Question(asked).codes /\ Wire[c] \in CodesOn(fd)
      BY DEF Question, CodesOn, Whole
  <2> HIDE DEF line, a
  <2>4. CASE toClient[fd] = << Has(fd, Question(asked)) >>
    <3>1. /\ line.op = "QCMD" /\ toClient'[fd] = <<>>
          /\ line.codes = Question(asked).codes \intersect CodesOn(fd)
        BY <2>1, <2>4 DEF Has
    <3>2. a[fd] = Question(asked).codes \intersect CodesOn(fd)
        BY <2>2, <3>1
    <3>3. Question(asked).codes \subseteq Code
        BY DEF Question, Code
    <3> QED
        BY <1>2, <1>6, <2>3, <3>1, <3>2, <3>3 DEF Heard, Idle
  <2>5. CASE toClient[fd] = << [op |-> "EDIS"] >> /\ <<fd, "QCMD">> \in refused
    <3>1. line.op = "EDIS" /\ toClient'[fd] = <<>>
        BY <2>1, <2>5
    <3>2. a[fd] = {}
        BY <2>2, <3>1
    <3> QED
        BY <1>2, <1>6, <2>5, <3>1, <3>2 DEF Heard, Idle
  <2> QED
      BY <1>6, <2>4, <2>5
<1>8. \A l \in Line : l # fd => /\ Heard(l) => Heard(l)'
                                /\ Questioned(l) => Questioned(l)'
    BY <1>1, <1>2, LinesKept DEF CliTypeOK
<1>9. CliTypeOK'
  <2>1. a \in [Line -> SUBSET Code]
      BY <1>1, <1>7 DEF CliTypeOK
  <2>2. toClient' \in [Line -> Seq(Answer)]
    <3>1. Tail(toClient[fd]) \in Seq(Answer)
        BY <1>1, <1>3 DEF CliTypeOK
    <3> QED
        BY <1>1, <1>2, <3>1 DEF CliTypeOK
  <2>3. left' \subseteq asked
      BY <1>1, <1>2 DEF Filtered
  <2> QED
      BY <1>1, <1>2, <1>4, <2>1, <2>2, <2>3 DEF CliTypeOK
<1>10. \A l \in Line : l \in Int /\ l <= Lines
    BY <1>3 DEF Line
<1>11. CASE fd < Lines /\ fd' = fd + 1 /\ client' = client
  <2>1. \A l \in Line : IF l < fd' THEN Heard(l)' ELSE Questioned(l)'
    <3>1. \A l \in Line : l < fd' <=> l < fd \/ l = fd
        BY <1>3, <1>10, <1>11
    <3>2. \A l \in Line : l < fd => l # fd
        BY <1>3, <1>10
    <3> QED
        BY <1>5, <1>7, <1>8, <3>1, <3>2
  <2> QED
      BY <1>1, <1>2, <1>9, <1>11, <2>1 DEF CliInv, PhaseKnown
<1>12. CASE fd = Lines /\ fd' = 1 /\ client' = "decide"
  <2>1. \A l \in Line : Heard(l)'
      BY <1>3, <1>5, <1>7, <1>8, <1>10, <1>12
  <2>2. \A l \in Line : Idle(l)'
      BY <2>1 DEF Heard
  <2>3. left' = Filtered(asked, answers')
      BY <1>1, <1>2, <1>12
  <2>4. Covered(left)'
    <3>1. \A c \in asked : c \in Builtin => c \in left'
        BY <2>3 DEF Filtered
    <3>2. \A l \in Line : \/ <<l, "QCMD">> \in refused
                         \/ \A c \in asked \intersect Supports[l] \intersect Whole : Wire[c] \in answers'[l]
        BY <1>2, <2>1 DEF Heard
    <3>3. \A l \in Line : \A c \in asked : Wire[c] \in answers'[l] => c \in left'
        BY <2>3 DEF Filtered
    <3> QED
        BY <1>2, <3>1, <3>2, <3>3 DEF Covered
  <2> QED
      BY <1>1, <1>2, <1>9, <1>12, <2>2, <2>4 DEF CliInv, PhaseKnown
<1> QED
    BY <1>2, <1>11, <1>12 DEF NextLine

\* A request goes out only if nothing else was covered.
LEMMA DecideInv ==
    ASSUME CliInv, NEW n, Decide(n)
    PROVE  CliInv'
<1>1. CliTypeOK /\ PhaseKnown /\ client = "decide"
    BY DEF CliInv, Decide
<1>2. UNCHANGED <<asked, left, fd, answers, toServer, toClient, alive, disabled, done, refused>>
    BY DEF Decide
<1>3. Covered(left)' /\ \A l \in Line : Idle(l)' /\ done'[l] = <<>>
    BY <1>1, <1>2 DEF PhaseKnown, Idle, Covered
<1>4. CASE client' \in {"no match", "ambiguous", "usage", "notify"} /\ request' = request
  <2>1. CliTypeOK'
      BY <1>1, <1>2, <1>4 DEF CliTypeOK, Ended
  <2> QED
      BY <1>2, <1>3, <1>4, <2>1 DEF CliInv, PhaseKnown
<1>5. ASSUME client' = "send", request' \in Request, request'.op # "QCMD",
             request'.op = "SEND" => \E c \in Command : /\ left = {c} /\ request'.code = Wire[c]
                                                      /\ request'.nargs = Nargs[c]
      PROVE  CliInv'
  <2>1. CliTypeOK'
      BY <1>1, <1>2, <1>5 DEF CliTypeOK
  <2>2. \A l \in Line : Requested(l)' /\ toServer'[l] = <<>>
      BY <1>3 DEF Requested, Idle, Done
  <2>3. SentKnown'
    <3> SUFFICES ASSUME request'.op = "SEND"
                 PROVE  \E c \in asked' \intersect Command :
                            request'.code = Wire[c] /\ request'.nargs = Nargs[c] /\ Covered({c})'
        BY DEF SentKnown, Covered
    <3>1. PICK c \in Command : left = {c} /\ request'.code = Wire[c] /\ request'.nargs = Nargs[c]
        BY <1>5
    <3>2. left' = {c} /\ c \in asked'
        BY <1>1, <1>2, <3>1 DEF CliTypeOK
    <3>3. Covered({c})'
        BY <1>3, <3>2 DEF Covered
    <3> QED
        BY <3>1, <3>2, <3>3
  <2> QED
      BY <1>2, <1>3, <1>5, <2>1, <2>2, <2>3 DEF CliInv, PhaseKnown
<1>6. ASSUME NEW c \in Command, left = {c}, client' = "send", n = Nargs[c],
             request' = [op |-> "SEND", code |-> Wire[c], nargs |-> n]
      PROVE  CliInv'
  <2>1. /\ request' \in Request /\ request'.op = "SEND" /\ request'.code = Wire[c]
        /\ request'.nargs = Nargs[c]
      BY <1>6, CliAssumption DEF Request, Code
  <2> QED
      BY <1>5, <1>6, <2>1
<1>7. ASSUME NEW l \in Line, NEW op \in {"SENA", "SDIS"}, client' = "send",
             request' = [op |-> op, server |-> l]
      PROVE  CliInv'
  <2>1. request' \in Request /\ request'.op = op
      BY <1>7 DEF Request
  <2> QED
      BY <1>5, <1>7, <2>1
<1> QED
    BY <1>4, <1>6, <1>7 DEF Decide

\* It goes out on the line at hand.
LEMMA SendInv ==
    ASSUME CliInv, Send
    PROVE  CliInv'
<1>1. CliTypeOK /\ PhaseKnown /\ client = "send"
    BY DEF CliInv, Send
<1>2. UNCHANGED <<asked, left, answers, request, toClient, alive, disabled, done, refused>>
    BY DEF Send
<1>3. CASE ~alive /\ client' = "killed" /\ UNCHANGED <<fd, toServer>>
  <2>1. CliTypeOK'
      BY <1>1, <1>2, <1>3 DEF CliTypeOK, Ended
  <2> QED
      BY <1>1, <1>2, <1>3, <2>1 DEF CliInv, PhaseKnown
<1>4. CASE toServer' = [toServer EXCEPT ![fd] = Append(@, request)] /\ NextLine("done")
  <2>1. fd \in Line /\ fd \in 1 .. Lines /\ Lines \in Nat /\ Lines > 0
      BY <1>1, CliAssumption DEF CliTypeOK, Line
  <2>2. fd' \in Line /\ client' \in {"send", "done"}
      BY <1>1, <1>4, <2>1 DEF NextLine, Line
  <2>3. request \in Request /\ request.op # "QCMD" /\ SentKnown
      BY <1>1 DEF PhaseKnown
  <2>4. toServer[fd] = <<>> /\ \A l \in Line : done[l] = <<>>
      BY <1>1, <2>1 DEF PhaseKnown
  <2>5. toServer' \in [Line -> Seq(Request)] /\ toServer'[fd] = <<request>>
        /\ \A l \in Line : l # fd => toServer'[l] = toServer[l]
    <3>1. Append(toServer[fd], request) = <<request>> /\ <<request>> \in Seq(Request)
        BY <2>3, <2>4, Singles
    <3> QED
        BY <1>1, <1>4, <2>1, <3>1 DEF CliTypeOK
  <2>6. CliTypeOK'
      BY <1>1, <1>2, <2>2, <2>5 DEF CliTypeOK, Ended
  <2>7. \A l \in Line : Requested(l)'
      BY <1>1, <1>2, <2>4, <2>5 DEF PhaseKnown, Requested, Done
  <2>8. \A l \in Line : client' = "send" /\ l >= fd' => toServer'[l] = <<>>
    <3>1. ASSUME NEW l \in Line, client' = "send", l >= fd'
          PROVE  toServer'[l] = <<>>
      <4>1. fd' = fd + 1
          BY <1>4, <3>1 DEF NextLine
      <4>2. l # fd /\ l >= fd
          BY <2>1, <3>1, <4>1 DEF Line
      <4> QED
          BY <1>1, <2>5, <4>2 DEF PhaseKnown
    <3> QED
        BY <3>1
  <2>9. SentKnown'
      BY <1>2, <2>3 DEF SentKnown, Covered
  <2> QED
      BY <1>2, <2>2, <2>3, <2>4, <2>6, <2>7, <2>8, <2>9 DEF CliInv, PhaseKnown
<1> QED
    BY <1>3, <1>4 DEF Send, Write

\* What a serverside does with a line, by kind.
LEMMA HandleTypes ==
    ASSUME CliTypeOK, NEW l \in Line, Handle(l)
    PROVE  /\ CliTypeOK'
           /\ refused \subseteq refused'
           /\ UNCHANGED <<asked, left, client, fd, answers, request, alive>>
           /\ alive /\ toServer[l] # <<>>
           /\ toServer'[l] = Tail(toServer[l])
           /\ \A k \in Line : k # l => /\ toServer'[k] = toServer[k] /\ toClient'[k] = toClient[k]
                                       /\ done'[k] = done[k]
           /\ \/ done'[l] = done[l]
              \/ /\ toServer[l][1].op = "SEND" /\ client \in Ended
                 /\ \E c \in Meant(l, toServer[l][1]) : done'[l] = Append(done[l], c)
           /\ toServer[l][1].op = "QCMD" =>
                 \/ /\ toClient'[l] = Append(toClient[l], [op |-> "EDIS"])
                    /\ <<l, "QCMD">> \in refused'
                 \/ toClient'[l] = Append(toClient[l], Has(l, toServer[l][1]))
<1> DEFINE line == toServer[l][1]
           edis == [op |-> "EDIS"]
           has  == Has(l, line)
<1>1. /\ alive /\ toServer[l] # <<>> /\ (line.op = "SEND" => client \in Ended)
      /\ UNCHANGED <<asked, left, client, fd, answers, request, alive>>
      /\ toServer' = [toServer EXCEPT ![l] = Tail(@)]
    BY DEF Handle, Readable, clientVars
<1>2. /\ toServer[l] \in Seq(Request) /\ line \in Request /\ Tail(toServer[l]) \in Seq(Request)
    BY <1>1 DEF CliTypeOK
<1>3. /\ toServer' \in [Line -> Seq(Request)]
      /\ toServer'[l] = Tail(toServer[l]) /\ \A k \in Line : k # l => toServer'[k] = toServer[k]
    BY <1>1, <1>2 DEF CliTypeOK
<1>4. /\ line.op \in {"QCMD", "SEND", "SENA", "SDIS"}
      /\ line.op = "QCMD" => line.codes \subseteq Code
    BY <1>2 DEF Request
<1>5. /\ toClient \in [Line -> Seq(Answer)] /\ done \in [Line -> Seq(Command)]
      /\ disabled \in [Line -> BOOLEAN] /\ refused \subseteq Line \X {"QCMD", "SEND", "SDIS"}
    BY DEF CliTypeOK
<1>6. CliTypeOK' <=> /\ toClient' \in [Line -> Seq(Answer)] /\ done' \in [Line -> Seq(Command)]
                     /\ disabled' \in [Line -> BOOLEAN]
                     /\ refused' \subseteq Line \X {"QCMD", "SEND", "SDIS"}
    BY <1>1, <1>3 DEF CliTypeOK
<1>7. CASE /\ disabled[l] /\ line.op # "SENA"
           /\ toClient' = [toClient EXCEPT ![l] = Append(@, edis)]
           /\ refused' = refused \union {<<l, line.op>>}
           /\ UNCHANGED <<disabled, done>>
  <2>1. Append(toClient[l], edis) \in Seq(Answer)
      BY <1>5 DEF Answer
  <2>2. toClient' \in [Line -> Seq(Answer)] /\ toClient'[l] = Append(toClient[l], edis)
        /\ \A k \in Line : k # l => toClient'[k] = toClient[k]
      BY <1>5, <1>7, <2>1
  <2>3. refused' \subseteq Line \X {"QCMD", "SEND", "SDIS"}
      BY <1>4, <1>5, <1>7
  <2> HIDE DEF line, has
  <2> QED
      BY <1>1, <1>3, <1>5, <1>6, <1>7, <2>2, <2>3 DEF line, has
<1>8. CASE /\ ~disabled[l] /\ line.op = "QCMD"
           /\ toClient' = [toClient EXCEPT ![l] = Append(@, has)]
           /\ UNCHANGED <<disabled, done, refused>>
  <2>1. Append(toClient[l], has) \in Seq(Answer)
    <3>1. has \in Answer
        BY <1>4, <1>8 DEF Answer, Has
    <3> QED
        BY <1>5, <3>1
  <2>2. toClient' \in [Line -> Seq(Answer)] /\ toClient'[l] = Append(toClient[l], has)
        /\ \A k \in Line : k # l => toClient'[k] = toClient[k]
      BY <1>5, <1>8, <2>1
  <2> QED
      BY <1>1, <1>3, <1>5, <1>6, <1>8, <2>2
<1>9. CASE /\ ~disabled[l] /\ line.op = "SEND"
           /\ \/ Meant(l, line) = {} /\ done' = done
              \/ \E c \in Meant(l, line) : done' = [done EXCEPT ![l] = Append(@, c)]
           /\ UNCHANGED <<toClient, disabled, refused>>
  <2>1. CASE done' = done
      BY <1>1, <1>3, <1>5, <1>6, <1>9, <2>1
  <2>2. CASE \E c \in Meant(l, line) : done' = [done EXCEPT ![l] = Append(@, c)]
    <3>1. PICK c \in Meant(l, line) : done' = [done EXCEPT ![l] = Append(@, c)]
        BY <2>2
    <3>2. c \in Command
        BY <3>1, CliAssumption DEF Meant
    <3>3. Append(done[l], c) \in Seq(Command)
        BY <1>5, <3>2
    <3>4. done' \in [Line -> Seq(Command)] /\ done'[l] = Append(done[l], c)
          /\ \A k \in Line : k # l => done'[k] = done[k]
        BY <1>5, <3>1, <3>3
    <3> QED
        BY <1>1, <1>3, <1>5, <1>6, <1>9, <3>1, <3>4
  <2> QED
      BY <1>9, <2>1, <2>2
<1>10. CASE /\ line.op \in {"SENA", "SDIS"}
            /\ disabled' = [disabled EXCEPT ![line.server] = (line.op = "SDIS")]
            /\ UNCHANGED <<toClient, done, refused>>
  <2>1. disabled' \in [Line -> BOOLEAN]
      BY <1>5, <1>10
  <2> QED
      BY <1>1, <1>3, <1>5, <1>6, <1>10, <2>1
<1> QED
    BY <1>7, <1>8, <1>9, <1>10 DEF Handle, Has

\* The serverside of a line answers what it is asked, or that it is disabled.
LEMMA HandleInv ==
    ASSUME CliInv, NEW l \in Line, Handle(l)
    PROVE  CliInv'
<1>1. CliTypeOK /\ PhaseKnown
    BY DEF CliInv
<1>2. /\ CliTypeOK' /\ refused \subseteq refused'
      /\ UNCHANGED <<asked, left, client, fd, answers, request, alive>>
      /\ alive /\ toServer[l] # <<>>
      /\ toServer'[l] = Tail(toServer[l])
      /\ \A k \in Line : k # l => /\ toServer'[k] = toServer[k] /\ toClient'[k] = toClient[k]
                                  /\ done'[k] = done[k]
      /\ \/ done'[l] = done[l]
         \/ /\ toServer[l][1].op = "SEND" /\ client \in Ended
            /\ \E c \in Meant(l, toServer[l][1]) : done'[l] = Append(done[l], c)
      /\ toServer[l][1].op = "QCMD" =>
            \/ /\ toClient'[l] = Append(toClient[l], [op |-> "EDIS"])
               /\ <<l, "QCMD">> \in refused'
            \/ toClient'[l] = Append(toClient[l], Has(l, toServer[l][1]))
    BY <1>1, HandleTypes
<1>3. \A k \in Line : k # l => /\ Idle(k) => Idle(k)'
                               /\ Questioned(k) => Questioned(k)'
                               /\ Heard(k) => Heard(k)'
    BY <1>2, LinesKept
<1>4. ~Idle(l) /\ ~Heard(l) /\ client # "killed"
    BY <1>1, <1>2 DEF Idle, Heard, PhaseKnown
<1>5. client \notin {"complete", "decide", "no match", "ambiguous", "usage", "notify", "killed"}
    BY <1>1, <1>4 DEF PhaseKnown
<1>6. CASE client \in {"ask", "reply"}
  <2>1. Questioned(l)
      BY <1>1, <1>4, <1>6 DEF PhaseKnown
  <2> DEFINE q == Question(asked)
  <2>2. toServer[l] = <<q>> /\ toClient[l] = <<>>
      BY <1>2, <2>1 DEF Questioned
  <2>3. toServer[l][1] = q /\ toServer'[l] = <<>>
      BY <1>2, <2>2, Singles
  <2>4. q.op = "QCMD" /\ q' = q
      BY <1>2 DEF Question
  <2> HIDE DEF q
  <2>5. Questioned(l)'
    <3>1. CASE toClient'[l] = Append(toClient[l], [op |-> "EDIS"]) /\ <<l, "QCMD">> \in refused'
        BY <2>2, <2>3, <3>1, Singles DEF Questioned
    <3>2. CASE toClient'[l] = Append(toClient[l], Has(l, toServer[l][1]))
      <4>1. toClient'[l] = << Has(l, q) >>
          BY <2>2, <2>3, <3>2, Singles
      <4>2. Has(l, q)' = Has(l, q)
          BY <2>4 DEF Has
      <4> QED
          BY <2>3, <4>1, <4>2 DEF Questioned, q
    <3> QED
        BY <1>2, <2>3, <2>4, <3>1, <3>2
  <2>6. done'[l] = done[l]
      BY <1>2, <2>3, <2>4
  <2> QED
      BY <1>1, <1>2, <1>3, <1>4, <1>6, <2>5, <2>6 DEF CliInv, PhaseKnown
<1>7. CASE client \in {"send", "done"}
  <2>1. Requested(l) /\ request \in Request /\ request.op # "QCMD"
        /\ SentKnown
      BY <1>1, <1>7 DEF PhaseKnown
  <2>2. toServer[l] = <<request>> /\ done[l] = <<>>
      BY <1>2, <2>1 DEF Requested
  <2>3. toServer[l][1] = request /\ toServer'[l] = <<>>
        /\ \A c : Append(done[l], c) = <<c>>
      BY <1>2, <2>1, <2>2, Singles
  <2>4. \A k \in Line : k # l => (Requested(k) => Requested(k)')
      BY <1>2 DEF Requested, Done
  <2>5. Requested(l)'
    <3>1. CASE done'[l] = done[l]
        BY <2>2, <2>3, <3>1 DEF Requested, Done
    <3>2. CASE /\ toServer[l][1].op = "SEND"
               /\ \E c \in Meant(l, toServer[l][1]) : done'[l] = Append(done[l], c)
      <4>1. PICK c \in Meant(l, request) : done'[l] = <<c>>
          BY <2>3, <3>2
      <4>2. c \in Command /\ CodeOf[c] = request.code /\ Nargs[c] = request.nargs
          BY <4>1, CliAssumption DEF Meant
      <4> QED
          BY <1>2, <2>3, <3>2, <4>1, <4>2 DEF Requested, Done
    <3> QED
        BY <1>2, <3>1, <3>2
  <2>6. SentKnown'
      BY <1>2, <2>1 DEF SentKnown, Covered
  <2>7. client # "done" => \A k \in Line : done'[k] = <<>>
    <3>1. client # "done" => client \notin Ended
        BY <1>7 DEF Ended
    <3> QED
        BY <1>1, <1>2, <3>1 DEF PhaseKnown
  <2>8. client = "send" => \A k \in Line : k >= fd => toServer'[k] = <<>>
      BY <1>1, <1>2, <2>3 DEF PhaseKnown
  <2> QED
      BY <1>1, <1>2, <1>7, <2>1, <2>4, <2>5, <2>6, <2>7, <2>8 DEF CliInv, PhaseKnown
<1> QED
    BY <1>1, <1>5, <1>6, <1>7 DEF CliTypeOK, Ended

\* Disabling a server, and the daemon's end, change nothing that is under way.
LEMMA OthersInv ==
    ASSUME CliInv,
           \/ \E l \in Line : SetDisabled(l)
           \/ DaemonEnds
           \/ UNCHANGED cliVars
    PROVE  CliInv'
<1>1. /\ UNCHANGED <<asked, left, client, fd, answers, request, toServer, toClient, done, refused>>
      /\ alive' \in {alive, FALSE}
    BY DEF SetDisabled, DaemonEnds, cliVars, clientVars
<1>2. CliTypeOK'
  <2>1. disabled' \in [Line -> BOOLEAN]
      BY DEF SetDisabled, DaemonEnds, cliVars, CliInv, CliTypeOK
  <2> QED
      BY <1>1, <2>1 DEF CliInv, CliTypeOK
<1>3. \A l \in Line : /\ Idle(l) => Idle(l)'
                      /\ Questioned(l) => Questioned(l)'
                      /\ Heard(l) => Heard(l)'
                      /\ Requested(l) => Requested(l)'
    BY <1>1 DEF Idle, Questioned, Heard, Requested, Done, Question, Has
<1>4. Covered(left) => Covered(left)'
    BY <1>1 DEF Covered
<1>5. SentKnown => SentKnown'
    BY <1>1 DEF SentKnown, Covered
<1>6. client = "killed" => ~alive'
    BY <1>1 DEF CliInv, PhaseKnown
<1>7. PhaseKnown'
  <2>1. \A l \in Line : toServer'[l] = toServer[l] /\ done'[l] = done[l]
      BY <1>1
  <2> QED
      BY <1>1, <1>3, <1>4, <1>5, <1>6, <2>1 DEF CliInv, PhaseKnown
<1> QED
    BY <1>2, <1>7 DEF CliInv

\* complete() returns candidates that are names main() has.
LEMMA MovactlNextInv ==
    ASSUME CompleteInv, CliInv, [MovactlNext]_movactlVars
    PROVE  CliInv'
<1>1. cands \subseteq Command \union Builtin
    BY NamesAssumption DEF CompleteInv, CompleteTypeOK
<1>2. CASE UNCHANGED cliVars
    BY <1>2, OthersInv
<1>3. ASSUME Completed(cands)
      PROVE  CliInv'
    BY <1>1, <1>3, CompletedInv
<1> QED
    BY <1>2, <1>3, AskInv, ReplyInv, DecideInv, SendInv, HandleInv, OthersInv
    DEF MovactlNext, movactlVars

\* What the client and the serversides know of each other, in every state.
THEOREM CliInvHolds == MovactlSpec => []CliInv
<1>1. MovactlInit => CliInv
    BY CliInitInv DEF MovactlInit
<1> QED
    BY <1>1, MovactlNextInv, MovactlCompletes, CompleteInvHolds, PTL DEF MovactlSpec

\* A device is told a command only if no line that answered has another candidate, and it is
\* told once, for any number of lines, and whoever disables their servers meanwhile.
THEOREM AlwaysToldWhatWasMeant == MovactlSpec => []ToldWhatWasMeant
<1>1. CliInv => ToldWhatWasMeant
  <2> SUFFICES ASSUME CliInv, NEW l \in Line, NEW i \in DOMAIN done[l]
               PROVE  /\ i = 1 /\ done[l][i] \in asked /\ asked \intersect Builtin = {}
                      /\ \A k \in Line : \/ <<k, "QCMD">> \in refused
                                         \/ asked \intersect Supports[k] \intersect Whole
                                              \subseteq {done[l][i]}
      BY DEF ToldWhatWasMeant
  <2>1. done[l] # <<>>
      OBVIOUS
  <2>2. client = "done"
      BY <2>1 DEF CliInv, PhaseKnown
  <2>3. Done(l) /\ SentKnown
      BY <2>1, <2>2 DEF CliInv, PhaseKnown, Requested
  <2>4. PICK c \in Command : /\ CodeOf[c] = request.code /\ Nargs[c] = request.nargs
                             /\ done[l] = <<c>> /\ request.op = "SEND"
      BY <2>1, <2>3 DEF Done
  <2>5. PICK d \in asked \intersect Command :
            request.code = Wire[d] /\ request.nargs = Nargs[d] /\ Covered({d})
      BY <2>3, <2>4 DEF SentKnown
  <2>6. c = d
      BY <2>4, <2>5, CodesAssumption
  <2>7. i = 1 /\ done[l][i] = d
      BY <2>4, <2>6
  <2>8. asked \intersect Builtin = {}
      BY <2>5, CliAssumption DEF Covered
  <2> QED
      BY <2>5, <2>7, <2>8 DEF Covered
<1> QED
    BY <1>1, CliInvHolds, PTL

\* The composition's candidates are the best names, as complete() alone leaves them.
THEOREM MovactlFindsTheBest == MovactlSpec => []CandidatesAreBest
    BY MovactlCompletes, BestAreLeft, PTL
===============================================================================
