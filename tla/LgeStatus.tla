------------------------------ MODULE LgeStatus ------------------------------
(***************************************************************************)
(* The LG television driver, lge_status.cc, on a backend_device.           *)
(*                                                                         *)
(* A command or status request starts with two letters ("ka 00 FF"), but   *)
(* the television's answer repeats only the second ("a 01 OK01x").  The    *)
(* driver supplies the first from its memory of what it wrote: an answer   *)
(* belongs to the oldest written message with the same second letter, and  *)
(* everything older than that is taken to be answered or lost.             *)
(*                                                                         *)
(* The television is external: it answers what it reads in order, and an   *)
(* answer may be lost (it was off, or the line was noisy).                 *)
(***************************************************************************)
EXTENDS BackendDevice

CONSTANTS
    Code,        \* the status codes, as "PWR "
    RequestOf,   \* per code, the message that asks the television for it
    FirstOf,     \* per message, its first letter
    SecondOf,    \* per message, its second letter
    NoMsg        \* stands for "no message" in an event

ASSUME LettersAssumption ==
    /\ RequestOf \in [Code -> Msg]
    /\ DOMAIN FirstOf = Msg
    /\ DOMAIN SecondOf = Msg
    /\ NoMsg \notin Msg

VARIABLES
    inflight,    \* television: the messages it has read and will still answer, in order
    event,       \* history: the last answer, and what the driver made of it
    aligned,     \* history: no answer came for a message the list did not hold,
                 \* since the television last had nothing to answer
    lossless     \* history: nor was an answer lost since list and television were empty

lgeVars == <<output, write_ev, loopexit, daemon, rest, wrote,
             inflight, event, aligned, lossless>>

Letters == { SecondOf[m] : m \in Msg }

NoEvent == [kind |-> "none"]

\* An event names the message the television answered (NoMsg: none at all) and
\* the codes the driver notified for it.
Unmatched(m)       == [kind |-> "unmatched", answers |-> m]
Matched(m, codes)  == [kind |-> "matched", answers |-> m, notified |-> codes]

LgeInit ==
    /\ Init
    /\ inflight = <<>>
    /\ event = NoEvent
    /\ aligned = TRUE
    /\ lossless = TRUE

-----------------------------------------------------------------------------
(* The driver. *)

\* The written messages an answer with this letter could belong to.
MatchesFor(letter) ==
    { i \in 1 .. SentLen(output) : SecondOf[output.list[i].data] = letter }

\* Mutants of RetiredBy: the last match instead of the first, the list up to but
\* not including the match, and everything.
RetiredByLast(letter) ==
    IF MatchesFor(letter) = {}
      THEN SentLen(output)
      ELSE CHOOSE i \in MatchesFor(letter) : \A j \in MatchesFor(letter) : j <= i

RetiredBefore(letter) ==
    IF MatchesFor(letter) = {}
      THEN SentLen(output)
      ELSE (CHOOSE i \in MatchesFor(letter) : \A j \in MatchesFor(letter) : i <= j) - 1

RetiresAll(letter) == SentLen(output)

\* How many messages update_status takes off the list: up to and including the
\* first match; all of them when there is none ("No output match").
RetiredBy(letter) ==
    IF MatchesFor(letter) = {}
      THEN SentLen(output)
      ELSE CHOOSE i \in MatchesFor(letter) : \A j \in MatchesFor(letter) : i <= j

\* The codes of every entry of lge_notifies whose command has these two letters.
CodesFor(first, letter) ==
    { c \in Code : FirstOf[RequestOf[c]] = first /\ SecondOf[RequestOf[c]] = letter }

\* The codes of a message.
CodesOf(m) == CodesFor(FirstOf[m], SecondOf[m])

\* Mutant of UpdateStatus: only the letter in the answer is compared with the
\* entries of lge_notifies.
UpdateStatusByLetter(letter, wellFormed, answers) ==
    /\ Packet(RetiredBy(letter))
    /\ event' =
          IF MatchesFor(letter) = {}
            THEN Unmatched(answers)
            ELSE Matched(answers,
                   IF wellFormed
                     THEN { c \in Code : SecondOf[RequestOf[c]] = letter }
                     ELSE {})

\* update_status() of an answer that carries this letter.  It was well formed if
\* it is long enough and says OK or NG; if not, nobody is notified, but what it
\* matched is off the list all the same.
UpdateStatus(letter, wellFormed, answers) ==
    /\ Packet(RetiredBy(letter))
    /\ event' =
          IF MatchesFor(letter) = {}
            THEN Unmatched(answers)
            ELSE Matched(answers,
                   IF wellFormed
                     THEN CodesFor(FirstOf[output.list[RetiredBy(letter)].data], letter)
                     ELSE {})

-----------------------------------------------------------------------------
(* The bookkeeping of the histories. *)

\* What the device writes in this step, if anything, is on its way.
Delivered ==
    IF SentLen(output') > SentLen(output)
      THEN Append(inflight, output'.list[SentLen(output')])
      ELSE inflight

\* A quiet television is aligned with any list, and in step with an empty one.
Judge(stillAligned, stillLossless) ==
    /\ aligned' = (inflight' = <<>> \/ (aligned /\ stillAligned))
    /\ lossless' = ((inflight' = <<>> /\ SentLen(output') = 0) \/ (lossless /\ stillLossless))

-----------------------------------------------------------------------------
(* Actions. *)

\* send_command() or send_status_request() found the message to send.
LgeSend(m) ==
    /\ Send(m)
    /\ inflight' = Delivered
    /\ event' = NoEvent
    /\ Judge(TRUE, TRUE)

LgeWriteTimeout ==
    /\ WriteTimeout
    /\ inflight' = Delivered
    /\ event' = NoEvent
    /\ Judge(TRUE, TRUE)

\* The television answers the oldest message it has not answered.
Answer(wellFormed) ==
    /\ inflight # <<>>
    /\ LET m == Head(inflight).data IN UpdateStatus(SecondOf[m], wellFormed, m)
    /\ inflight' = Tail(inflight)
    /\ Judge(TRUE, TRUE)

\* Something comes in that is no answer to anything written.
Stray(letter, wellFormed) ==
    /\ UpdateStatus(letter, wellFormed, NoMsg)
    /\ inflight' = inflight
    /\ Judge(FALSE, FALSE)

\* The television never answers the i-th message.
LoseAnswer(i) ==
    /\ inflight' = SubSeq(inflight, 1, i - 1) \o SubSeq(inflight, i + 1, Len(inflight))
    /\ event' = NoEvent
    /\ UNCHANGED vars
    /\ Judge(TRUE, FALSE)

\* Reopening forgets the list; the television does not know.
LgeReopen ==
    /\ Reopen
    /\ inflight' = inflight
    /\ event' = NoEvent
    /\ Judge(FALSE, FALSE)

LgeEof == Eof /\ event' = NoEvent /\ UNCHANGED <<inflight, aligned, lossless>>

LgeExit ==
    /\ Exit
    /\ inflight' = <<>>
    /\ event' = NoEvent
    /\ Judge(TRUE, TRUE)

LgeTick == Tick /\ event' = NoEvent /\ UNCHANGED <<inflight, aligned, lossless>>

LgeNext ==
    \/ \E m \in Msg : LgeSend(m)
    \/ LgeWriteTimeout
    \/ \E wellFormed \in BOOLEAN : Answer(wellFormed)
    \/ \E letter \in Letters, wellFormed \in BOOLEAN : Stray(letter, wellFormed)
    \/ \E i \in 1 .. Len(inflight) : LoseAnswer(i)
    \/ LgeReopen
    \/ LgeEof
    \/ LgeExit
    \/ LgeTick

LgeSpec == LgeInit /\ [][LgeNext]_lgeVars

-----------------------------------------------------------------------------
(* Correctness. *)

\* s can be had from t by leaving elements out.
IsSubsequence(s, t) ==
    \E f \in [DOMAIN s -> DOMAIN t] :
        /\ \A i \in DOMAIN s : s[i] = t[f[i]]
        /\ \A i, j \in DOMAIN s : i < j => f[i] < f[j]

\* In this step the television answers one of the messages it has read.
TvAnswered == event' # NoEvent /\ inflight' # inflight

\* As long as no answer is lost and nothing stray comes in, the written part of
\* the list is exactly what the television has still to answer, in order: no
\* answer retires too much or too little, although it names half a command.
ListIsWhatTvOwes == lossless => SentNodes(output) = inflight

\* Then every answer is reported under the codes of the command it answers, all of
\* them and no other; under none only if it was malformed.
AnswersNamedRight ==
    [][ \A wellFormed \in BOOLEAN : (lossless /\ Answer(wellFormed)) =>
            /\ event'.kind = "matched"
            /\ event'.notified =
                   IF wellFormed THEN CodesOf(Head(inflight).data) ELSE {} ]_lgeVars

\* Lost answers alone never make the driver forget a command that will still be
\* answered: what the television owes is on the list, in the same order.
OwedAnswersRemembered == aligned => IsSubsequence(inflight, SentNodes(output))

\* So, whatever was lost, no answer is thrown away as "No output match", and none
\* retires a message written later than the one it answers: it may be taken for an
\* older message of the same letter, never for a younger one.  After strays or a
\* reopen in the middle of an exchange this holds again from the moment the
\* television has nothing to answer.
AnswersFindTheirCommand ==
    [][ (aligned /\ TvAnswered) =>
            /\ event'.kind = "matched"
            /\ \E k \in 1 .. SentLen(output) :
                 /\ output.list[k] = Head(inflight)
                 /\ SentLen(output) - SentLen(output') \in 1 .. k ]_lgeVars
=============================================================================
