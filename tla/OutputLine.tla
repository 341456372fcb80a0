------------------------------ MODULE OutputLine ------------------------------
(***************************************************************************)
(* What a backend_device promises the code that calls send(): an ordered   *)
(* line to the device.  Everything handed in is written once, in order,    *)
(* with a rest after each write; what was written stays on record, oldest  *)
(* first, until an answer retires it.  No iterators, timers or addresses.  *)
(***************************************************************************)
EXTENDS Integers, Sequences

CONSTANT Msg

VARIABLES
    line,        \* "closed" before the first open, "open", or "gone" with the daemon
    awaiting,    \* written, not retired by an answer yet; oldest first
    unsent,      \* accepted, not written yet; oldest first
    resting      \* the device is being left alone after a write

vars == <<line, awaiting, unsent, resting>>

TypeOK ==
    /\ line \in {"closed", "open", "gone"}
    /\ awaiting \in Seq(Msg)
    /\ unsent \in Seq(Msg)
    /\ resting \in BOOLEAN

Init == line = "closed" /\ awaiting = <<>> /\ unsent = <<>> /\ resting = FALSE

\* Opening, or reopening after an end of file, starts from nothing.
Open ==
    /\ line # "gone"
    /\ line' = "open"
    /\ awaiting' = <<>>
    /\ unsent' = <<>>
    /\ resting' = FALSE

\* A message for a device at rest waits its turn, any other is written at once.
Send(m) ==
    /\ line = "open"
    /\ IF resting
         THEN unsent' = Append(unsent, m) /\ UNCHANGED <<awaiting, resting>>
         ELSE awaiting' = Append(awaiting, m) /\ resting' = TRUE /\ UNCHANGED unsent
    /\ UNCHANGED line

\* The rest is over: the next message goes out, if there is one.
RestOver ==
    /\ line = "open"
    /\ resting
    /\ IF unsent = <<>>
         THEN resting' = FALSE /\ UNCHANGED <<awaiting, unsent>>
         ELSE /\ awaiting' = Append(awaiting, Head(unsent))
              /\ unsent' = Tail(unsent)
              /\ UNCHANGED resting
    /\ UNCHANGED line

\* An answer retires the oldest messages, never one that was not written.
Answer(n) ==
    /\ line = "open"
    /\ n \in 0 .. Len(awaiting)
    /\ awaiting' = SubSeq(awaiting, n + 1, Len(awaiting))
    /\ UNCHANGED <<line, unsent, resting>>

Stop ==
    /\ line' = "gone"
    /\ awaiting' = <<>>
    /\ unsent' = <<>>
    /\ resting' = FALSE

Next ==
    \/ Open
    \/ \E m \in Msg : Send(m)
    \/ RestOver
    \/ \E n \in 1 .. Len(awaiting) : Answer(n)
    \/ Stop

Spec == Init /\ [][Next]_vars /\ WF_vars(RestOver)
=============================================================================
