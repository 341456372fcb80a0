---------------------------- MODULE BackendDevice ----------------------------
(***************************************************************************)
(* class backend_device of backend.cc: one serial line, the list of what   *)
(* goes out on it and the timer that spaces the writes.                    *)
(*                                                                         *)
(* Every action is one callback of libevent's single-threaded loop (or one *)
(* turn of daemon.cc's outer loop), so it runs to its end before another   *)
(* one starts.  What a packet means is the driver's business: here it      *)
(* retires any number of the messages written so far.  LgeStatus extends   *)
(* this module with a driver.                                              *)
(***************************************************************************)
EXTENDS OutputList

CONSTANTS
    ThrottleOf,    \* per message, the rest its command asks for; 0: the device's
    OutThrottle    \* the device's own rest (the name:type:path:client:ms argument)

ASSUME ThrottleAssumption ==
    /\ ThrottleOf \in [Msg -> Nat]
    /\ OutThrottle \in Nat

NotPending == -1   \* write_ev is not in libevent's timer queue

VARIABLES
    output,        \* the output_list
    write_ev,      \* ticks until the timer is due, or NotPending
    loopexit,      \* event_loopexit was called; the loop ends after this turn
    daemon,        \* "starting", "running" or "exited"
    rest,          \* history: ticks the device still has to be left alone
    wrote          \* history: something was written since the last open

vars == <<output, write_ev, loopexit, daemon, rest, wrote>>

TypeOK ==
    /\ output \in OutputLists
    /\ write_ev \in Nat \union {NotPending}
    /\ loopexit \in BOOLEAN
    /\ daemon \in {"starting", "running", "exited"}
    /\ rest \in Nat
    /\ wrote \in BOOLEAN

Init ==
    /\ output = EmptyOutput
    /\ write_ev = NotPending
    /\ loopexit = FALSE
    /\ daemon = "starting"
    /\ rest = 0
    /\ wrote = FALSE

-----------------------------------------------------------------------------
\* How long the timer is set after m was written.
DelayAfter(m) == IF ThrottleOf[m] > 0 THEN ThrottleOf[m] ELSE OutThrottle

\* writecb() on the list o, from the timer or from send(): write the next
\* message and arm the timer, or leave the timer alone when there is none.
WriteCb(o) ==
    /\ output' = ToSend(o)
    /\ IF o.send_iter = End
         THEN write_ev' = NotPending /\ UNCHANGED <<rest, wrote>>
         ELSE LET delay == DelayAfter(NodeAt(o, o.send_iter).data)
              IN  write_ev' = delay /\ rest' = delay /\ wrote' = TRUE

\* Mutant of SendOn: send() writes without looking at the timer.
SendOnAtOnce(o, a, m) == WriteCb(Push(o, [addr |-> a, data |-> m]))

\* send() of m, the list being o; the list node goes to the free address a.
SendOn(o, a, m) ==
    LET pushed == Push(o, [addr |-> a, data |-> m])
    IN  IF write_ev = NotPending
          THEN WriteCb(pushed)
          ELSE output' = pushed /\ UNCHANGED <<write_ev, rest, wrote>>

\* close(): the timer and the list are gone.
Closed == output' = EmptyOutput /\ write_ev' = NotPending

-----------------------------------------------------------------------------
\* The daemon's first open, or its reopening of every device once the loop
\* has ended on some device's end of file.
Reopen ==
    /\ daemon = "starting" \/ (daemon = "running" /\ loopexit)
    /\ Closed
    /\ loopexit' = FALSE
    /\ daemon' = "running"
    /\ wrote' = FALSE
    /\ UNCHANGED rest

\* A client command or a status request is sent.
Send(m) ==
    /\ daemon = "running"
    /\ \E a \in Addr \ Addrs(output) : SendOn(output, a, m)
    /\ UNCHANGED <<loopexit, daemon>>

\* The timer is due.
WriteTimeout ==
    /\ daemon = "running"
    /\ write_ev = 0
    /\ WriteCb(output)
    /\ UNCHANGED <<loopexit, daemon>>

\* readcb() hands a packet to the driver's update_status, which takes the n
\* oldest messages off the list, one remove_output each.  It is given inptr(),
\* the front if that was written, and stops when there is none.
Packet(n) ==
    /\ daemon = "running"
    /\ n \in 0 .. SentLen(output)
    /\ output' = PopN(output, n)
    /\ UNCHANGED <<write_ev, loopexit, daemon, rest, wrote>>

\* readcb() reads an end of file, on this device or on another one of the daemon.
Eof ==
    /\ daemon = "running"
    /\ loopexit' = TRUE
    /\ UNCHANGED <<output, write_ev, daemon, rest, wrote>>

\* The process ends: SIGTERM, or err(1) because a read, a write or an open
\* failed.  The memory goes with it.
Exit ==
    /\ daemon # "exited"
    /\ daemon' = "exited"
    /\ Closed
    /\ wrote' = FALSE
    /\ UNCHANGED <<loopexit, rest>>

\* One tick of the clock; the timer does not run past its due time.
Tick ==
    /\ write_ev > 0 \/ rest > 0
    /\ write_ev' = IF write_ev > 0 THEN write_ev - 1 ELSE write_ev
    /\ rest' = IF rest > 0 THEN rest - 1 ELSE 0
    /\ UNCHANGED <<output, loopexit, daemon, wrote>>

Next ==
    \/ Reopen
    \/ \E m \in Msg : Send(m)
    \/ WriteTimeout
    \/ \E n \in 1 .. Len(output.list) : Packet(n)
    \/ Eof
    \/ Exit
    \/ Tick

Spec == Init /\ [][Next]_vars

-----------------------------------------------------------------------------
(* Correctness. *)

\* The two iterators of output_list never dangle across push, pop, to_send and
\* clear, in whatever order the callbacks call them, and although a new node may
\* get the address of a popped one: insert_iter is the last node, so that send()
\* appends, and send_iter is a node of the list or end().
IteratorsValid == WellFormed(output)

\* While something waits to be written the timer is armed: send() leaves the
\* writing to the timer exactly when a timer will come, so no message is left
\* behind on the list for good.
NothingStranded ==
    (daemon = "running" /\ UnsentNodes(output) # <<>>) => write_ev # NotPending

\* The device is left alone for as long as the previous command asked for: a
\* write of this session, from the timer or straight from send(), never falls in
\* the rest the write before it started.  Only the first write after an open may.
RestRespected ==
    [][ (wrote /\ Len(SentNodes(output')) > Len(SentNodes(output))) => rest = 0 ]_vars

\* The inductive invariant behind these.  The timer never comes due before the
\* rest is over, and once the timer has gone there is nothing to write and no
\* rest left; outside a session there is neither list nor timer.
TimerCoversRest ==
    /\ write_ev # NotPending => rest <= write_ev
    /\ (write_ev = NotPending /\ wrote) => rest = 0

IdleOutsideSession ==
    daemon # "running" => output = EmptyOutput /\ write_ev = NotPending

Inv ==
    /\ TypeOK
    /\ IteratorsValid
    /\ output.send_iter # End => write_ev # NotPending
    /\ TimerCoversRest
    /\ IdleOutsideSession

\* The list with its iterators and its timer is the ordered line of OutputLine.
LineState == CASE daemon = "starting" -> "closed"
               [] daemon = "running"  -> "open"
               [] daemon = "exited"   -> "gone"

Awaiting == DataOf(SentNodes(output))
Unsent   == DataOf(UnsentNodes(output))

Abs == INSTANCE OutputLine WITH
    line <- LineState, awaiting <- Awaiting, unsent <- Unsent,
    resting <- write_ev # NotPending

\* What is sent is written once and in order, and answers retire what was written
\* from the oldest on: the promise of OutputLine, fairness included.
ImplementsOutputLine == Abs!Spec

\* Its safety part: every step is a step of OutputLine or changes nothing there.
StepsOfOutputLine == Abs!Init /\ [][Abs!Next]_(Abs!vars)
=============================================================================
