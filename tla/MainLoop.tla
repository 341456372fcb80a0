------------------------------- MODULE MainLoop -------------------------------
(***************************************************************************)
(* The daemon around its devices: the loop of daemon.cc that opens them,   *)
(* dispatches events until somebody calls event_loopexit, and opens them   *)
(* all again, and readcb() of backend.cc, which cuts what comes in from a  *)
(* device into packets.                                                    *)
(*                                                                         *)
(* One device, Own, is the backend_device of module BackendDevice; of the  *)
(* others only the ends of their lines matter here, which reopen Own too.  *)
(* Every action is one callback of libevent or one turn of the outer loop. *)
(* The lines and libevent are external.                                    *)
(***************************************************************************)
EXTENDS BackendDevice, FiniteSets

CONSTANTS
    Device,      \* the devices of the daemon
    Own,         \* the one whose output list and input are modelled
    Report,      \* what Own has to say; reports go out in this cyclic order,
    Nul,         \* a byte the line garbled: termios makes it a NUL
    Sep,         \* the separator that ends every report
    MaxBytes     \* bound: how many bytes may be under way, and how many in `input'

ASSUME MainLoopAssumption ==
    /\ Own \in Device
    /\ Cardinality(Report) \in Nat \ {0} /\ Report = 0 .. Cardinality(Report) - 1
    /\ Nul # Sep /\ {Nul, Sep} \intersect (Report \X {1, 2}) = {}
    /\ MaxBytes \in Nat \ {0}

VARIABLES
    running,     \* cleared by SIGTERM
    asleep,      \* the outer loop is in sleep(1); no callback runs
    sigterm,     \* SIGTERM was caught by libevent and not dispatched yet
    exit_timer,  \* a one-shot timer of event_loopexit is pending
    hung,        \* the devices whose line has ended
    wire,        \* the bytes Own has sent and the daemon has not read
    saying,      \* the report Own is in the middle of, and how much of it is out
    input,       \* the evbuffer: what was read and makes no packet yet
    clean        \* history: the last packet of this session ended with a separator

loopVars == <<running, asleep, sigterm, exit_timer, hung>>
inVars   == <<wire, saying, input, clean>>
mainVars == <<vars, loopVars, inVars>>

\* A report is its two halves and a separator, and behind it comes the next.
Half == Report \X {1, 2}
Byte == Half \union {Nul, Sep}

Place     == Report \X (1 .. 3)
ByteAt(p) == IF p[2] = 3 THEN Sep ELSE p
After(p)  == IF p[2] = 3 THEN <<(p[1] + 1) % Cardinality(Report), 1>> ELSE <<p[1], p[2] + 1>>

MainInit ==
    /\ Init
    /\ running = TRUE
    /\ asleep = FALSE
    /\ sigterm = FALSE
    /\ exit_timer = FALSE
    /\ hung = {}
    /\ wire = <<>>
    /\ saying = <<0, 1>>
    /\ input = <<>>
    /\ clean = FALSE

\* event_dispatch() runs callbacks.
Dispatching == daemon = "running" /\ ~asleep

-----------------------------------------------------------------------------
(* readcb(): from bytes to packets. *)

\* strchr(separators, b) finds the NUL that ends the separators, too.
Ends(b) == b \in {Sep, Nul}

EndsIn(s) == { i \in DOMAIN s : Ends(s[i]) }

\* Where the packet that ends at i begins, less one: the end before it.
Before(s, i) ==
    LET earlier == { j \in EndsIn(s) : j < i }
    IN  IF earlier = {} THEN 0 ELSE CHOOSE j \in earlier : \A k \in earlier : k <= j

\* What the loop hands to update_status of the bytes s.  A packet is excused from
\* being a report when what stands on either side of it is not a separator.
Packets(s) ==
    { [ bytes   |-> SubSeq(s, Before(s, i) + 1, i - 1),
        excused |-> s[i] = Nul
                      \/ IF Before(s, i) = 0 THEN ~clean ELSE s[Before(s, i)] = Nul ]
      : i \in { j \in EndsIn(s) : Before(s, j) < j - 1 } }

Unfinished(s) == SubSeq(s, Before(s, Len(s) + 1) + 1, Len(s))

\* readcb() reads the first k bytes of the line; the driver retires n messages
\* for all the packets there were.
ReadCb(k, n) ==
    LET s == input \o SubSeq(wire, 1, k)
    IN  /\ Dispatching
        /\ k \in 1 .. Len(wire)
        /\ Len(Unfinished(s)) <= MaxBytes
        /\ wire' = SubSeq(wire, k + 1, Len(wire))
        /\ input' = Unfinished(s)
        /\ n > 0 => Packets(s) # {}
        /\ clean' = IF EndsIn(s) = {} THEN clean ELSE s[Before(s, Len(s) + 1)] = Sep
        /\ Packet(n)
        /\ UNCHANGED <<loopVars, saying>>

\* Mutant of EndOfLine: readcb() only looks for packets.
EndOfLineIgnored(d) ==
    Dispatching /\ d \in hung /\ UNCHANGED mainVars

\* readcb() reads an end of file, behind the last byte there was: the loop shall
\* end.  There is nothing new to find in the input.
EndOfLine(d) ==
    /\ Dispatching
    /\ d \in hung
    /\ d = Own => wire = <<>>
    /\ exit_timer' = TRUE
    /\ UNCHANGED <<vars, running, asleep, sigterm, hung, wire, saying, input, clean>>

-----------------------------------------------------------------------------
(* The outer loop. *)

\* Mutant of InputClosed: close() does not touch the input.
InputKept == UNCHANGED input

\* close(): the input is drained.
InputClosed == input' = <<>>

\* backend_reopen_devices(), at the start and after the sleep.  Closing the line
\* may throw away what is on it.
ReopenDevices ==
    /\ daemon = "starting" \/ asleep
    /\ Reopen
    /\ InputClosed
    /\ asleep' = FALSE
    /\ hung' = {}
    /\ wire' \in {wire, <<>>}
    /\ clean' = FALSE
    /\ UNCHANGED <<running, sigterm, exit_timer, saying>>

\* Mutant of LoopExit: the timer stays, as a persistent event would.
LoopExitAgain == Dispatching /\ exit_timer /\ Eof /\ UNCHANGED <<loopVars, inVars>>

\* The timer of event_loopexit: the loop ends with this turn.  In libevent before
\* 2.1 a line that has ended is read once more in the same turn, which leaves a
\* timer for the next session; in later ones it is not.
LoopExit ==
    /\ Dispatching
    /\ exit_timer
    /\ Eof
    /\ exit_timer' \in IF hung = {} THEN {FALSE} ELSE BOOLEAN
    /\ UNCHANGED <<running, asleep, sigterm, hung, inVars>>

\* The process and its memory are gone; so are the bytes.
Ended ==
    /\ Exit
    /\ running' = FALSE /\ asleep' = FALSE /\ sigterm' = FALSE /\ exit_timer' = FALSE
    /\ hung' = {} /\ wire' = <<>> /\ saying' = <<0, 1>>
    /\ input' = <<>> /\ clean' = FALSE

\* event_dispatch() has returned, which is an end of file or the end of all.
GoToSleep ==
    /\ Dispatching /\ loopexit /\ running
    /\ asleep' = TRUE
    /\ UNCHANGED <<vars, running, sigterm, exit_timer, hung, wire, saying, input, clean>>

\* serverside_close_all() and backend_close_all(), and main() returns.
EndNormally == Dispatching /\ loopexit /\ ~running /\ Ended

\* err(1): a read, a write or an open failed; or a driver threw, which breaks the
\* loop, and main() throws it again.
Fail == Ended

\* Mutant of QuitEvent: nothing makes event_dispatch() return.
QuitEventOnlyClears ==
    /\ Dispatching /\ sigterm
    /\ running' = FALSE /\ sigterm' = FALSE
    /\ UNCHANGED <<vars, asleep, exit_timer, hung, inVars>>

\* quit_event()
QuitEvent ==
    /\ Dispatching
    /\ sigterm
    /\ running' = FALSE
    /\ sigterm' = FALSE
    /\ exit_timer' = TRUE
    /\ UNCHANGED <<vars, asleep, hung, wire, saying, input, clean>>

\* SIGTERM comes, in the sleep as well.
SigtermComes ==
    /\ daemon # "exited" /\ running /\ ~sigterm
    /\ sigterm' = TRUE
    /\ UNCHANGED <<vars, running, asleep, exit_timer, hung, inVars>>

-----------------------------------------------------------------------------
(* The output, and the lines. *)

MainSend(m) == Dispatching /\ Send(m) /\ UNCHANGED <<loopVars, inVars>>

MainWriteTimeout == Dispatching /\ WriteTimeout /\ UNCHANGED <<loopVars, inVars>>

MainTick == Tick /\ UNCHANGED <<loopVars, inVars>>

HangUp(d) ==
    /\ daemon = "running" /\ d \notin hung
    /\ hung' = hung \union {d}
    /\ UNCHANGED <<vars, running, asleep, sigterm, exit_timer, inVars>>

\* Own sends its next byte, which may come out as a NUL.
Says ==
    /\ daemon = "running" /\ Own \notin hung
    /\ Len(wire) < MaxBytes
    /\ \E b \in {Nul, ByteAt(saying)} : wire' = Append(wire, b)
    /\ saying' = After(saying)
    /\ UNCHANGED <<vars, loopVars, input, clean>>

MainNext ==
    \/ ReopenDevices
    \/ \E k \in 1 .. MaxBytes, n \in 0 .. Len(output.list) : ReadCb(k, n)
    \/ \E d \in Device : EndOfLine(d)
    \/ LoopExit
    \/ GoToSleep
    \/ EndNormally
    \/ Fail
    \/ QuitEvent
    \/ SigtermComes
    \/ \E m \in Msg : MainSend(m)
    \/ MainWriteTimeout
    \/ MainTick
    \/ \E d \in Device : HangUp(d)
    \/ Says

\* sleep() and event_dispatch() return, libevent runs what is ready or due, and
\* looks at the signals it caught in every turn of every session.
MainSpec ==
    /\ MainInit /\ [][MainNext]_mainVars
    /\ WF_mainVars(MainTick) /\ WF_mainVars(MainWriteTimeout)
    /\ WF_mainVars(ReopenDevices) /\ WF_mainVars(GoToSleep) /\ WF_mainVars(EndNormally)
    /\ WF_mainVars(LoopExit) /\ SF_mainVars(QuitEvent)
    /\ \A d \in Device : WF_mainVars(EndOfLine(d))
    /\ WF_mainVars(\E k \in 1 .. MaxBytes, n \in 0 .. Len(output.list) : ReadCb(k, n))

-----------------------------------------------------------------------------
(* Correctness. *)

MainTypeOK ==
    /\ TypeOK
    /\ running \in BOOLEAN /\ asleep \in BOOLEAN /\ sigterm \in BOOLEAN
    /\ exit_timer \in BOOLEAN /\ hung \subseteq Device
    /\ wire \in Seq(Byte) /\ input \in Seq(Half)
    /\ saying \in Place
    /\ clean \in BOOLEAN

\* What update_status is given when readcb() reads some of what is on the line is a
\* report the device has sent, however its bytes came in, and whatever other device's
\* end of file reopened the line meanwhile.
\* Only next to a garbled byte, or as the first of a session, it may be a part of
\* one; it is never put together from two.
PacketsAreSent ==
    \A k \in 1 .. Len(wire) : \A p \in Packets(input \o SubSeq(wire, 1, k)) :
        /\ \E r \in Report : p.bytes \in {<< <<r, 1>> >>, << <<r, 2>> >>, << <<r, 1>>, <<r, 2>> >>}
        /\ ~p.excused => Len(p.bytes) = 2

\* What makes it so: what is kept and what is on the line are, but for the garbled bytes,
\* consecutive in what Own says, up to where it is now, and behind a separator they begin
\* with a report.  The places of bytes, and of the next, in what Own says:
Along(s, place) ==
    /\ place \in [1 .. Len(s) + 1 -> Place]
    /\ \A i \in 1 .. Len(s) : place[i + 1] = After(place[i]) /\ s[i] \in {Nul, ByteAt(place[i])}

BytesUnderWay ==
    LET s == input \o wire
    IN  \E place \in [1 .. Len(s) + 1 -> Place] :
            Along(s, place) /\ place[Len(s) + 1] = saying /\ (clean => place[1][2] = 1)

MainInv == Inv /\ MainTypeOK /\ BytesUnderWay

\* A SIGTERM ends the daemon, also one that comes while the daemon sleeps or while
\* the loop is about to end on an end of file.
TerminationEnds == sigterm ~> daemon = "exited"

\* Lines that have ended are opened again, or the daemon ends.
LineComesBack == hung # {} ~> hung = {}

\* When no line ends any more the daemon stays in its session: an end of file that
\* was read twice reopens the devices once too often, but not for ever.
SettlesDown == <>[](hung = {}) => <>[](daemon = "exited" \/ ~loopexit)
=============================================================================
