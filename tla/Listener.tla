------------------------------ MODULE Listener ------------------------------
(***************************************************************************)
(* The listener, listener.cc: a program beside the daemon that follows     *)
(* what is switched on in the living room and selects the receiver's input *)
(* for it.  It learns of the receiver's source from a movactl child, of    *)
(* the consoles from the link of their Ethernet ports, of the rest from    *)
(* lines saying on or off.                                                 *)
(*                                                                         *)
(* It runs on one io_service: a completed operation puts its handler in a  *)
(* queue, in order, and what is cancelled afterwards stays in the queue    *)
(* with the result it has.  The input of any error ends the session, and   *)
(* with it the io_service and its handlers; `values' and                   *)
(* `playstation_check_socket' are static and live on in the next session.  *)
(* Volumes and the television are left out: nothing is decided by them.    *)
(* What is switched on and off besides is in Theatre.                      *)
(***************************************************************************)
EXTENDS Sources

CONSTANTS
    UserSource,   \* what somebody may select on the receiver by hand
    MaxChecks,    \* a refused check is repeated if it was one of the first MaxChecks
    MaxReady,     \* bound: the links hold still while this many handlers are queued
    MaxReports    \* bound: so does everything outside while as many reports are on their way

Phy == Device \intersect {"playstation", "old_psx"}

ASSUME ListenerAssumption ==
    /\ "playstation" \in Device /\ Device \subseteq AllDevices
    /\ UserSource \subseteq Source
    /\ MaxChecks \in Nat /\ MaxReady \in Nat /\ MaxReports \in Nat

NoCheck == -1

VARIABLES
    session,      \* "up", "down" between two sessions, "dead" until the supervisor restarts it
    values,       \* the static map of what was last heard of each device and of audio_source
    socket,       \* playstation_check_socket: None, "here", or "stale", of an io_service gone
    connecting,   \* the number of the check under way, or NoCheck
    armed,        \* per console, what phy_update's timer will tell, or None
    ready,        \* completed handlers
    link,         \* outside: the consoles' links
    stereo,       \* outside: the source the receiver is on
    reports,      \* outside: sources reported and not yet read
    behind,       \* history: the receiver has not reported since the session began
    unchecked     \* history: the last check was given up, or lost with its session

checkVars    == <<socket, connecting, unchecked>>
stereoVars   == <<stereo, reports, behind>>
listenerVars == <<session, values, checkVars, armed, ready, link, stereoVars>>

Handler == [link : Phy, line : {"up", "down"}]
             \union [check : 0 .. MaxChecks, error : {"success", "refused", "other", "aborted"}]

IsCheck(h) == "check" \in DOMAIN h

ListenerTypeOK ==
    /\ session \in {"up", "down", "dead"}
    /\ values \in [Device \union {"audio_source"} ->
                    Source \union {Unset, "up", "really_up", "down", "on", "off"}]
    /\ socket \in {None, "here", "stale"}
    /\ connecting \in (-1) .. MaxChecks
    /\ armed \in [Phy -> {None, "up", "down"}]
    /\ ready \in Seq(Handler)
    /\ link \in [Phy -> {"up", "down"}]
    /\ stereo \in Source
    /\ reports \in Seq(Source)
    /\ behind \in BOOLEAN /\ unchecked \in BOOLEAN

NothingHeard == [d \in Device \union {"audio_source"} |-> Unset]

ListenerInit ==
    /\ session = "dead"
    /\ values = NothingHeard
    /\ socket = None
    /\ connecting = NoCheck
    /\ armed = [d \in Phy |-> None]
    /\ ready = <<>>
    /\ link \in [Phy -> {"up", "down"}]
    /\ stereo \in UserSource
    /\ reports = <<>>
    /\ behind = TRUE
    /\ unchecked = TRUE

-----------------------------------------------------------------------------
(* Sessions. *)

\* What goes with the io_service: handlers, timers, the check, the child that reports.
EndSession(to) ==
    /\ session' = to
    /\ connecting' = NoCheck
    /\ armed' = [d \in Phy |-> None]
    /\ ready' = <<>>
    /\ reports' = <<>>
    /\ behind' = TRUE
    /\ unchecked' = TRUE

\* The process ends, and with it what is static.
Die ==
    /\ EndSession("dead")
    /\ values' = NothingHeard
    /\ socket' = None

\* A session begins: mii-tool's first line tells each console's link.
Start ==
    /\ session # "up"
    /\ session' = "up"
    /\ armed' = link
    /\ UNCHANGED <<values, checkVars, ready, link, stereoVars>>

\* An input ends or fails: main() goes on to another session.
SessionEnds ==
    /\ session = "up"
    /\ EndSession("down")
    /\ socket' = IF socket = None THEN None ELSE "stale"
    /\ UNCHANGED <<values, link, stereo>>

\* A child cannot be spawned or waited for, or the program is killed.
Dies ==
    /\ session # "dead"
    /\ Die
    /\ UNCHANGED <<link, stereo>>

-----------------------------------------------------------------------------
(* What is done when something was switched on or off. *)

\* movactl selects the sources in s one after the other.
Selects(s) ==
    /\ stereo' = s[Len(s)]
    /\ reports' = reports \o s
    /\ UNCHANGED behind

\* Receiver and television are switched on for d, but not at night.
PowerOn(d) == Selects(<<SourceOf[d]>>) \/ UNCHANGED stereoVars

\* The receiver leaves the source `from' for that of the first device that is on, for
\* dvd if the computer is in use, or is switched off.
SwitchFrom(from, vals) ==
    \/ vals["audio_source"] # from /\ UNCHANGED stereoVars
    \/ /\ vals["audio_source"] = from
       /\ \E i \in OnIn(vals) : (\A j \in OnIn(vals) : i <= j) /\ Selects(<<SourceOf[Chain[i]]>>)
    \/ /\ vals["audio_source"] = from /\ OnIn(vals) = {}
       /\ Selects(<<"dvd">>) \/ UNCHANGED stereoVars

\* Destroying the socket cancels its connect, whose handler is queued behind rest.
Cancel(rest) ==
    ready' = IF connecting = NoCheck THEN rest
             ELSE Append(rest, [check |-> connecting, error |-> "aborted"])

\* Mutant of CheckReallyUp: a socket that is there is used again.
CheckReallyUpOnce(rest) ==
    /\ IF socket = "here" THEN ready' = rest /\ UNCHANGED <<socket, connecting>>
       ELSE Cancel(rest) /\ socket' = "here" /\ connecting' = 0
    /\ unchecked' = FALSE

\* The socket is replaced and connects for the first time.
CheckReallyUp(rest) ==
    /\ Cancel(rest)
    /\ socket' = "here"
    /\ connecting' = 0
    /\ unchecked' = FALSE

\* Mutant of DropCheck: the socket is kept; its connect is not cancelled.
DropCheckNot(rest) ==
    /\ ready' = rest
    /\ UNCHANGED <<socket, connecting, unchecked>>

DropCheck(rest) ==
    /\ Cancel(rest)
    /\ socket' = None
    /\ connecting' = NoCheck
    /\ UNCHANGED unchecked

\* update() has a new value v of the device d; rest is the queue behind this handler.
Switched(d, v, vals, rest) ==
    IF d = "playstation" /\ v = "up"
    THEN CheckReallyUp(rest) /\ UNCHANGED stereoVars
    ELSE IF d = "playstation" /\ v = "down"
    THEN DropCheck(rest) /\ SwitchFrom("vcr1", vals)
    ELSE /\ ready' = rest
         /\ UNCHANGED checkVars
         /\ IF v # OnValue(d) THEN SwitchFrom(SourceOf[d], vals)
            ELSE IF d = "old_psx"
            THEN Selects(<<"aux1", "dss", "aux1">>) \/ Selects(<<"dss", "aux1">>)
            ELSE PowerOn(d)

\* update() for a line of the device d.  A check's socket from a session before is
\* destroyed after its io_service, which may be the end.
Update(d, v, rest) ==
    IF values[d] = v
    THEN /\ ready' = rest
         /\ UNCHANGED <<session, values, checkVars, armed, stereoVars>>
    ELSE \/ /\ d = "playstation" /\ v # "really_up" /\ socket = "stale"
            /\ Die
            /\ UNCHANGED stereo
         \/ LET vals == [values EXCEPT ![d] = v]
            IN  /\ values' = vals
                /\ Switched(d, v, vals, rest)
                /\ UNCHANGED <<session, armed>>

\* Mutant of HearSource: insert() finds the old value and leaves it.
HearSourceOnce ==
    /\ session = "up" /\ reports # <<>>
    /\ reports' = Tail(reports)
    /\ values' = IF values["audio_source"] = Unset
                 THEN [values EXCEPT !["audio_source"] = reports[1]] ELSE values
    /\ UNCHANGED <<session, checkVars, armed, ready, link, stereo, behind>>

\* update() for a line of audio_source.
HearSource ==
    /\ session = "up" /\ reports # <<>>
    /\ reports' = Tail(reports)
    /\ values' = [values EXCEPT !["audio_source"] = reports[1]]
    /\ UNCHANGED <<session, checkVars, armed, ready, link, stereo, behind>>

\* A line from the television or the game console on the serial port, or of airplay.
Line(d, v) ==
    /\ session = "up" /\ Len(reports) <= MaxReports
    /\ d \notin Phy
    /\ Update(d, v, ready)
    /\ UNCHANGED link

-----------------------------------------------------------------------------
(* The consoles' links, and the check of the playstation. *)

\* Mutant of LinkChanges: a timer that runs is left alone.
LinkChangesOnce(d) ==
    /\ Len(ready) < MaxReady /\ Len(reports) <= MaxReports
    /\ link' = [link EXCEPT ![d] = IF @ = "up" THEN "down" ELSE "up"]
    /\ armed' = IF session = "up" /\ armed[d] = None THEN [armed EXCEPT ![d] = link'[d]] ELSE armed
    /\ UNCHANGED <<session, values, checkVars, ready, stereoVars>>

\* mii-tool tells that a link changes, and phy_update starts its timer anew.
LinkChanges(d) ==
    /\ Len(ready) < MaxReady /\ Len(reports) <= MaxReports
    /\ link' = [link EXCEPT ![d] = IF @ = "up" THEN "down" ELSE "up"]
    /\ armed' = IF session = "up" THEN [armed EXCEPT ![d] = link'[d]] ELSE armed
    /\ UNCHANGED <<session, values, checkVars, ready, stereoVars>>

\* The link has been quiet for three seconds: phy_update_timeout is queued.
TimerExpires(d) ==
    /\ armed[d] # None
    /\ armed' = [armed EXCEPT ![d] = None]
    /\ ready' = Append(ready, [link |-> d, line |-> armed[d]])
    /\ UNCHANGED <<session, values, checkVars, link, stereoVars>>

\* phy_update_timeout runs.
RunLink ==
    /\ ready # <<>> /\ ~IsCheck(ready[1])
    /\ Update(ready[1].link, ready[1].line, Tail(ready))
    /\ UNCHANGED link

\* The playstation takes the connection or not.
ConnectDone(error) ==
    /\ connecting # NoCheck
    /\ connecting' = NoCheck
    /\ ready' = Append(ready, [check |-> connecting, error |-> error])
    /\ UNCHANGED <<session, values, socket, unchecked, armed, link, stereoVars>>

\* A refused check is repeated unless it was the last of its row.
Retries(h) == h.error = "refused" /\ h.check < MaxChecks

\* Mutant of Retry: the checks are not counted.
RetryUncounted(h) ==
    /\ Cancel(Tail(ready))
    /\ connecting' = h.check
    /\ UNCHANGED <<socket, unchecked>>

\* The socket, whichever it is by now, is closed and connects again.
Retry(h) ==
    /\ Cancel(Tail(ready))
    /\ connecting' = h.check + 1
    /\ UNCHANGED <<socket, unchecked>>

\* check_playstation_really_up_handler runs.  It uses the socket when the connect succeeded
\* or is tried again, and the socket may be gone by now.
RunCheck ==
    /\ ready # <<>> /\ IsCheck(ready[1])
    /\ LET h == ready[1] IN
       \/ /\ h.error = "success" /\ socket = "here"
          /\ Update("playstation", "really_up", Tail(ready))
       \/ /\ Retries(h) /\ socket = "here"
          /\ Retry(h)
          /\ UNCHANGED <<session, values, armed, stereoVars>>
       \/ /\ h.error = "success" \/ Retries(h)
          /\ socket = None
          /\ Die /\ UNCHANGED stereo
       \/ /\ h.error # "success" /\ ~Retries(h)
          /\ ready' = Tail(ready)
          /\ unchecked' = IF h.error = "aborted" THEN unchecked ELSE TRUE
          /\ UNCHANGED <<socket, connecting, session, values, armed, stereoVars>>
    /\ UNCHANGED link

-----------------------------------------------------------------------------
(* The receiver. *)

\* Somebody selects a source on the receiver.
UserSelects(s) ==
    /\ Len(ready) < MaxReady /\ Len(reports) <= MaxReports
    /\ s # stereo
    /\ stereo' = s
    /\ reports' = IF session = "up" THEN Append(reports, s) ELSE reports
    /\ UNCHANGED <<session, values, checkVars, armed, ready, link, behind>>

\* The receiver answers what the daemon asks it for a new listener.
Answers ==
    /\ session = "up" /\ behind /\ Len(reports) <= MaxReports
    /\ behind' = FALSE
    /\ reports' = Append(reports, stereo)
    /\ UNCHANGED <<session, values, checkVars, armed, ready, link, stereo>>

ListenerNext ==
    \/ Start \/ SessionEnds \/ Dies
    \/ HearSource
    \/ \E d \in Device \ Phy : \E v \in Values(d) : Line(d, v)
    \/ \E d \in Phy : LinkChanges(d)
    \/ \E d \in Phy : TimerExpires(d)
    \/ RunLink
    \/ \E error \in {"success", "refused", "other"} : ConnectDone(error)
    \/ RunCheck
    \/ \E s \in UserSource : UserSelects(s)
    \/ Answers

ListenerSpec == ListenerInit /\ [][ListenerNext]_listenerVars

\* The loop runs what is ready, timers expire, a connect has a result, and main() and
\* the supervisor start over.
ListenerFairSpec ==
    /\ ListenerSpec
    /\ WF_listenerVars(Start)
    /\ WF_listenerVars(RunLink)
    /\ WF_listenerVars(RunCheck)
    /\ \A d \in Phy : WF_listenerVars(TimerExpires(d))
    /\ WF_listenerVars(\E error \in {"success", "refused", "other"} : ConnectDone(error))

-----------------------------------------------------------------------------
(* Correctness. *)

On(d) == values[d] = OnValue(d)

\* The handler of a check with a result is in the queue q.
Checked(q) == \E i \in DOMAIN q : IsCheck(q[i]) /\ q[i].error # "aborted"

\* Through flapping links, cancelled checks and sessions: while the playstation is
\* believed up but not yet really up a check is under way or has its handler queued,
\* unless the last one was given up or lost with its session.
UpIsChecked ==
    session = "up" /\ values["playstation"] = "up" /\ ~unchecked =>
        connecting # NoCheck \/ Checked(ready)

\* A late check never turns a playstation believed down, or not heard of, into one that
\* is really up.
ReallyUpWasUp ==
    [][ values'["playstation"] = "really_up" => values["playstation"] \in {"up", "really_up"} ]_listenerVars

\* No check goes on for a playstation whose link is believed down.
DownIsNotChecked ==
    session = "up" /\ values["playstation"] = "down" => connecting = NoCheck

\* Once the reports are read, the receiver's source is known as it is, whoever
\* selected it.
BeliefCatchesUp ==
    session = "up" /\ reports = <<>> /\ ~behind => values["audio_source"] = stereo

\* What holds between: a session that is over left nothing, a socket of this session means
\* a playstation that is up, one of a session before has no handlers, and the last
\* report is of the source the receiver is on.
SessionOver == session # "up" =>
    /\ connecting = NoCheck /\ ready = <<>> /\ armed = [d \in Phy |-> None]
    /\ reports = <<>> /\ behind /\ unchecked

SocketKnown ==
    /\ socket = "here" => values["playstation"] \in {"up", "really_up"}
    /\ socket # "here" => connecting = NoCheck
    /\ socket = "stale" => \A i \in DOMAIN ready : ~IsCheck(ready[i])

LastReportTrue == reports # <<>> => reports[Len(reports)] = stereo

ListenerInv ==
    /\ ListenerTypeOK /\ SessionOver /\ SocketKnown /\ LastReportTrue
    /\ UpIsChecked /\ DownIsNotChecked /\ BeliefCatchesUp

\* A link that stays as it is, in a session that lasts, is in the end what is believed,
\* whatever came before.
LinkSettles ==
    \A d \in Phy :
        /\ <>[](session = "up" /\ link[d] = "up")
              => <>[](values[d] \in {"up", "really_up"})
        /\ <>[](session = "up" /\ link[d] = "down") => <>[](values[d] = "down")

\* A playstation that is up gets an answer: it is really up, or down again, or the
\* checks have been given up.
CheckEnds ==
    values["playstation"] = "up" /\ session = "up" /\ ~unchecked
        ~> values["playstation"] # "up" \/ session # "up" \/ unchecked
=============================================================================
