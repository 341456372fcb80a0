------------------------------- MODULE Theatre -------------------------------
(***************************************************************************)
(* The listener, listener.cc, and the living room: what it sends to the    *)
(* receiver and the television for what is switched on and off, while the  *)
(* receiver's reports of that, and of what somebody does by hand, are on   *)
(* their way back.  A command that movactl fails to deliver goes unnoticed *)
(* (movactl_send does not look at the exit status).                        *)
(*                                                                         *)
(* One of the devices, airplay, is heard through a TCP connection whose    *)
(* bytes come in as they like and which ends and is made again; input and  *)
(* tcp_input cut them into lines.                                          *)
(*                                                                         *)
(* The check of the playstation and the timers of the links are in module  *)
(* Listener; here the playstation goes straight to really_up.  Volumes,    *)
(* the television's input and the value "negotiating" change nothing that  *)
(* matters here and are left out.                                          *)
(***************************************************************************)
EXTENDS Sources

CONSTANTS
    UserSource,    \* what somebody may select on the receiver by hand
    MaxReports,    \* bound: the outside waits while more reports are on their way
    MaxBytes       \* bound: halves of airplay's lines that are under way, or kept

ASSUME TheatreAssumption ==
    /\ "airplay" \in Device /\ Device \subseteq AllDevices
    /\ UserSource \subseteq Source
    /\ MaxReports \in Nat /\ MaxBytes \in Nat

VARIABLES
    up,           \* a session is on
    values,       \* the static map of what was last heard
    conn,         \* the airplay connection: "none", "waiting" (3 s), "connecting" or "reading"
    buffer,       \* what was read from it and is no line yet
    power,        \* outside: the receiver is on or off
    source,       \* outside: its input
    tv,           \* outside: the television is on or off
    reports,      \* outside: what the receiver reported and was not read yet
    unasked,      \* outside: what the receiver was not asked for yet since the session began
    playing,      \* outside: airplay is on or off
    wire,         \* outside: what airplay has sent and was not read yet
    mid,          \* outside: airplay is in the middle of a line
    stray,        \* history: a command was lost, or it was never heard that the receiver was on
    torn          \* history: airplay said something that was not heard, or in part

insideVars  == <<up, values>>
stereoVars  == <<power, source, reports>>
airVars     == <<conn, buffer, playing, wire, mid, torn>>
theatreVars == <<insideVars, stereoVars, tv, unasked, stray, airVars>>

Stats == {"power", "audio_source"}

NothingHeard == [d \in Device \union Stats |-> Unset]

\* A line is two halves, of which the second ends it.
Ends(h) == h[2] = 2

TheatreTypeOK ==
    /\ up \in BOOLEAN
    /\ values \in [Device \union Stats ->
                    Source \union {Unset, "up", "really_up", "down", "on", "off", "other"}]
    /\ conn \in {"none", "waiting", "connecting", "reading"}
    /\ power \in {"on", "off"} /\ source \in Source /\ tv \in {"on", "off"}
    /\ reports \in Seq([stat : Stats, value : Source \union {"on", "off"}])
    /\ unasked \subseteq Stats
    /\ playing \in {"on", "off"} /\ mid \in BOOLEAN
    /\ wire \in Seq({"on", "off"} \X {1, 2}) /\ buffer \in Seq({"on", "off"} \X {1, 2})
    /\ stray \in BOOLEAN /\ torn \in BOOLEAN

TheatreInit ==
    /\ up = FALSE
    /\ values = NothingHeard
    /\ conn = "none" /\ buffer = <<>>
    /\ power = "off" /\ source \in UserSource /\ tv = "off"
    /\ reports = <<>> /\ unasked = {}
    /\ playing = "off" /\ wire = <<>> /\ mid = FALSE
    /\ stray = FALSE /\ torn = TRUE

Calm == Len(reports) <= MaxReports

-----------------------------------------------------------------------------
(* Sessions. *)

\* resolve() finds an address to connect to, or none: then there is a timer.
Connect == conn' \in {"connecting", "waiting"}

Start ==
    /\ ~up
    /\ up' = TRUE
    /\ unasked' = Stats
    /\ Connect
    /\ UNCHANGED <<values, stereoVars, tv, stray, buffer, playing, wire, mid, torn>>

OnUnread == \E i \in DOMAIN reports : reports[i] = [stat |-> "power", value |-> "on"]

\* An input ended or failed; or the process ended, and `values' with it.
SessionEnds ==
    /\ up
    /\ up' = FALSE
    /\ values' \in {values, NothingHeard}
    /\ conn' = "none" /\ buffer' = <<>>
    /\ reports' = <<>> /\ unasked' = {}
    /\ wire' = <<>> /\ mid' = FALSE /\ torn' = TRUE
    /\ stray' = (stray \/ (tv = "on" /\ ("power" \in unasked \/ OnUnread)))
    /\ UNCHANGED <<power, source, tv, playing>>

-----------------------------------------------------------------------------
(* What is done when something was switched on or off. *)

Reported(stat, s) == [i \in DOMAIN s |-> [stat |-> stat, value |-> s[i]]]

\* The receiver is switched to p and selects the inputs s, and reports what it did.
Stereo(p, s) ==
    /\ power' = p
    /\ source' = IF s = <<>> THEN source ELSE s[Len(s)]
    /\ reports' = reports \o (IF p = power THEN <<>> ELSE Reported("power", <<p>>))
                          \o Reported("audio_source", s)
    /\ stray' = (stray \/ (p = "off" /\ "power" \in unasked /\ tv = "on"))

\* power_on selects the inputs s, or nothing at night.  The receiver's commands may be
\* lost, or the television's.
PowerOn(s) ==
    \/ UNCHANGED <<stereoVars, tv, stray>>
    \/ Stereo("on", s) /\ tv' \in {tv, "on"}
    \/ UNCHANGED stereoVars /\ tv' = "on" /\ stray' = TRUE

\* Mutant of SwitchFrom: it does not look at the source.
SwitchFromAny(from, vals) ==
    /\ \/ \E i \in OnIn(vals) :
            (\A j \in OnIn(vals) : i <= j) /\ Stereo(power, <<SourceOf[Chain[i]]>>)
       \/ OnIn(vals) = {} /\ (Stereo(power, <<"dvd">>) \/ Stereo("off", <<>>))
       \/ UNCHANGED <<stereoVars, stray>>
    /\ UNCHANGED tv

\* switch_from: the receiver leaves the source `from' for that of the first device that
\* is on, for dvd if the computer is in use, or is switched off; if it gets the command.
SwitchFrom(from, vals) ==
    /\ \/ vals["audio_source"] = from /\ \E i \in OnIn(vals) :
            (\A j \in OnIn(vals) : i <= j) /\ Stereo(power, <<SourceOf[Chain[i]]>>)
       \/ /\ vals["audio_source"] = from /\ OnIn(vals) = {}
          /\ Stereo(power, <<"dvd">>) \/ Stereo("off", <<>>)
       \/ UNCHANGED <<stereoVars, stray>>
    /\ UNCHANGED tv

\* Mutant of Heard: insert() finds the old value and leaves it.
HeardOnce(stat, v) == IF values[stat] = Unset THEN [values EXCEPT ![stat] = v] ELSE values

Heard(stat, v) == [values EXCEPT ![stat] = v]

\* update() for a line about the device d.
UpdateDevice(d, v) ==
    /\ values' = Heard(d, v)
    /\ CASE values[d] = v    -> UNCHANGED <<stereoVars, tv, stray>>
         [] v \notin {values[d], OnValue(d)} -> SwitchFrom(SourceOf[d], values')
         [] OTHER -> IF d = "old_psx"
                       THEN \/ PowerOn(<<"aux1", "dss", "aux1">>)
                            \/ Stereo(power, <<"dss", "aux1">>) /\ UNCHANGED tv
                       ELSE PowerOn(<<SourceOf[d]>>)
    /\ UNCHANGED up

\* update() for a line of the receiver: the television goes off with it, if it gets the
\* command.
HearReport ==
    /\ up /\ reports # <<>>
    /\ LET r   == reports[1]
           off == r.stat = "power" /\ r.value = "off" /\ values["power"] # "off"
       IN  /\ values' = Heard(r.stat, r.value)
           /\ tv' \in (IF off THEN {"off", tv} ELSE {tv})
           /\ stray' = CASE tv' = "off" \/ r = [stat |-> "power", value |-> "on"] -> FALSE
                          [] off   -> TRUE
                          [] OTHER -> stray
    /\ reports' = Tail(reports)
    /\ UNCHANGED <<up, power, source, unasked, airVars>>

\* A line from one of the inputs that do not tear them.
Line(d, v) ==
    /\ up /\ Calm /\ d # "airplay"
    /\ v # "up" \/ d # "playstation"
    /\ UpdateDevice(d, v)
    /\ UNCHANGED <<unasked, airVars>>

-----------------------------------------------------------------------------
(* The airplay connection. *)

\* update() for what was cut out as a line.  The end of a line alone is about nothing; what is
\* glued together is about nothing, or about airplay with a value that is not "on".
HearLine(s) ==
    IF Len(s) = 2 THEN UpdateDevice("airplay", s[1][1])
    ELSE \/ UNCHANGED <<insideVars, stereoVars, tv, stray>>
         \/ Len(s) > 2 /\ UpdateDevice("airplay", "other")

\* Mutant of Receive: the loop over the lines runs on every read.
ReceiveAlways(k) ==
    LET s == buffer \o SubSeq(wire, 1, k)
        n == { i \in DOMAIN s : Ends(s[i]) }
    IN  /\ conn = "reading" /\ Calm /\ k \in 1 .. Len(wire)
        /\ wire' = SubSeq(wire, k + 1, Len(wire)) /\ buffer' = <<>>
        /\ IF n = {} THEN UNCHANGED <<insideVars, stereoVars, tv, stray, torn>>
           ELSE \E i \in n : n = {i} /\ HearLine(SubSeq(s, 1, i)) /\ torn' = (i < Len(s) \/ (torn /\ i # 2))
        /\ UNCHANGED <<unasked, conn, playing, mid>>

\* async_read_until waits for the end of a line; then handle() takes every line there is
\* off the buffer, and with getline's last attempt the beginning of the next one.
\* A read that brings two whole lines does what two reads do.
Receive(k) ==
    LET s == buffer \o SubSeq(wire, 1, k)
        n == { i \in DOMAIN s : Ends(s[i]) }
    IN  /\ conn = "reading" /\ Calm /\ k \in 1 .. Len(wire)
        /\ wire' = SubSeq(wire, k + 1, Len(wire))
        /\ IF n = {}
             THEN /\ buffer' = s
                  /\ UNCHANGED <<insideVars, stereoVars, tv, stray, torn>>
             ELSE \E i \in n :
                  /\ n = {i}
                  /\ HearLine(SubSeq(s, 1, i))
                  /\ buffer' = <<>>
                  /\ torn' = (i < Len(s) \/ (torn /\ i # 2))
        /\ UNCHANGED <<unasked, conn, playing, mid>>

\* The connection ends, with what was under way: handle() gets no bytes and connects
\* again, and what it has of a line stays in the buffer.
ConnectionEnds ==
    /\ conn = "reading" /\ Len(buffer) < MaxBytes
    /\ Connect
    /\ torn' = (torn \/ mid \/ wire # <<>>)
    /\ wire' = <<>> /\ mid' = FALSE
    /\ UNCHANGED <<insideVars, stereoVars, tv, unasked, stray, buffer, playing>>

\* connect_done and connect_next: the connection is there, or the next address is
\* tried, or the timer starts; and connect after the timer.
ConnectDone == conn = "connecting" /\ conn' \in {"reading", "connecting", "waiting"}
TimerExpires == conn = "waiting" /\ Connect

Reconnects ==
    /\ ConnectDone \/ TimerExpires
    /\ UNCHANGED <<insideVars, stereoVars, tv, unasked, stray, buffer, playing, wire, mid, torn>>

-----------------------------------------------------------------------------
(* Outside. *)

\* Airplay goes on or off and says so, if somebody listens, in two halves.
AirplayChanges ==
    /\ ~mid /\ Calm
    /\ playing' = IF playing = "on" THEN "off" ELSE "on"
    /\ IF conn = "reading"
         THEN /\ Len(wire) < MaxBytes
              /\ wire' = Append(wire, <<playing', 1>>) /\ mid' = TRUE /\ UNCHANGED torn
         ELSE torn' = TRUE /\ UNCHANGED <<wire, mid>>
    /\ UNCHANGED <<insideVars, stereoVars, tv, unasked, stray, conn, buffer>>

AirplayGoesOn ==
    /\ mid /\ Len(wire) < MaxBytes
    /\ wire' = Append(wire, <<playing, 2>>) /\ mid' = FALSE
    /\ UNCHANGED <<insideVars, stereoVars, tv, unasked, stray, conn, buffer, playing, torn>>

\* Somebody uses the receiver by hand.
UserDoes(p, s) ==
    /\ Calm
    /\ IF up THEN Stereo(p, s)
       ELSE /\ power' = p /\ source' = IF s = <<>> THEN source ELSE s[1]
            /\ UNCHANGED <<reports, stray>>
    /\ UNCHANGED <<insideVars, tv, unasked, airVars>>

UserSelects(s) == s # source /\ UserDoes(power, <<s>>)
UserSwitches   == \E p \in {"on", "off"} \ {power} : UserDoes(p, <<>>)

\* The receiver answers what the daemon asks it for a new listener.
Answers(stat) ==
    /\ stat \in unasked /\ Calm
    /\ unasked' = unasked \ {stat}
    /\ reports' = reports \o Reported(stat, <<IF stat = "power" THEN power ELSE source>>)
    /\ UNCHANGED <<insideVars, power, source, tv, stray, airVars>>

TheatreNext ==
    \/ Start
    \/ SessionEnds
    \/ HearReport
    \/ \E d \in Device : \E v \in Values(d) : Line(d, v)
    \/ \E k \in 1 .. MaxBytes : Receive(k)
    \/ ConnectionEnds
    \/ Reconnects
    \/ AirplayChanges
    \/ AirplayGoesOn
    \/ \E s \in UserSource : UserSelects(s)
    \/ UserSwitches
    \/ \E stat \in Stats : Answers(stat)

TheatreSpec == TheatreInit /\ [][TheatreNext]_theatreVars

-----------------------------------------------------------------------------
(* Correctness. *)

On(d) == values[d] = OnValue(d)

\* All the receiver said has been heard.
Quiet == up /\ reports = <<>> /\ unasked = {}

\* While the receiver's state is known, a device that goes off takes the receiver only from
\* its own source, and only to a device that is on, or to dvd; and nothing but that
\* makes the listener switch the receiver off.
OffTakesOnlyItsOwn ==
    [][ \A d \in Device :
          /\ Quiet /\ values[d] # values'[d] /\ values'[d] # OnValue(d) /\ values'[d] # "up"
          /\ <<power, source>>' # <<power, source>>
          => /\ source = SourceOf[d]
             /\ \/ source' = "dvd"
                \/ \E e \in Device : On(e)' /\ source' = SourceOf[e]
                \/ power' = "off" /\ \A i \in DOMAIN Chain : Chain[i] \in Device => ~On(Chain[i])' ]_theatreVars

\* Once everything is heard a receiver that is off has taken the television with it, in
\* whatever order it went on and off, by hand or by command, while its reports were
\* under way; but for a command that was lost, and for a receiver of which it was never
\* heard that it had gone on, so that "off" is no news.  And the listener takes
\* the television from a receiver that is on only for an old report, behind which
\* the one that it went on again is still to be read.
TelevisionFollowsReceiver ==
    /\ [](Quiet /\ power = "off" /\ tv = "on" => stray)
    /\ [][ tv = "on" /\ tv' = "off" /\ power = "on" => OnUnread' ]_theatreVars

\* However its lines were cut into reads, airplay is believed to be what it said last once
\* everything is read, unless the connection ended, or the beginning of a line was
\* thrown away behind the line before it, and no whole line has come since.
AirplayIsBelieved ==
    conn = "reading" /\ wire = <<>> /\ ~mid /\ ~torn => values["airplay"] = playing

\* What makes AirplayIsBelieved so.  Behind an end of a line there is nothing but lines; what
\* was kept of older connections has no end in it; and as long as all that was said was heard,
\* or is in what is kept and on its way, that is lines from its beginning.
Halves == buffer \o wire

LinesUnderWay ==
    /\ (conn = "none") <=> ~up
    /\ conn # "reading" => (wire = <<>> /\ ~mid)
    /\ \A i \in DOMAIN buffer : ~Ends(buffer[i])
    /\ (mid /\ Halves # <<>>) => Halves[Len(Halves)] = <<playing, 1>>
    /\ (~mid /\ wire # <<>>) => wire[Len(wire)] = <<playing, 2>>
    /\ \A i \in 2 .. Len(Halves) :
          /\ Ends(Halves[i]) => Halves[i - 1] = <<Halves[i][1], 1>>
          /\ \A j \in 1 .. i - 1 : Ends(Halves[j]) => (Ends(Halves[i]) <=> ~Ends(Halves[i - 1]))
    /\ ~torn => /\ Halves = <<>> => (~mid /\ values["airplay"] = playing)
                /\ Halves # <<>> => ~Ends(Halves[1])
                /\ (~mid /\ Halves # <<>>) => Halves[Len(Halves)] = <<playing, 2>>
                /\ \A i \in 2 .. Len(Halves) : (Ends(Halves[i]) <=> ~Ends(Halves[i - 1]))

\* What makes the other two so.  The last report of the receiver's power, or of its input, is
\* true; when it is heard, and the receiver was asked, so is what is believed.
Actual(stat) == IF stat = "power" THEN power ELSE source

About(s, stat) == { i \in DOMAIN s : s[i].stat = stat }

SaysLast(s, stat, v) ==
    \A i \in About(s, stat) : (\A j \in About(s, stat) : j <= i) => s[i].value = v

ReportsFollow ==
    /\ ~up => reports = <<>> /\ unasked = {}
    /\ \A stat \in Stats :
          /\ SaysLast(reports, stat, Actual(stat))
          /\ up /\ stat \notin unasked /\ About(reports, stat) = {} => values[stat] = Actual(stat)

\* And a television that is on will hear that the receiver goes off.
OffIsNews ==
    tv = "on" /\ ~stray => \/ values["power"] # "off"
                           \/ OnUnread
                           \/ up /\ "power" \in unasked /\ power = "on"

TheatreInv == TheatreTypeOK /\ LinesUnderWay /\ ReportsFollow /\ OffIsNews
=============================================================================
