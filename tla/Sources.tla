------------------------------- MODULE Sources -------------------------------
(***************************************************************************)
(* The devices of the living room as listener.cc knows them: the input of  *)
(* the receiver each has, what is heard of it, and the order in which      *)
(* switch_from looks for one that is on.  Listener and Theatre extend it.  *)
(***************************************************************************)
EXTENDS Integers, Sequences

CONSTANT Device   \* the devices of the instance

AllDevices == {"playstation", "old_psx", "wii", "tv", "airplay"}

\* The receiver's input for each device, and the devices switch_from looks at.
SourceOf == [playstation |-> "vcr1", old_psx |-> "aux1", wii |-> "dss",
             tv |-> "tv", airplay |-> "dvd"]
Source   == {"vcr1", "aux1", "dss", "tv", "dvd"}
Chain    == <<"playstation", "old_psx", "wii", "tv">>

Unset == "unset"
None  == "none"

\* What is heard of a device, and the value with which it counts as on.
Values(d)  == CASE d = "playstation" -> {"up", "really_up", "down"} [] d = "old_psx" -> {"up", "down"}
                [] OTHER -> {"on", "off"}
OnValue(d) == CASE d = "playstation" -> "really_up" [] d = "old_psx" -> "up" [] OTHER -> "on"

\* The places in the Chain of the devices that are on.
OnIn(vals) == {i \in DOMAIN Chain : Chain[i] \in Device /\ vals[Chain[i]] = OnValue(Chain[i])}
=============================================================================
