----------------------------- MODULE MCCliNotify -----------------------------
(* Instances of CliNotify: command lines of one and of two arguments, which name *)
(* a code that the device has, one it has not, either, or the same one twice.    *)
EXTENDS CliNotify

CONSTANTS vol, src, none

MCCode == {vol, src, none}
MCHas  == {vol, src}

\* The television, and every other kind of value for the first of the codes.
Kinds(k, l)  == [c \in MCHas |-> IF c = vol THEN k ELSE l]
Tv           == Kinds("tv int", "tv source")
OtherKinds   == Kind \ {"tv int"}

ShortArgLists == { <<{none}>>, <<{vol, none}>>, <<{vol, src}>> }
LongArgLists  == { <<{vol}, {src}>>, <<{vol}, {vol}>>, <<{vol, none}, {src}>> }

AllCases == [args : ShortArgLists \union LongArgLists, kind : {Tv}]
              \union [args : { <<{vol}>> }, kind : { Kinds(k, "tv bool") : k \in Kind }]
TwoCases == { [args |-> <<{vol}, {src}>>, kind |-> Tv] }

Ok(arg) == [ok |-> TRUE, arg |-> arg]
Ng      == [ok |-> FALSE, arg |-> <<>>]

\* "01", "40", "00001", "0019", "00AF", "A1", "20"; "2", "-10", "1G", "G1", "12", "11", "21",
\* "A ", "-FF", "-30", "08750", "0531", "0020", "205", "1".
MCSays == [k \in Kind |->
    CASE k = "tv bool"    -> { Ok(<<48, 49>>), Ng }
      [] k = "tv int"     -> { Ok(<<52, 48>>), Ng }
      [] k = "tv band"    -> { Ok(<<48, 48, 48, 48, 49>>), Ng }
      [] k = "tv channel" -> { Ok(<<48, 48, 49, 57>>), Ok(<<48, 48, 65, 70>>) }
      [] k = "tv source"  -> { Ok(<<65, 49>>), Ok(<<50, 48>>) }
      [] k \in {"bool", "int"}       -> { Ok(<<50>>), Ok(<<45, 49, 48>>) }
      [] k \in {"direct", "second"}  -> { Ok(<<49, 71>>), Ok(<<71, 49>>) }
      [] k = "trigger"    -> { Ok(<<49, 50>>), Ok(<<49, 49>>), Ok(<<50, 49>>) }
      [] k = "string"     -> { Ok(<<65, 32>>), Ok(<<>>) }
      [] k = "volume"     -> { Ok(<<45, 70, 70>>), Ok(<<45, 51, 48>>) }
      [] k = "band"       -> { Ok(<<48, 56, 55, 53, 48>>), Ok(<<48, 53, 51, 49>>), Ok(<<48, 48, 50, 48>>) }
      [] OTHER            -> { Ok(<<50, 48, 53>>), Ok(<<49>>) }]

\* The television says the same again.
MCSaysOnce == [k \in Kind |-> { Ok(<<49, 48>>) }]
=============================================================================
