----------------------------- MODULE MCLgeStatus -----------------------------
(* A television with three commands of two letters, two of which end alike:  *)
(* "ka" (power), "ma" (tuning, which answers two codes), "kc" (aspect ratio). *)
EXTENDS LgeStatus, TLC

CONSTANTS a1, a2, a3, ka, ma, kc

MCMsg == {ka, ma, kc}

\* ka has a rest of its own, as power_off and power_on have.
MCThrottleOf == [m \in MCMsg |-> IF m = ka THEN 1 ELSE 0]
MCFirstOf    == [m \in MCMsg |-> IF m = ma THEN "m" ELSE "k"]
MCSecondOf   == [m \in MCMsg |-> IF m = kc THEN "c" ELSE "a"]

MCCode == {"PWR ", "TAPb", "TAPc", "ART "}
MCRequestOf == ("PWR " :> ka) @@ ("TAPb" :> ma) @@ ("TAPc" :> ma) @@ ("ART " :> kc)

\* The television has at most this many messages to answer.
CONSTANT MaxInflight
Bounded == Len(inflight) <= MaxInflight

AddrSymmetry == Permutations({a1, a2, a3})
=============================================================================
