------------------------------ MODULE MCMovactld ------------------------------
(* Two clients of a television that has the request "ka" for its power and the *)
(* command "ma", the answers to which begin alike.                             *)
EXTENDS Movactld, TLC

CONSTANTS c1, c2, s1, n1, n2, a1, a2, ka, ma, pwr

MCMsg        == {ka, ma}
MCThrottleOf == [m \in MCMsg |-> 0]
MCFirstOf    == (ka :> "k") @@ (ma :> "m")
MCSecondOf   == [m \in MCMsg |-> "a"]
MCRequestOf  == pwr :> ka

MCNameOf      == s1 :> "tv"
MCClientLines == [op: {"SEND"}] \union [op: {"QURY", "STRT", "STOP"}, code: {pwr}]
===============================================================================
