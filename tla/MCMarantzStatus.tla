--------------------------- MODULE MCMarantzStatus ---------------------------
(* A receiver with a code in each of layers 1, 2 and 4 and one without an     *)
(* update function.  The message for a set of layers is the set itself.       *)
EXTENDS MarantzStatus, TLC

CONSTANTS a1, a2, askVol, askMenu, press, vol, slp, mnu, cur

MCAsk == {askVol, askMenu, press}
MCMsg == (SUBSET (1 .. 4)) \union MCAsk
MCAstOf == [s \in SUBSET (1 .. 4) |-> s]
MCAnswerTo == (askVol :> vol) @@ (askMenu :> mnu) @@ (press :> cur)
MCLayerOf == (vol :> 1) @@ (slp :> 2) @@ (mnu :> 4) @@ (cur :> 0)
MCThrottleOf == [m \in MCMsg |-> 0]

\* The receiver has at most this many packets on the way.
CONSTANT MaxIncoming
Bounded == Len(incoming) <= MaxIncoming

AddrSymmetry == Permutations({a1, a2})
=============================================================================
