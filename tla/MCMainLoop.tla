------------------------------ MODULE MCMainLoop ------------------------------
(* A small instance of MainLoop: two devices, one of which is sent `volume'  *)
(* and says the same report over and over, so that a report is told from a   *)
(* part of one, or from two, by its halves.                                  *)
EXTENDS MainLoop

CONSTANTS a1, a2, volume, own, other

MCThrottleOf == [m \in Msg |-> 0]
=============================================================================
