-------------------------------- MODULE MCBos --------------------------------
(* Room for a child that was given up and its successors, and a system that   *)
(* lets sigwait() take what comes or not.                                     *)
EXTENDS Bos

CONSTANTS p1, p2
=============================================================================
