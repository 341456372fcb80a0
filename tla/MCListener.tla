----------------------------- MODULE MCListener -----------------------------
(* The instance of Listener that TLC checks. *)
EXTENDS Listener
=============================================================================
