------------------------------ MODULE MCTheatre ------------------------------
(* The instance of Theatre that TLC checks. *)
EXTENDS Theatre
=============================================================================
