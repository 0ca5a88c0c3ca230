----------------------------- MODULE MCKbdRing ------------------------------
(* Model values for KbdRing: an ordinary key and one for each command. *)
EXTENDS KbdRing
=============================================================================
