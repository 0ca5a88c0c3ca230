---------------------------- MODULE MCKbdDecode -----------------------------
(* Instance of KbdDecode for TLC: every event of the table, one after      *)
(* another, with losses anywhere in the bytes.                             *)
EXTENDS KbdDecode

AllEvents == DOMAIN Bytes
=============================================================================
