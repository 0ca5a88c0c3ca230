----------------------------- MODULE MCPcnet32 ------------------------------
(* Instances of Pcnet32 for TLC: safety with two descriptors on each ring  *)
(* and missed frames, liveness without missed frames.                      *)
EXTENDS Pcnet32
=============================================================================
