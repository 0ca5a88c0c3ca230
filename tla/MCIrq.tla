-------------------------------- MODULE MCIrq -------------------------------
(* Instance of Irq for TLC: the timer on line 0, the keyboard on line 1,   *)
(* two network cards that share line 8 of the slave, the handler of int    *)
(* $48.                                                                    *)
EXTENDS Irq

CONSTANTS pit, kbd, net1, net2, sys

MCLineOf == [h \in Handler |->
  CASE h = pit -> 0 [] h = kbd -> 1 [] h \in {net1, net2} -> 8 [] h = sys -> 16]
=============================================================================
