------------------------------ MODULE MCConsole -----------------------------
(* Instances of Console for TLC: a screen of two rows of four cells. *)
EXTENDS Console

AllControls == {"BS", "TAB", "CR", "NL"}
ShortMessage == <<"h", "NL">>
OneChar == <<"h">>
=============================================================================
