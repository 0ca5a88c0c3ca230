------------------------------ MODULE KeyEvents -----------------------------
(***************************************************************************)
(* What the keyboard decoder promises, key by key rather than byte by      *)
(* byte: an event (a key pressed or released) changes the modifiers or     *)
(* produces one key, tagged with the modifiers at that moment.             *)
(***************************************************************************)
EXTENDS Sequences

CONSTANT Characters   \* what an undefined table entry can hold

VARIABLES mods,   \* the modifiers that are on
          keys    \* the keys produced, [mods, key]

Hold(m)    == mods' = mods \cup {m} /\ UNCHANGED keys
Drop(m)    == mods' = mods \ {m} /\ UNCHANGED keys
Toggle(m)  == mods' = (mods \ {m}) \cup ({m} \ mods) /\ UNCHANGED keys
Produce(k) == keys' = Append(keys, [mods |-> mods, key |-> k]) /\ UNCHANGED mods
Nothing    == UNCHANGED <<mods, keys>>

(* An event is [kind, arg]; arg is a modifier or a key.  The key of a      *)
(* "case" event is chosen by the shift modifier.  A "stray" event, of a    *)
(* key that the tables do not know, is harmless only in that it produces   *)
(* at most one key or changes at most one modifier.                        *)
Event(e) ==
  \/ e.kind = "hold"    /\ Hold(e.arg)
  \/ e.kind = "drop"    /\ Drop(e.arg)
  \/ e.kind = "toggle"  /\ Toggle(e.arg)
  \/ e.kind = "key"     /\ Produce(e.arg)
  \/ e.kind = "case"    /\ Produce(IF "SHIFT" \in mods THEN e.upper ELSE e.arg)
  \/ e.kind = "nothing" /\ Nothing
  \/ /\ e.kind = "stray"
     /\ \/ Nothing
        \/ Toggle("SHIFT")
        \/ \E m \in {"SHIFT", "CTRL", "ALT"} : Hold(m) \/ Drop(m)
        \/ \E k \in Characters : Produce(k)
=============================================================================
