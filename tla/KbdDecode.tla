------------------------------ MODULE KbdDecode -----------------------------
(***************************************************************************)
(* decode() of keyboard.c: the state machine that turns the bytes of the   *)
(* keyboard (scan code set 1) into keys and modifiers, one byte for each   *)
(* interrupt.  The keyboard, or the line from it, may lose a byte: that is *)
(* what the ERROR branch of decode has to recover from.                    *)
(*                                                                         *)
(* kbd_state keeps the code's values; kbd_shiftstate is the set of its     *)
(* bits.  A character is named by its table and its scan code: <<"lower",  *)
(* c>> stands for scancodes[c].  What the queue does with a key is in      *)
(* module KbdRing.                                                         *)
(***************************************************************************)
EXTENDS Integers, Sequences

CONSTANTS
  Events,      \* names of the key events the keyboard sends
  MaxEvents,   \* bound: events in one behaviour
  MaxLost,     \* bound: bytes lost in one behaviour
  Lag          \* whole events after which the decoder is in step again

VARIABLES
  kbd_state, kbd_shiftstate,
  keys,       \* history: what was given to kbd_enqueue, [mods, key]
  event,      \* the event whose bytes are arriving
  pending,    \* its bytes still to come
  atrest,     \* it began with the decoder at rest
  broken,     \* it has lost a byte
  clean,      \* whole events since the last trouble
  nevents, lost

vars == <<kbd_state, kbd_shiftstate, keys, event, pending, atrest, broken, clean, nevents, lost>>

-----------------------------------------------------------------------------
(* The keyboard *)

(* The bytes of each event: presses and releases (written with an r) of    *)
(* plain, modifier and extended keys, the two long sequences, the up key   *)
(* wrapped in the fake shifts sent while shift is held, and F13.           *)
Bytes == [
  a |-> <<\h1E>>,            ar |-> <<\h9E>>,
  f1 |-> <<\h3B>>,           f13 |-> <<\h64>>,
  num |-> <<\h45>>,          numr |-> <<\hC5>>,
  lshift |-> <<\h2A>>,       lshiftr |-> <<\hAA>>,
  rshift |-> <<\h36>>,       rshiftr |-> <<\hB6>>,
  caps |-> <<\h3A>>,         capsr |-> <<\hBA>>,
  ctrl |-> <<\h1D>>,         ctrlr |-> <<\h9D>>,
  alt |-> <<\h38>>,          altr |-> <<\hB8>>,
  rctrl |-> <<\hE0, \h1D>>,  rctrlr |-> <<\hE0, \h9D>>,
  ralt |-> <<\hE0, \h38>>,   raltr |-> <<\hE0, \hB8>>,
  up |-> <<\hE0, \h48>>,     upr |-> <<\hE0, \hC8>>,
  insert |-> <<\hE0, \h52>>, insertr |-> <<\hE0, \hD2>>,
  sup |-> <<\hE0, \hAA, \hE0, \h48>>,   supr |-> <<\hE0, \hC8, \hE0, \h2A>>,
  prtsc |-> <<\hE0, \h2A, \hE0, \h37>>, prtscr |-> <<\hE0, \hB7, \hE0, \hAA>>,
  pause |-> <<\hE1, \h1D, \h45, \hE1, \h9D, \hC5>> ]

(* The longest way back into step takes three events. *)
ASSUME EventAssumption == Events \subseteq DOMAIN Bytes /\ Lag \in Nat /\ Lag >= 3

Lower(c) == <<"lower", c>>
Upper(c) == <<"upper", c>>
Ext(c)   == <<"ext", c>>
PAUSE    == <<"pause", 0>>
PRTSC    == <<"prtsc", 0>>

Does(kind, arg) == [kind |-> kind, arg |-> arg]

(* What each event means to the user. *)
Meaning(e) ==
  CASE e = "a"   -> [kind |-> "case", arg |-> Lower(\h1E), upper |-> Upper(\h1E)]
    [] e = "f1"  -> Does("key", Lower(\h3B))
    [] e = "num" -> Does("key", Lower(\h45))
    [] e \in {"lshift", "rshift"}   -> Does("hold", "SHIFT")
    [] e \in {"lshiftr", "rshiftr"} -> Does("drop", "SHIFT")
    [] e \in {"ctrl", "rctrl"}      -> Does("hold", "CTRL")
    [] e \in {"ctrlr", "rctrlr"}    -> Does("drop", "CTRL")
    [] e \in {"alt", "ralt"}        -> Does("hold", "ALT")
    [] e \in {"altr", "raltr"}      -> Does("drop", "ALT")
    [] e = "caps"           -> Does("toggle", "SHIFT")
    [] e = "insert"         -> Does("toggle", "INSERT")
    [] e \in {"up", "sup"}  -> Does("key", Ext(\h48))
    [] e = "prtsc"          -> Does("key", PRTSC)
    [] e = "pause"          -> Does("key", PAUSE)
    [] e = "f13"            -> Does("stray", "")
    [] OTHER                -> Does("nothing", "")

(* The release of a key pressed with shift ends with a fake shift, which   *)
(* the decoder takes for the beginning of the print screen sequence.       *)
LeavesOpen == {"supr"}

-----------------------------------------------------------------------------
(* The decoder *)

Press(m)   == kbd_shiftstate' = kbd_shiftstate \cup {m} /\ UNCHANGED keys
Release(m) == kbd_shiftstate' = kbd_shiftstate \ {m} /\ UNCHANGED keys
Flip(m)    == IF m \in kbd_shiftstate THEN Release(m) ELSE Press(m)
Ignore     == UNCHANGED <<kbd_shiftstate, keys>>
ENQUEUE(k) == /\ keys' = Append(keys, [mods |-> kbd_shiftstate, key |-> k])
              /\ UNCHANGED kbd_shiftstate

(* The tables have 0x59 entries and the index is not checked: behind their *)
(* end lies some other byte, here the entry of any kind of key.            *)
TableSize == \h59
Lookup(c) == IF c < TableSize THEN {c} ELSE {0, \h1D, \h1E, \h2A, \h38, \h3A}

(* Keys whose entry is the same in scancodes and shift_scancodes. *)
SameInBoth == {\h01, \h0E, \h0F, \h1C, \h37, \h39} \cup \h3B..\h58

Character(c) ==
  IF "SHIFT" \in kbd_shiftstate /\ c \notin SameInBoth THEN Upper(c) ELSE Lower(c)

Make(c) ==
  \E d \in Lookup(c) :
    CASE d = \h1D                     -> Press("CTRL")
      [] d = \h3A                     -> Flip("SHIFT")
      [] d \in {\h2A, \h36}           -> Press("SHIFT")
      [] d = \h38                     -> Press("ALT")
      [] d \in {0, \h54, \h55, \h56}  -> Ignore
      [] OTHER                        -> ENQUEUE(Character(d))

Break(c) ==
  \E d \in Lookup(c) :
    CASE d = \h1D           -> Release("CTRL")
      [] d \in {\h2A, \h36} -> Release("SHIFT")
      [] d = \h38           -> Release("ALT")
      [] OTHER              -> Ignore

ExtendedKeys == {\h47, \h48, \h49, \h4B, \h4D, \h4F, \h50, \h51, \h53, \h5B, \h5C, \h5D}

(* Faulty: the releases of the right control and alt keys are forgotten. *)
ExtendedPressOnly(c) ==
  CASE c = \h1D           -> Press("CTRL")
    [] c = \h38           -> Press("ALT")
    [] c = \h52           -> Flip("INSERT")
    [] c \in ExtendedKeys -> ENQUEUE(Ext(c))
    [] OTHER              -> Ignore

(* The second byte of an extended key. *)
Extended(c) ==
  CASE c = \h1D           -> Press("CTRL")
    [] c = \h9D           -> Release("CTRL")
    [] c = \h38           -> Press("ALT")
    [] c = \hB8           -> Release("ALT")
    [] c = \h52           -> Flip("INSERT")
    [] c \in ExtendedKeys -> ENQUEUE(Ext(c))
    [] OTHER              -> Ignore

(* Bytes that lead from one state to another, [state, byte, new state]. *)
Steps == { <<0, \hE0, \hE0>>, <<0, \hE1, \hE1>>, <<\hE1, \h1D, \h1D>>,
           <<\h1D, \h45, \h45>>, <<\h45, \hE1, \h2E1>>, <<\h2E1, \h9D, \h9D>>,
           <<\hE0, \h2A, \hE02A>>, <<\hE02A, \hE0, \h2AE0>> }

(* A byte that the state does not expect counts as the first of a new      *)
(* sequence: the ERROR branch resets kbd_state and decodes it again.       *)
Start(c) ==
  \/ /\ c \in {\hE0, \hE1}
     /\ kbd_state' = c /\ Ignore
  \/ /\ c \notin {\hE0, \hE1}
     /\ kbd_state' = 0
     /\ IF c < \h80 THEN Make(c) ELSE Break(c - \h80)

(* Faulty: the ERROR branch drops the byte and stays where it is. *)
DecodeNoReset(c) ==
  CASE \E t \in Steps : t[1] = kbd_state /\ t[2] = c ->
         \E t \in Steps : t[1] = kbd_state /\ t[2] = c /\ kbd_state' = t[3] /\ Ignore
    [] kbd_state = \h9D /\ c = \hC5   -> kbd_state' = 0 /\ ENQUEUE(PAUSE)
    [] kbd_state = \h2AE0 /\ c = \h37 -> kbd_state' = 0 /\ ENQUEUE(PRTSC)
    [] kbd_state = \hE0 /\ c # \h2A   -> kbd_state' = 0 /\ Extended(c)
    [] kbd_state = 0 /\ c \notin {\hE0, \hE1} -> Start(c)
    [] OTHER                          -> UNCHANGED kbd_state /\ Ignore

decode(c) ==
  CASE \E t \in Steps : t[1] = kbd_state /\ t[2] = c ->
         \E t \in Steps : t[1] = kbd_state /\ t[2] = c /\ kbd_state' = t[3] /\ Ignore
    [] kbd_state = \h9D /\ c = \hC5   -> kbd_state' = 0 /\ ENQUEUE(PAUSE)
    [] kbd_state = \h2AE0 /\ c = \h37 -> kbd_state' = 0 /\ ENQUEUE(PRTSC)
    [] kbd_state = \hE0 /\ c # \h2A   -> kbd_state' = 0 /\ Extended(c)
    [] OTHER                          -> Start(c)

-----------------------------------------------------------------------------
Init ==
  /\ kbd_state = 0 /\ kbd_shiftstate = {}
  /\ keys = <<>>
  /\ event = "none" /\ pending = <<>>
  /\ atrest = TRUE /\ broken = FALSE /\ clean = Lag
  /\ nevents = 0 /\ lost = 0

(* A key is pressed or released. *)
Begin(e) ==
  /\ pending = <<>> /\ nevents < MaxEvents
  /\ event' = e /\ pending' = Bytes[e]
  /\ atrest' = (kbd_state = 0) /\ broken' = FALSE
  /\ nevents' = nevents + 1
  /\ UNCHANGED <<kbd_state, kbd_shiftstate, keys, clean, lost>>

(* The count of whole events once the present one is over. *)
Recovered ==
  IF broken \/ event \in LeavesOpen THEN 0
  ELSE IF clean < Lag THEN clean + 1 ELSE clean

(* IRQ 1: kbd_handler reads the byte and decodes it. *)
kbd_handler ==
  /\ pending # <<>>
  /\ decode(Head(pending))
  /\ pending' = Tail(pending)
  /\ clean' = IF Len(pending) = 1 THEN Recovered ELSE clean
  /\ UNCHANGED <<event, atrest, broken, nevents, lost>>

(* A byte does not arrive. *)
Lose ==
  /\ pending # <<>> /\ lost < MaxLost
  /\ pending' = Tail(pending)
  /\ broken' = TRUE /\ clean' = 0
  /\ lost' = lost + 1
  /\ UNCHANGED <<kbd_state, kbd_shiftstate, keys, event, atrest, nevents>>

Next == kbd_handler \/ Lose \/ \E e \in Events : Begin(e)

Spec == Init /\ [][Next]_vars

-----------------------------------------------------------------------------
(* Properties *)

(* The decoder gets back in step by itself: wherever the bytes were lost,  *)
(* and whatever sequence a fake shift opened, Lag whole events later it is *)
(* not in the middle of a sequence any more.                               *)
Resync == pending = <<>> /\ clean >= Lag => kbd_state = 0

Key == INSTANCE KeyEvents
         WITH mods <- kbd_shiftstate, Characters <- {Lower(\h1E), Upper(\h1E)}

(* Key by key the decoder does what the event means, all of it with the    *)
(* last byte and nothing before, for every event that starts with the      *)
(* decoder at rest and arrives whole, whatever happened earlier.           *)
EffectsExact ==
  [][ kbd_handler /\ atrest /\ ~broken =>
        IF Len(pending) = 1 THEN Key!Event(Meaning(event)) ELSE Key!Nothing ]_vars
=============================================================================
