------------------------------- MODULE MCLib --------------------------------
(* Instances of the library functions for TLC.  The main program is in one *)
(* of them at a time; ticks are counted once the timer is set up.          *)
EXTENDS Printf, Udivmod, Sleep

None == [from |-> "none", n |-> 0]
Given(n) == [from |-> "digits", n |-> n]
Star(n) == [from |-> "star", n |-> n]

Item(flags, width, prec, length, conv, value) ==
  [flags |-> flags, width |-> width, prec |-> prec, length |-> length,
   conv |-> conv, value |-> value, special |-> "no", string |-> <<>>]
Text(flags, width, prec, conv, string) ==
  [Item(flags, width, prec, "", conv, 0) EXCEPT !.string = string]

Sprintf(items) == [function |-> "sprintf", null |-> FALSE, count |-> 0, items |-> items]

Widths == {None, Given(1), Given(2), Given(3), Given(9), Star(4), Star(-4)}
Precs  == {None, Given(0), Given(2), Given(9), Star(3), Star(-1)}

IntegerCalls ==
  {Sprintf(<<Item(fl, w, p, "", c, v)>>) : fl \in SUBSET FlagChars, w \in Widths, p \in Precs,
     c \in {"d", "u", "x", "X", "o", "b"}, v \in {-128, -7, 0, 5, 171}}
LengthCalls ==
  {Sprintf(<<Item({}, None, None, l, c, v), Item({"0"}, Given(3), None, "", "i", 7)>>) :
     l \in {"hh", "h", "l", "ll", "t", "z", "j"}, c \in {"d", "x", "b"},
     v \in {-32768, -300, -9, 0, 9, 40, 300, 32767}}
StringCalls ==
  {Sprintf(<<Text(fl, w, p, "s", v)>>) : fl \in SUBSET {"0", "-", "#"}, w \in Widths, p \in Precs,
     v \in {<<>>, <<"a">>, <<"a", "b", "c">>}}
CharCalls ==
  {Sprintf(<<Text(fl, w, None, "c", <<v>>)>>) : fl \in SUBSET {"0", "-"}, w \in Widths,
     v \in {"a", "NUL"}}
PointerCalls ==
  {Sprintf(<<Item(fl, None, p, "", "p", v)>>) : fl \in SUBSET {"0", "-", "#"}, p \in Precs,
     v \in {0, 5, 171}}
FloatCalls ==
  {Sprintf(<<Item(fl, w, p, "", "f", v)>>) : fl \in SUBSET {"0", "-", "+", " "}, w \in Widths,
     p \in Precs \ {Given(9)}, v \in {-85, -4, 0, 1, 2, 3, 4, 6, 12, 20, 79, 800}}
SpecialCalls ==
  {Sprintf(<<[Item(fl, w, None, "", "f", 0) EXCEPT !.special = s]>>) :
     fl \in SUBSET {"0", "-", "+"}, w \in Widths, s \in {"nan", "inf", "minf"}}
BoundedCalls ==
  {[function |-> f, null |-> nul, count |-> n,
    items |-> <<[text |-> <<"a", "b">>], Item({}, Given(3), None, "", "d", -5),
                Item({}, None, None, "", "%", 0), Text({}, None, None, "c", <<v>>)>>] :
     f \in {"printf", "vprintf", "fctprintf", "sprintf", "snprintf", "vsnprintf"},
     nul \in BOOLEAN, n \in 0..9, v \in {"z", "NUL"}}

LibCalls ==
  <<IntegerCalls, LengthCalls, StringCalls, CharCalls, PointerCalls, FloatCalls, SpecialCalls,
    BoundedCalls>>

Powers == [k \in 0..Bits |-> 2^k]
AllOperands == (0..2^Bits-1) \X (0..2^Bits-1)

vars == <<printfvars, divvars, sleepvars>>

Init == PrintfInit /\ DivInit /\ SleepInit
Next ==
  \/ DivIdle /\ spc = "start" /\ PrintfNext /\ UNCHANGED <<divvars, sleepvars>>
  \/ Idle /\ spc = "start" /\ DivNext /\ UNCHANGED <<printfvars, sleepvars>>
  \/ Idle /\ DivIdle /\ SleepNext /\ UNCHANGED <<printfvars, divvars>>

Timer == Idle /\ DivIdle /\ pit_handler /\ UNCHANGED <<printfvars, divvars>>
Sleeper == Idle /\ DivIdle /\ SleepMain /\ UNCHANGED <<printfvars, divvars>>

Spec == Init /\ [][Next]_vars /\ WF_vars(Timer) /\ WF_vars(Sleeper)
=============================================================================
