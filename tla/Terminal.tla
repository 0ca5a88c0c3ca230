------------------------------ MODULE Terminal ------------------------------
(***************************************************************************)
(* What a text terminal does with a character: the reference against which *)
(* the console of lib/conio.c is checked.  A terminal is [x, y, row]: the  *)
(* column and row of the cursor and the rows on show, top first.           *)
(***************************************************************************)
EXTENDS Integers

CONSTANTS Cols, Rows, TabStop, Blank

BlankRow == [k \in 0..Cols-1 |-> Blank]
Cleared  == [x |-> 0, y |-> 0, row |-> [r \in 0..Rows-1 |-> BlankRow]]

(* The cursor goes to the next row; on the last one the text moves up.     *)
NewLine(t) ==
  IF t.y < Rows - 1
    THEN [t EXCEPT !.x = 0, !.y = t.y + 1]
    ELSE [t EXCEPT !.x = 0,
                   !.row = [r \in 0..Rows-1 |->
                              IF r < Rows - 1 THEN t.row[r+1] ELSE BlankRow]]

MoveTo(t, x) == IF x < Cols THEN [t EXCEPT !.x = x] ELSE NewLine(t)

NextTab(x) == CHOOSE s \in x+1..x+TabStop : s % TabStop = 0

Show(t, ch) ==
  CASE ch = "BS"  -> MoveTo(t, IF t.x = 0 THEN 0 ELSE t.x - 1)
    [] ch = "TAB" -> MoveTo(t, NextTab(t.x))
    [] ch = "CR"  -> MoveTo(t, 0)
    [] ch = "NL"  -> NewLine(t)
    [] OTHER      -> MoveTo([t EXCEPT !.row[t.y][t.x] = ch], t.x + 1)
=============================================================================
