------------------------------- MODULE Console ------------------------------
(***************************************************************************)
(* The console of lib/conio.c: putch on the flat video memory, called by   *)
(* the main program (p = "main") and by an interrupt handler that prints a *)
(* message (p = "irq", as pcnet32_irq_handler does).  The handler runs     *)
(* between any two steps of the main program's putch and to its end, on    *)
(* the same cursor variables and the same memory.                          *)
(*                                                                         *)
(* The cursor is not volatile: putch may work on the values it loaded at   *)
(* its start or read them again, and the model allows both.  Stores to the *)
(* cursor are steps of their own, in source order.                         *)
(***************************************************************************)
EXTENDS Integers, Sequences, FiniteSets

CONSTANTS
  Cols, Rows, TabStop,   \* 80, 25 and 8 in the code
  Blank,                 \* an empty cell
  Printable,             \* the printable characters the main program uses
  Controls,              \* the control characters it uses
  Message,               \* the characters the handler prints
  MaxChars,              \* bound: characters of the main program
  MaxIrqs                \* bound: messages of the handler

ASSUME SizeAssumption ==
  /\ Cols \in Nat \ {0} /\ Rows \in Nat \ {0} /\ TabStop \in Nat \ {0}
  /\ Cols % TabStop = 0
  /\ Controls \subseteq {"BS", "TAB", "CR", "NL"}

VARIABLES
  video,          \* video memory, two rows more than the screen shows
  csr_x, csr_y,
  cursor,         \* the hardware cursor set by move_csr
  pc, c, x, y,    \* for each of "main" and "irq": place, argument, registers
  message,        \* what the handler still has to print
  chars, irqs,
  printed,        \* history: printable characters given to putch
  term,           \* history: the terminal the main program believes in
  reach           \* history: one more than the highest cell written

vars == <<video, csr_x, csr_y, cursor, pc, c, x, y, message, chars, irqs,
          printed, term, reach>>

Ref == INSTANCE Terminal

P     == {"main", "irq"}
Cells == 0..(Rows + 2) * Cols - 1

(* cls, then nobody is printing *)
Init ==
  /\ video = [i \in Cells |-> Blank]
  /\ csr_x = 0 /\ csr_y = 0 /\ cursor = 0
  /\ pc = [p \in P |-> "ready"] /\ c = [p \in P |-> Blank]
  /\ x = [p \in P |-> 0] /\ y = [p \in P |-> 0]
  /\ message = <<>> /\ chars = 0 /\ irqs = 0 /\ printed = 0
  /\ term = Ref!Cleared /\ reach = 0

Handling == message # <<>> \/ pc["irq"] # "ready"
Running(p) == p = "irq" <=> Handling

Goto(p, from, to) == Running(p) /\ pc[p] = from /\ pc' = [pc EXCEPT ![p] = to]

(* Registers or memory: what putch may take the cursor to be.             *)
X(p) == {x[p], csr_x}
Y(p) == {y[p], csr_y}

IsPrintable(ch) == ch \notin {"BS", "TAB", "CR", "NL"}

-----------------------------------------------------------------------------
(* putch is called; its first step loads the cursor *)
Enter(p, ch) ==
  /\ Goto(p, "ready", "cell")
  /\ c' = [c EXCEPT ![p] = ch]
  /\ x' = [x EXCEPT ![p] = csr_x] /\ y' = [y EXCEPT ![p] = csr_y]
  /\ printed' = IF IsPrintable(ch) THEN printed + 1 ELSE printed
  /\ UNCHANGED <<video, csr_x, csr_y, cursor, irqs, reach>>

MainPuts(ch) ==
  /\ chars < MaxChars
  /\ Enter("main", ch)
  /\ chars' = chars + 1
  /\ term' = Ref!Show(term, ch)
  /\ UNCHANGED message

(* An interrupt: the handler calls printf. *)
Interrupt ==
  /\ irqs < MaxIrqs /\ ~Handling
  /\ message' = Message
  /\ irqs' = irqs + 1
  /\ UNCHANGED <<video, csr_x, csr_y, cursor, pc, c, x, y, chars, printed, term, reach>>

IrqPuts ==
  /\ message # <<>>
  /\ Enter("irq", Head(message))
  /\ message' = Tail(message)
  /\ UNCHANGED <<chars, term>>

Highest(n) == IF n > reach THEN n ELSE reach

(* *where = c|att *)
Cell(p) ==
  /\ Goto(p, "cell", "move")
  /\ IF IsPrintable(c[p])
       THEN \E col \in X(p), row \in Y(p) :
              /\ video' = [video EXCEPT ![row * Cols + col] = c[p]]
              /\ reach' = Highest(row * Cols + col + 1)
       ELSE UNCHANGED <<video, reach>>
  /\ UNCHANGED <<csr_x, csr_y, cursor, c, x, y, message, chars, irqs, printed, term>>

(* Faulty: a tab on a tab stop stays where it is. *)
NewColStays(ch, col) ==
  CASE ch = "BS"            -> IF col # 0 THEN col - 1 ELSE col
    [] ch = "TAB"           -> ((col + TabStop - 1) \div TabStop) * TabStop
    [] ch \in {"CR", "NL"}  -> 0
    [] OTHER                -> col + 1

(* The new column, before the wrap. *)
NewCol(ch, col) ==
  CASE ch = "BS"            -> IF col # 0 THEN col - 1 ELSE col
    [] ch = "TAB"           -> ((col + TabStop) \div TabStop) * TabStop
    [] ch \in {"CR", "NL"}  -> 0
    [] OTHER                -> col + 1

(* A newline goes on to csr_y++.  The test of the width that follows it    *)
(* finds csr_x small, also after a handler, and is left out.               *)
Move(p) ==
  /\ Goto(p, "move", IF c[p] = "NL" THEN "row" ELSE "wrap")
  /\ \E col \in X(p) :
       /\ csr_x' = NewCol(c[p], col)
       /\ x' = [x EXCEPT ![p] = NewCol(c[p], col)]
  /\ UNCHANGED <<video, csr_y, cursor, c, y, message, chars, irqs, printed, term, reach>>

(* csr_x = 0 at the end of the row ... *)
Wrap(p) ==
  \E col \in X(p) :
    IF col >= Cols
      THEN /\ Goto(p, "wrap", "row")
           /\ csr_x' = 0 /\ x' = [x EXCEPT ![p] = 0]
           /\ UNCHANGED <<video, csr_y, cursor, c, y, message, chars, irqs, printed,
                          term, reach>>
      ELSE /\ Goto(p, "wrap", "scroll")
           /\ UNCHANGED <<video, csr_x, csr_y, cursor, c, x, y, message, chars, irqs,
                          printed, term, reach>>

(* ... and csr_y++ *)
NextRow(p) ==
  /\ Goto(p, "row", "scroll")
  /\ \E row \in Y(p) : csr_y' = row + 1 /\ y' = [y EXCEPT ![p] = row + 1]
  /\ UNCHANGED <<video, csr_x, cursor, c, x, message, chars, irqs, printed, term, reach>>

(* scroll: the test and the copy.  y keeps the row that temp came from.    *)
ScrollCopy(p) ==
  \E row \in Y(p), again \in Y(p) :
    IF row >= Rows
      THEN LET temp == again - Rows + 1 IN
           /\ Goto(p, "scroll", "blank")
           /\ video' = [i \in Cells |-> IF i < (Rows - temp) * Cols
                                          THEN video[i + temp * Cols] ELSE video[i]]
           /\ reach' = Highest((Rows - temp) * Cols)
           /\ y' = [y EXCEPT ![p] = again]
           /\ UNCHANGED <<csr_x, csr_y, cursor, c, x, message, chars, irqs, printed, term>>
      ELSE /\ Goto(p, "scroll", "csr")
           /\ UNCHANGED <<video, csr_x, csr_y, cursor, c, x, y, message, chars, irqs,
                          printed, term, reach>>

(* scroll: the line behind the copied ones is blanked *)
ScrollBlank(p) ==
  /\ Goto(p, "blank", "last")
  /\ LET from == (Rows - (y[p] - Rows + 1)) * Cols IN
       /\ video' = [i \in Cells |-> IF i \in from..from+Cols-1 THEN Blank ELSE video[i]]
       /\ reach' = Highest(from + Cols)
  /\ UNCHANGED <<csr_x, csr_y, cursor, c, x, y, message, chars, irqs, printed, term>>

(* Faulty: the cursor's row is not set back. *)
LastRowForgotten(p) ==
  /\ Goto(p, "last", "csr")
  /\ UNCHANGED <<video, csr_x, csr_y, cursor, c, x, y, message, chars, irqs, printed, term,
                 reach>>

(* scroll: csr_y = 25 - 1 *)
LastRow(p) ==
  /\ Goto(p, "last", "csr")
  /\ csr_y' = Rows - 1
  /\ y' = [y EXCEPT ![p] = Rows - 1]
  /\ UNCHANGED <<video, csr_x, cursor, c, x, message, chars, irqs, printed, term, reach>>

(* The four port writes are one step: the cursor register is only looked at *)
(* when no handler has printed.                                             *)
move_csr(p) ==
  /\ Goto(p, "csr", "ready")
  /\ cursor' = csr_y * Cols + csr_x
  /\ UNCHANGED <<video, csr_x, csr_y, c, x, y, message, chars, irqs, printed, term, reach>>

putch(p) == \/ Cell(p) \/ Move(p) \/ Wrap(p) \/ NextRow(p)
            \/ ScrollCopy(p) \/ ScrollBlank(p) \/ LastRow(p) \/ move_csr(p)

Next == Interrupt \/ IrqPuts
          \/ (\E ch \in Printable \cup Controls : MainPuts(ch))
          \/ \E p \in P : putch(p)

Spec == Init /\ [][Next]_vars

-----------------------------------------------------------------------------
(* Properties *)

Quiet == pc["main"] = "ready" /\ ~Handling

Screen == [r \in 0..Rows-1 |-> [k \in 0..Cols-1 |-> video[r * Cols + k]]]

(* Until a handler prints, the flat memory, the software cursor and the    *)
(* hardware cursor are those of a terminal that was given the same         *)
(* characters: index arithmetic, tabs, wrap and scrolling agree with it.   *)
ShowsTerminal ==
  Quiet /\ irqs = 0 =>
    /\ term = [x |-> csr_x, y |-> csr_y, row |-> Screen]
    /\ cursor = csr_y * Cols + csr_x

(* Whatever a handler prints in the middle of putch, no write leaves the   *)
(* screen and the one row behind it, and the cursor is on the screen again *)
(* when both are done.                                                     *)
StaysInMemory ==
  /\ reach <= (Rows + 1) * Cols
  /\ Quiet => csr_x \in 0..Cols-1 /\ csr_y \in 0..Rows-1

(* Every printable character that was printed is on the screen (for a text *)
(* without control characters that fits on it), also when an interrupt     *)
(* handler prints while the main program does: what a reentrant printf     *)
(* would guarantee.                                                        *)
NothingLost == Quiet => Cardinality({i \in Cells : video[i] # Blank}) = printed
=============================================================================
