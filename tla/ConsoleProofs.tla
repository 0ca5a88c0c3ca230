---------------------------- MODULE ConsoleProofs ---------------------------
(***************************************************************************)
(* Proofs about Console for every size of the screen, every text and every *)
(* number of interrupts.                                                   *)
(***************************************************************************)
EXTENDS Console, TLAPS

-----------------------------------------------------------------------------
(* The cursor, with interrupts *)

Places == {"ready", "cell", "move", "wrap", "row", "scroll", "blank", "last", "csr"}

ConTypes ==
  /\ pc \in [P -> Places] /\ DOMAIN c = P
  /\ x \in [P -> Int] /\ y \in [P -> Int]
  /\ csr_x \in Int /\ csr_y \in Int /\ reach \in Int

OnScreen == csr_x \in 0..Cols-1 /\ csr_y \in 0..Rows-1

(* Where a handler may find the cursor: in the midst of putch it can be    *)
(* one column or one row off the screen, but not both.                     *)
NearScreen ==
  csr_x \in 0..Cols /\ csr_y \in 0..Rows /\ (csr_x = Cols => csr_y < Rows)

(* The handler is not interrupted: its registers are up to date.  Starting *)
(* one row off the screen it may come to be two.                           *)
IrqInv ==
  LET at == pc["irq"] IN
  /\ at # "ready" => x["irq"] = csr_x /\ y["irq"] = csr_y
  /\ at \in {"cell", "move"} \/ (at = "ready" /\ message # <<>>) => NearScreen
  /\ at = "wrap"   => 0 <= csr_x /\ csr_y \in 0..Rows
  /\ at = "row"    => csr_x \in 0..Cols-1 /\ csr_y \in 0..Rows
  /\ at = "scroll" => csr_x \in 0..Cols-1 /\ csr_y \in 0..Rows+1
  /\ at \in {"blank", "last"} => csr_x \in 0..Cols-1 /\ csr_y \in Rows..Rows+1
  /\ at = "csr"    => OnScreen

(* What the main program holds in its registers, whatever the handler did  *)
(* since it loaded them...                                                 *)
MainInv ==
  LET at == pc["main"] IN
  /\ at \in {"cell", "move"} => x["main"] \in 0..Cols-1
  /\ at = "wrap" => x["main"] \in 0..Cols
  /\ at \in {"cell", "move", "wrap", "row"} => y["main"] \in 0..Rows-1
  /\ at = "scroll" =>
       y["main"] \in 0..Rows /\ (y["main"] = Rows => csr_y >= Rows - 1)
  /\ at = "blank" => y["main"] \in Rows-1..Rows

(* ...and where the cursor is when no handler runs.                        *)
CursorInv ==
  LET at == pc["main"] IN
  ~Handling =>
    /\ at \in {"ready", "cell", "move", "row", "csr"} => OnScreen
    /\ at = "wrap" => /\ csr_x \in 0..Cols /\ csr_y \in 0..Rows-1
                      /\ csr_x = Cols => x["main"] = Cols
    /\ at = "scroll" => /\ csr_x \in 0..Cols-1 /\ csr_y \in 0..Rows
                        /\ csr_y = Rows => y["main"] = Rows
    /\ at \in {"blank", "last"} => csr_x \in 0..Cols-1 /\ csr_y \in 0..Rows

ReachInv == reach <= (Rows + 1) * Cols

ConInv == ConTypes /\ IrqInv /\ MainInv /\ CursorInv /\ ReachInv

-----------------------------------------------------------------------------
(* Arithmetic *)

(* A tab goes forward, by at most the width of a tab, to a multiple of it. *)
LEMMA TabLemma ==
  ASSUME NEW col \in Int, 0 <= col
  PROVE  LET q == (col + TabStop) \div TabStop IN
         /\ q \in Int /\ 0 <= q
         /\ q * TabStop \in Int
         /\ col < q * TabStop /\ q * TabStop <= col + TabStop
<1> DEFINE q == (col + TabStop) \div TabStop
<1> DEFINE m == (col + TabStop) % TabStop
<1>1. TabStop \in Int /\ TabStop > 0
  BY SizeAssumption
<1>2. q \in Int /\ m \in 0..TabStop-1 /\ 0 <= q
  BY <1>1, SMT
<1>3. col + TabStop = q * TabStop + m
  BY <1>1, SMT
<1>4. q * TabStop \in Int
  BY <1>1, <1>2, SMT
<1> HIDE DEF q, m
<1>5. col < q * TabStop /\ q * TabStop <= col + TabStop
  BY <1>1, <1>2, <1>3, <1>4, SMT
<1>6. QED
  BY <1>2, <1>4, <1>5 DEF q

(* On the screen a tab goes no further than the end of the row, which is a *)
(* tab stop.                                                               *)
LEMMA TabFits ==
  ASSUME NEW col \in Int, 0 <= col, col < Cols
  PROVE  ((col + TabStop) \div TabStop) * TabStop <= Cols
<1> DEFINE q == (col + TabStop) \div TabStop
<1> DEFINE k == Cols \div TabStop
<1>1. TabStop \in Int /\ TabStop > 0 /\ Cols \in Int
  BY SizeAssumption
<1>2. q \in Int /\ q * TabStop \in Int /\ q * TabStop <= col + TabStop
  BY TabLemma
<1>3. k \in Int /\ Cols = k * TabStop
  <2>1. Cols = k * TabStop + (Cols % TabStop)
    BY <1>1, SMT
  <2>2. k \in Int
    BY <1>1, SMT
  <2>3. QED
    BY <2>1, <2>2, <1>1, SizeAssumption, SMT
<1> HIDE DEF q, k
<1>4. CASE q <= k
  <2>1. q * TabStop <= k * TabStop
    BY <1>1, <1>2, <1>3, <1>4, SMT
  <2>2. QED
    BY <2>1, <1>3 DEF q
<1>5. CASE k + 1 <= q
  <2>1. (k + 1) * TabStop <= q * TabStop
    BY <1>1, <1>2, <1>3, <1>5, SMT
  <2>2. (k + 1) * TabStop = Cols + TabStop
    BY <1>1, <1>3, SMT
  <2>3. QED
    BY <2>1, <2>2, <1>1, <1>2, SMT
<1>6. QED
  BY <1>2, <1>3, <1>4, <1>5

LEMMA NewColBounds ==
  ASSUME NEW ch, NEW col \in Int, 0 <= col
  PROVE  /\ NewCol(ch, col) \in Int /\ 0 <= NewCol(ch, col)
         /\ col < Cols => NewCol(ch, col) <= Cols
<1>1. Cols \in Int /\ Cols > 0
  BY SizeAssumption
<1>2. CASE ch = "TAB"
  BY <1>1, <1>2, TabLemma, TabFits DEF NewCol
<1>3. CASE ch # "TAB"
  BY <1>1, <1>3 DEF NewCol
<1>4. QED
  BY <1>2, <1>3

(* Cells of the screen and of the row behind it, and the rows that a       *)
(* scroll by up to two rows touches.                                       *)
LEMMA CellBound ==
  ASSUME NEW row \in 0..Rows, NEW col \in 0..Cols, col = Cols => row < Rows
  PROVE  /\ row * Cols + col + 1 \in Int
         /\ row * Cols + col + 1 <= (Rows + 1) * Cols
<1>1. Cols \in Int /\ Cols > 0 /\ Rows \in Int /\ Rows > 0
  BY SizeAssumption
<1>2. row * Cols \in Int /\ Rows * Cols \in Int /\ (Rows + 1) * Cols = Rows * Cols + Cols
  BY <1>1, SMT
<1>3. row * Cols <= Rows * Cols
  BY <1>1, <1>2, SMT
<1>4. row < Rows => row * Cols <= (Rows - 1) * Cols
  BY <1>1, <1>2, SMT
<1>5. (Rows - 1) * Cols = Rows * Cols - Cols
  BY <1>1, SMT
<1>6. CASE col = Cols
  BY <1>1, <1>2, <1>4, <1>5, <1>6
<1>7. CASE col # Cols
  BY <1>1, <1>2, <1>3, <1>7
<1>8. QED
  BY <1>6, <1>7

LEMMA ScrollBound ==
  ASSUME NEW row \in Rows-1..Rows+1
  PROVE  /\ (Rows - (row - Rows + 1)) * Cols \in Int
         /\ (Rows - (row - Rows + 1)) * Cols + Cols <= (Rows + 1) * Cols
         /\ (Rows - (row - Rows + 1)) * Cols <= (Rows + 1) * Cols
<1> DEFINE n == Rows - (row - Rows + 1)
<1>1. Cols \in Int /\ Cols > 0 /\ Rows \in Int /\ Rows > 0
  BY SizeAssumption
<1>2. n \in Int /\ n <= Rows
  BY <1>1
<1> HIDE DEF n
<1>3. n * Cols \in Int /\ Rows * Cols \in Int /\ (Rows + 1) * Cols = Rows * Cols + Cols
  BY <1>1, <1>2, SMT
<1>4. n * Cols <= Rows * Cols
  BY <1>1, <1>2, <1>3, SMT
<1>5. QED
  BY <1>1, <1>3, <1>4 DEF n

LEMMA HighestBound ==
  ASSUME reach \in Int, ReachInv, NEW n \in Int, n <= (Rows + 1) * Cols
  PROVE  Highest(n) \in Int /\ Highest(n) <= (Rows + 1) * Cols
BY DEF Highest, ReachInv

-----------------------------------------------------------------------------
(* The invariant of the cursor *)

LEMMA ConInit == Init => ConInv
<1> USE SizeAssumption
<1> SUFFICES ASSUME Init PROVE ConInv
  OBVIOUS
<1>1. ConTypes
  BY DEF Init, ConTypes, P, Places
<1>2. ~Handling /\ pc["irq"] = "ready" /\ pc["main"] = "ready" /\ OnScreen
  BY DEF Init, Handling, P, OnScreen
<1>3. message = <<>>
  BY DEF Init
<1>4. IrqInv /\ MainInv /\ CursorInv
  BY <1>2, <1>3 DEF IrqInv, MainInv, CursorInv
<1>5. ReachInv
  <2>1. (Rows + 1) * Cols >= 0
    BY SMT
  <2>2. QED
    BY <2>1 DEF Init, ReachInv
<1>6. QED
  BY <1>1, <1>4, <1>5 DEF ConInv

(* The sizes, and what it means that p runs. *)
LEMMA Sizes == Cols \in Int /\ Cols > 0 /\ Rows \in Int /\ Rows > 0
BY SizeAssumption

LEMMA StepEnter ==
  ASSUME ConInv, NEW p \in P, NEW ch, Enter(p, ch),
         \/ p = "main" /\ message' = message
         \/ p = "irq" /\ message # <<>>
  PROVE  ConInv'
<1> USE Sizes DEF P
<1>1. ConTypes'
  BY DEF ConInv, ConTypes, Enter, Goto, Places
<1>2. ReachInv'
  BY DEF ConInv, ReachInv, Enter
<1>3. CASE p = "main"
  <2>1. /\ pc["main"] = "ready" /\ pc'["main"] = "cell" /\ pc'["irq"] = pc["irq"]
        /\ x'["main"] = csr_x /\ y'["main"] = csr_y
        /\ csr_x' = csr_x /\ csr_y' = csr_y /\ message' = message
        /\ ~Handling
    BY <1>3 DEF ConInv, ConTypes, Enter, Goto, Running
  <2>2. OnScreen /\ pc["irq"] = "ready" /\ message = <<>>
    BY <2>1 DEF ConInv, CursorInv, Handling
  <2>3. IrqInv' /\ MainInv' /\ CursorInv'
    BY <2>1, <2>2 DEF IrqInv, MainInv, CursorInv, OnScreen
  <2>4. QED
    BY <1>1, <1>2, <2>3 DEF ConInv
<1>4. CASE p = "irq"
  <2>1. /\ pc["irq"] = "ready" /\ pc'["irq"] = "cell" /\ pc'["main"] = pc["main"]
        /\ x'["irq"] = csr_x /\ y'["irq"] = csr_y /\ x'["main"] = x["main"]
        /\ y'["main"] = y["main"]
        /\ csr_x' = csr_x /\ csr_y' = csr_y /\ message # <<>>
    BY <1>4 DEF ConInv, ConTypes, Enter, Goto, Running
  <2>2. NearScreen
    BY <2>1 DEF ConInv, IrqInv
  <2>3. IrqInv'
    BY <2>1, <2>2 DEF IrqInv, NearScreen
  <2>4. MainInv'
    BY <2>1 DEF ConInv, MainInv
  <2>5. CursorInv'
    BY <2>1 DEF CursorInv, Handling
  <2>6. QED
    BY <1>1, <1>2, <2>3, <2>4, <2>5 DEF ConInv
<1>5. QED
  BY <1>3, <1>4

LEMMA StepInterrupt ==
  ASSUME ConInv, Interrupt
  PROVE  ConInv'
<1> USE Sizes DEF P
<1>1. /\ UNCHANGED <<pc, c, x, y, csr_x, csr_y, reach>>
      /\ ~Handling /\ pc["irq"] = "ready"
  BY DEF Interrupt, Handling
<1>2. ConTypes' /\ ReachInv' /\ MainInv'
  BY <1>1 DEF ConInv, ConTypes, ReachInv, MainInv
<1>3. NearScreen
  <2>1. pc["main"] \in Places
    BY DEF ConInv, ConTypes
  <2>2. QED
    BY <1>1, <2>1 DEF ConInv, CursorInv, OnScreen, NearScreen, Places
<1>4. IrqInv'
  BY <1>1, <1>3 DEF IrqInv, NearScreen
<1>5. CursorInv'
  BY <1>1 DEF ConInv, CursorInv, OnScreen
<1>6. QED
  BY <1>2, <1>4, <1>5 DEF ConInv

(* A step of the main program: only its own state and the cursor change,   *)
(* and no handler is running before or after it.                           *)
LEMMA MainStep ==
  ASSUME ConTypes, NEW from, NEW to \in Places, Goto("main", from, to), message' = message
  PROVE  /\ ~Handling /\ ~Handling' /\ message = <<>> /\ pc["irq"] = "ready"
         /\ pc["main"] = from /\ pc'["main"] = to /\ pc'["irq"] = "ready"
         /\ pc' \in [P -> Places]
BY DEF ConTypes, Goto, Running, Handling, P

(* A step of the handler: the main program's registers stay. *)
LEMMA IrqStep ==
  ASSUME ConTypes, NEW from, NEW to \in Places, Goto("irq", from, to)
  PROVE  /\ Handling
         /\ pc["irq"] = from /\ pc'["irq"] = to /\ pc'["main"] = pc["main"]
         /\ pc' \in [P -> Places]
BY DEF ConTypes, Goto, Running, P

(* What a step of the handler that does not end putch has to show. *)
LEMMA IrqKeeps ==
  ASSUME ConInv, NEW to \in Places \ {"ready"}, pc'["irq"] = to,
         pc'["main"] = pc["main"], x'["main"] = x["main"], y'["main"] = y["main"],
         csr_y' >= csr_y \/ csr_y' >= Rows - 1, csr_y' \in Int
  PROVE  MainInv' /\ CursorInv'
<1> USE Sizes
<1>1. MainInv'
  BY DEF ConInv, ConTypes, MainInv
<1>2. CursorInv'
  BY DEF CursorInv, Handling, Places
<1>3. QED
  BY <1>1, <1>2

LEMMA StepCell ==
  ASSUME ConInv, NEW p \in P, Cell(p)
  PROVE  ConInv'
<1> USE Sizes
<1>1. /\ Goto(p, "cell", "move") /\ message' = message
      /\ csr_x' = csr_x /\ csr_y' = csr_y /\ x' = x /\ y' = y /\ c' = c
  BY DEF Cell
<1>2. ConTypes
  BY DEF ConInv
<1>3. ASSUME \A col \in X(p), row \in Y(p) :
               col \in 0..Cols /\ row \in 0..Rows /\ (col = Cols => row < Rows)
      PROVE  reach' \in Int /\ ReachInv'
  <2>1. CASE IsPrintable(c[p])
    <3>1. PICK col \in X(p), row \in Y(p) : reach' = Highest(row * Cols + col + 1)
      BY <2>1 DEF Cell
    <3>2. /\ row * Cols + col + 1 \in Int
          /\ row * Cols + col + 1 <= (Rows + 1) * Cols
      BY <1>3, CellBound
    <3>3. QED
      BY <3>1, <3>2, HighestBound DEF ConInv, ConTypes, ReachInv
  <2>2. CASE ~IsPrintable(c[p])
    BY <2>2 DEF Cell, ConInv, ConTypes, ReachInv
  <2>3. QED
    BY <2>1, <2>2
<1>4. CASE p = "main"
  <2>1. /\ ~Handling /\ ~Handling' /\ message = <<>> /\ pc["irq"] = "ready"
        /\ pc["main"] = "cell" /\ pc'["main"] = "move" /\ pc'["irq"] = "ready"
        /\ pc' \in [P -> Places]
    BY <1>1, <1>2, <1>4, MainStep DEF Places
  <2>2. OnScreen /\ x["main"] \in 0..Cols-1 /\ y["main"] \in 0..Rows-1
    BY <2>1 DEF ConInv, CursorInv, MainInv
  <2>3. \A col \in X(p), row \in Y(p) :
          col \in 0..Cols /\ row \in 0..Rows /\ (col = Cols => row < Rows)
    BY <1>4, <2>2 DEF X, Y, OnScreen
  <2>4. ConTypes' /\ ReachInv'
    BY <1>1, <1>2, <1>3, <2>1, <2>3 DEF ConTypes
  <2>5. IrqInv'
    BY <1>1, <2>1 DEF IrqInv
  <2>6. MainInv' /\ CursorInv'
    BY <1>1, <2>1, <2>2 DEF MainInv, CursorInv, OnScreen
  <2>7. QED
    BY <2>4, <2>5, <2>6 DEF ConInv
<1>5. CASE p = "irq"
  <2>1. /\ Handling /\ pc["irq"] = "cell" /\ pc'["irq"] = "move"
        /\ pc'["main"] = pc["main"] /\ pc' \in [P -> Places]
    BY <1>1, <1>2, <1>5, IrqStep DEF Places
  <2>2. NearScreen /\ x["irq"] = csr_x /\ y["irq"] = csr_y
    BY <2>1 DEF ConInv, IrqInv
  <2>3. \A col \in X(p), row \in Y(p) :
          col \in 0..Cols /\ row \in 0..Rows /\ (col = Cols => row < Rows)
    BY <1>5, <2>2 DEF X, Y, NearScreen
  <2>4. ConTypes' /\ ReachInv'
    BY <1>1, <1>2, <1>3, <2>1, <2>3 DEF ConTypes
  <2>5. IrqInv'
    BY <1>1, <2>1, <2>2 DEF IrqInv, NearScreen
  <2>6. MainInv' /\ CursorInv'
    BY <1>1, <1>2, <2>1, IrqKeeps DEF ConTypes, Places
  <2>7. QED
    BY <2>4, <2>5, <2>6 DEF ConInv
<1>6. QED
  BY <1>4, <1>5 DEF P

LEMMA StepMove ==
  ASSUME ConInv, NEW p \in P, Move(p)
  PROVE  ConInv'
<1> USE Sizes
<1> DEFINE to == IF c[p] = "NL" THEN "row" ELSE "wrap"
<1>1. /\ Goto(p, "move", to) /\ message' = message
      /\ csr_y' = csr_y /\ y' = y /\ c' = c /\ reach' = reach
  BY DEF Move
<1>2. ConTypes
  BY DEF ConInv
<1>3. PICK col \in X(p) : csr_x' = NewCol(c[p], col) /\ x' = [x EXCEPT ![p] = NewCol(c[p], col)]
  BY DEF Move
<1>0. to \in {"row", "wrap"} /\ (to = "row" => NewCol(c[p], col) = 0)
  BY DEF NewCol
<1> HIDE DEF to
<1>4. CASE p = "main"
  <2>1. /\ ~Handling /\ ~Handling' /\ message = <<>> /\ pc["irq"] = "ready"
        /\ pc["main"] = "move" /\ pc'["main"] = to /\ pc'["irq"] = "ready"
        /\ pc' \in [P -> Places]
    BY <1>0, <1>1, <1>2, <1>4, MainStep DEF Places
  <2>2. OnScreen /\ x["main"] \in 0..Cols-1 /\ y["main"] \in 0..Rows-1
    BY <2>1 DEF ConInv, CursorInv, MainInv
  <2>3. col \in 0..Cols-1
    BY <1>4, <2>2 DEF X, OnScreen
  <2>4. NewCol(c[p], col) \in 0..Cols
    BY <2>3, NewColBounds
  <2>5. /\ csr_x' \in 0..Cols /\ (to = "row" => csr_x' = 0)
        /\ x'["main"] = csr_x' /\ x' \in [P -> Int]
    BY <1>0, <1>2, <1>3, <1>4, <2>4 DEF ConTypes, P
  <2>6. ConTypes' /\ ReachInv'
    BY <1>1, <1>2, <2>1, <2>5 DEF ConTypes, ReachInv, ConInv
  <2>7. IrqInv'
    BY <1>1, <2>1 DEF IrqInv
  <2>8. MainInv' /\ CursorInv'
    BY <1>0, <1>1, <2>1, <2>2, <2>5 DEF MainInv, CursorInv, OnScreen
  <2>9. QED
    BY <2>6, <2>7, <2>8 DEF ConInv
<1>5. CASE p = "irq"
  <2>1. /\ Handling /\ pc["irq"] = "move" /\ pc'["irq"] = to
        /\ pc'["main"] = pc["main"] /\ pc' \in [P -> Places]
    BY <1>0, <1>1, <1>2, <1>5, IrqStep DEF Places
  <2>2. NearScreen /\ x["irq"] = csr_x /\ y["irq"] = csr_y
    BY <2>1 DEF ConInv, IrqInv
  <2>3. col \in Int /\ 0 <= col
    BY <1>5, <2>2 DEF X, NearScreen
  <2>4. NewCol(c[p], col) \in Int /\ 0 <= NewCol(c[p], col)
    BY <2>3, NewColBounds
  <2>5. /\ csr_x' \in Int /\ 0 <= csr_x' /\ (to = "row" => csr_x' = 0)
        /\ x'["irq"] = csr_x' /\ x'["main"] = x["main"] /\ x' \in [P -> Int]
    BY <1>0, <1>2, <1>3, <1>5, <2>4 DEF ConTypes, P
  <2>6. ConTypes' /\ ReachInv'
    BY <1>1, <1>2, <2>1, <2>5 DEF ConTypes, ReachInv, ConInv
  <2>7. IrqInv'
    BY <1>0, <1>1, <2>1, <2>2, <2>5 DEF IrqInv, NearScreen
  <2>8. MainInv' /\ CursorInv'
    BY <1>0, <1>1, <1>2, <2>1, <2>5, IrqKeeps DEF ConTypes, Places
  <2>9. QED
    BY <2>6, <2>7, <2>8 DEF ConInv
<1>6. QED
  BY <1>4, <1>5 DEF P

LEMMA StepWrap ==
  ASSUME ConInv, NEW p \in P, Wrap(p)
  PROVE  ConInv'
<1> USE Sizes
<1>1. /\ message' = message /\ csr_y' = csr_y /\ y' = y /\ c' = c /\ reach' = reach
  BY DEF Wrap
<1>2. ConTypes
  BY DEF ConInv
<1>3. PICK col \in X(p) :
        \/ /\ Goto(p, "wrap", "row") /\ csr_x' = 0 /\ x' = [x EXCEPT ![p] = 0]
        \/ /\ Goto(p, "wrap", "scroll") /\ csr_x' = csr_x /\ x' = x /\ ~(col >= Cols)
  BY DEF Wrap
<1>4. PICK to \in {"row", "scroll"} : Goto(p, "wrap", to)
  BY <1>3
<1>5. /\ pc'[p] = to
      /\ to = "row" => csr_x' = 0 /\ x' = [x EXCEPT ![p] = 0]
      /\ to = "scroll" => csr_x' = csr_x /\ x' = x /\ ~(col >= Cols)
  BY <1>2, <1>3, <1>4 DEF Goto, ConTypes
<1>6. CASE p = "main"
  <2>1. /\ ~Handling /\ ~Handling' /\ message = <<>> /\ pc["irq"] = "ready"
        /\ pc["main"] = "wrap" /\ pc'["main"] = to /\ pc'["irq"] = "ready"
        /\ pc' \in [P -> Places]
    BY <1>1, <1>2, <1>4, <1>6, MainStep DEF Places
  <2>2. /\ csr_x \in 0..Cols /\ csr_y \in 0..Rows-1 /\ (csr_x = Cols => x["main"] = Cols)
        /\ x["main"] \in 0..Cols /\ y["main"] \in 0..Rows-1
    BY <2>1 DEF ConInv, CursorInv, MainInv
  <2>3. csr_x' \in 0..Cols-1 /\ x' \in [P -> Int]
    BY <1>2, <1>4, <1>5, <1>6, <2>2 DEF X, ConTypes, P
  <2>4. ConTypes' /\ ReachInv'
    BY <1>1, <1>2, <2>1, <2>3 DEF ConTypes, ReachInv, ConInv
  <2>5. IrqInv'
    BY <1>1, <2>1 DEF IrqInv
  <2>6. MainInv' /\ CursorInv'
    BY <1>1, <2>1, <2>2, <2>3 DEF MainInv, CursorInv, OnScreen
  <2>7. QED
    BY <2>4, <2>5, <2>6 DEF ConInv
<1>7. CASE p = "irq"
  <2>1. /\ Handling /\ pc["irq"] = "wrap" /\ pc'["irq"] = to
        /\ pc'["main"] = pc["main"] /\ pc' \in [P -> Places]
    BY <1>2, <1>4, <1>7, IrqStep DEF Places
  <2>2. 0 <= csr_x /\ csr_y \in 0..Rows /\ x["irq"] = csr_x /\ y["irq"] = csr_y
    BY <2>1 DEF ConInv, IrqInv
  <2>3. /\ csr_x' \in 0..Cols-1 /\ x'["irq"] = csr_x'
        /\ x'["main"] = x["main"] /\ x' \in [P -> Int]
    BY <1>2, <1>4, <1>5, <1>7, <2>2 DEF X, ConTypes, P
  <2>4. ConTypes' /\ ReachInv'
    BY <1>1, <1>2, <2>1, <2>3 DEF ConTypes, ReachInv, ConInv
  <2>5. IrqInv'
    BY <1>1, <2>1, <2>2, <2>3 DEF IrqInv
  <2>6. MainInv' /\ CursorInv'
    BY <1>1, <1>2, <2>1, <2>3, IrqKeeps DEF ConTypes, Places
  <2>7. QED
    BY <2>4, <2>5, <2>6 DEF ConInv
<1>8. QED
  BY <1>6, <1>7 DEF P

LEMMA StepNextRow ==
  ASSUME ConInv, NEW p \in P, NextRow(p)
  PROVE  ConInv'
<1> USE Sizes
<1>1. /\ Goto(p, "row", "scroll") /\ message' = message
      /\ csr_x' = csr_x /\ x' = x /\ c' = c /\ reach' = reach
  BY DEF NextRow
<1>2. ConTypes
  BY DEF ConInv
<1>3. PICK row \in Y(p) : csr_y' = row + 1 /\ y' = [y EXCEPT ![p] = row + 1]
  BY DEF NextRow
<1>4. CASE p = "main"
  <2>1. /\ ~Handling /\ ~Handling' /\ message = <<>> /\ pc["irq"] = "ready"
        /\ pc["main"] = "row" /\ pc'["main"] = "scroll" /\ pc'["irq"] = "ready"
        /\ pc' \in [P -> Places]
    BY <1>1, <1>2, <1>4, MainStep DEF Places
  <2>2. OnScreen /\ y["main"] \in 0..Rows-1
    BY <2>1 DEF ConInv, CursorInv, MainInv
  <2>3. csr_y' \in 0..Rows /\ y'["main"] = csr_y' /\ y' \in [P -> Int]
    BY <1>2, <1>3, <1>4, <2>2 DEF Y, OnScreen, ConTypes, P
  <2>4. ConTypes' /\ ReachInv'
    BY <1>1, <1>2, <2>1, <2>3 DEF ConTypes, ReachInv, ConInv
  <2>5. IrqInv'
    BY <1>1, <2>1 DEF IrqInv
  <2>6. MainInv' /\ CursorInv'
    BY <1>1, <2>1, <2>2, <2>3 DEF MainInv, CursorInv, OnScreen
  <2>7. QED
    BY <2>4, <2>5, <2>6 DEF ConInv
<1>5. CASE p = "irq"
  <2>1. /\ Handling /\ pc["irq"] = "row" /\ pc'["irq"] = "scroll"
        /\ pc'["main"] = pc["main"] /\ pc' \in [P -> Places]
    BY <1>1, <1>2, <1>5, IrqStep DEF Places
  <2>2. csr_x \in 0..Cols-1 /\ csr_y \in 0..Rows /\ x["irq"] = csr_x /\ y["irq"] = csr_y
    BY <2>1 DEF ConInv, IrqInv
  <2>3. /\ csr_y' = csr_y + 1 /\ y'["irq"] = csr_y'
        /\ y'["main"] = y["main"] /\ y' \in [P -> Int]
    BY <1>2, <1>3, <1>5, <2>2 DEF Y, ConTypes, P
  <2>4. ConTypes' /\ ReachInv'
    BY <1>1, <1>2, <2>1, <2>2, <2>3 DEF ConTypes, ReachInv, ConInv
  <2>5. IrqInv'
    BY <1>1, <2>1, <2>2, <2>3 DEF IrqInv
  <2>6. MainInv' /\ CursorInv'
    BY <1>1, <1>2, <2>1, <2>2, <2>3, IrqKeeps DEF ConTypes, Places
  <2>7. QED
    BY <2>4, <2>5, <2>6 DEF ConInv
<1>6. QED
  BY <1>4, <1>5 DEF P

LEMMA StepScrollCopy ==
  ASSUME ConInv, NEW p \in P, ScrollCopy(p)
  PROVE  ConInv'
<1> USE Sizes
<1>1. /\ message' = message /\ csr_y' = csr_y /\ csr_x' = csr_x /\ x' = x /\ c' = c
  BY DEF ScrollCopy
<1>2. ConTypes
  BY DEF ConInv
<1>3. PICK row \in Y(p), again \in Y(p) :
        \/ /\ Goto(p, "scroll", "blank") /\ row >= Rows
           /\ reach' = Highest((Rows - (again - Rows + 1)) * Cols)
           /\ y' = [y EXCEPT ![p] = again]
        \/ /\ Goto(p, "scroll", "csr") /\ ~(row >= Rows) /\ reach' = reach /\ y' = y
  BY DEF ScrollCopy
<1>4. PICK to \in {"blank", "csr"} : Goto(p, "scroll", to)
  BY <1>3
<1>5. /\ pc'[p] = to
      /\ to = "blank" => /\ row >= Rows /\ y' = [y EXCEPT ![p] = again]
                         /\ reach' = Highest((Rows - (again - Rows + 1)) * Cols)
      /\ to = "csr" => ~(row >= Rows) /\ reach' = reach /\ y' = y
  BY <1>2, <1>3, <1>4 DEF Goto, ConTypes
<1>6. ASSUME to = "blank" => again \in Rows-1..Rows+1
      PROVE  reach' \in Int /\ ReachInv'
  <2>1. CASE to = "blank"
    BY <1>5, <1>6, <2>1, ScrollBound, HighestBound DEF ConInv, ConTypes, ReachInv
  <2>2. CASE to = "csr"
    BY <1>5, <2>2 DEF ConInv, ConTypes, ReachInv
  <2>3. QED
    BY <2>1, <2>2
<1>7. CASE p = "main"
  <2>1. /\ ~Handling /\ ~Handling' /\ message = <<>> /\ pc["irq"] = "ready"
        /\ pc["main"] = "scroll" /\ pc'["main"] = to /\ pc'["irq"] = "ready"
        /\ pc' \in [P -> Places]
    BY <1>1, <1>2, <1>4, <1>7, MainStep DEF Places
  <2>2. /\ csr_x \in 0..Cols-1 /\ csr_y \in 0..Rows /\ (csr_y = Rows => y["main"] = Rows)
        /\ y["main"] \in 0..Rows /\ (y["main"] = Rows => csr_y >= Rows - 1)
    BY <2>1 DEF ConInv, CursorInv, MainInv
  <2>3. /\ to = "blank" => again \in Rows-1..Rows /\ y'["main"] = again
        /\ to = "csr" => csr_y \in 0..Rows-1
        /\ y' \in [P -> Int]
    BY <1>2, <1>5, <1>7, <2>2 DEF Y, ConTypes, P
  <2>4. ConTypes' /\ ReachInv'
    BY <1>1, <1>2, <1>6, <2>1, <2>3 DEF ConTypes
  <2>5. IrqInv'
    BY <1>1, <2>1 DEF IrqInv
  <2>6. MainInv' /\ CursorInv'
    BY <1>1, <2>1, <2>2, <2>3 DEF MainInv, CursorInv, OnScreen
  <2>7. QED
    BY <2>4, <2>5, <2>6 DEF ConInv
<1>8. CASE p = "irq"
  <2>1. /\ Handling /\ pc["irq"] = "scroll" /\ pc'["irq"] = to
        /\ pc'["main"] = pc["main"] /\ pc' \in [P -> Places]
    BY <1>2, <1>4, <1>8, IrqStep DEF Places
  <2>2. csr_x \in 0..Cols-1 /\ csr_y \in 0..Rows+1 /\ x["irq"] = csr_x /\ y["irq"] = csr_y
    BY <2>1 DEF ConInv, IrqInv
  <2>3. /\ to = "blank" => again = csr_y /\ csr_y \in Rows..Rows+1
        /\ to = "csr" => csr_y \in 0..Rows-1
        /\ y'["irq"] = csr_y /\ y'["main"] = y["main"] /\ y' \in [P -> Int]
    BY <1>2, <1>4, <1>5, <1>8, <2>2 DEF Y, ConTypes, P
  <2>4. ConTypes' /\ ReachInv'
    BY <1>1, <1>2, <1>6, <2>1, <2>3 DEF ConTypes
  <2>5. IrqInv'
    BY <1>1, <2>1, <2>2, <2>3 DEF IrqInv, OnScreen
  <2>6. MainInv' /\ CursorInv'
    BY <1>1, <1>2, <2>1, <2>3, IrqKeeps DEF ConTypes, Places
  <2>7. QED
    BY <2>4, <2>5, <2>6 DEF ConInv
<1>9. QED
  BY <1>7, <1>8 DEF P

LEMMA StepScrollBlank ==
  ASSUME ConInv, NEW p \in P, ScrollBlank(p)
  PROVE  ConInv'
<1> USE Sizes
<1>1. /\ Goto(p, "blank", "last") /\ message' = message
      /\ csr_x' = csr_x /\ csr_y' = csr_y /\ x' = x /\ y' = y /\ c' = c
      /\ reach' = Highest((Rows - (y[p] - Rows + 1)) * Cols + Cols)
  BY DEF ScrollBlank
<1>2. ConTypes
  BY DEF ConInv
<1>3. ASSUME y[p] \in Rows-1..Rows+1
      PROVE  reach' \in Int /\ ReachInv'
  BY <1>1, <1>3, ScrollBound, HighestBound DEF ConInv, ConTypes, ReachInv
<1>4. CASE p = "main"
  <2>1. /\ ~Handling /\ ~Handling' /\ message = <<>> /\ pc["irq"] = "ready"
        /\ pc["main"] = "blank" /\ pc'["main"] = "last" /\ pc'["irq"] = "ready"
        /\ pc' \in [P -> Places]
    BY <1>1, <1>2, <1>4, MainStep DEF Places
  <2>2. csr_x \in 0..Cols-1 /\ csr_y \in 0..Rows /\ y["main"] \in Rows-1..Rows
    BY <2>1 DEF ConInv, CursorInv, MainInv
  <2>3. ConTypes' /\ ReachInv'
    BY <1>1, <1>2, <1>3, <1>4, <2>1, <2>2 DEF ConTypes
  <2>4. IrqInv'
    BY <1>1, <2>1 DEF IrqInv
  <2>5. MainInv' /\ CursorInv'
    BY <1>1, <2>1, <2>2 DEF MainInv, CursorInv, OnScreen
  <2>6. QED
    BY <2>3, <2>4, <2>5 DEF ConInv
<1>5. CASE p = "irq"
  <2>1. /\ Handling /\ pc["irq"] = "blank" /\ pc'["irq"] = "last"
        /\ pc'["main"] = pc["main"] /\ pc' \in [P -> Places]
    BY <1>1, <1>2, <1>5, IrqStep DEF Places
  <2>2. csr_x \in 0..Cols-1 /\ csr_y \in Rows..Rows+1 /\ x["irq"] = csr_x /\ y["irq"] = csr_y
    BY <2>1 DEF ConInv, IrqInv
  <2>3. ConTypes' /\ ReachInv'
    BY <1>1, <1>2, <1>3, <1>5, <2>1, <2>2 DEF ConTypes
  <2>4. IrqInv'
    BY <1>1, <2>1, <2>2 DEF IrqInv
  <2>5. MainInv' /\ CursorInv'
    BY <1>1, <1>2, <2>1, IrqKeeps DEF ConTypes, Places
  <2>6. QED
    BY <2>3, <2>4, <2>5 DEF ConInv
<1>6. QED
  BY <1>4, <1>5 DEF P

LEMMA StepLastRow ==
  ASSUME ConInv, NEW p \in P, LastRow(p)
  PROVE  ConInv'
<1> USE Sizes
<1>1. /\ Goto(p, "last", "csr") /\ message' = message
      /\ csr_x' = csr_x /\ csr_y' = Rows - 1 /\ x' = x /\ c' = c /\ reach' = reach
      /\ y' = [y EXCEPT ![p] = Rows - 1]
  BY DEF LastRow
<1>2. ConTypes
  BY DEF ConInv
<1>3. CASE p = "main"
  <2>1. /\ ~Handling /\ ~Handling' /\ message = <<>> /\ pc["irq"] = "ready"
        /\ pc["main"] = "last" /\ pc'["main"] = "csr" /\ pc'["irq"] = "ready"
        /\ pc' \in [P -> Places]
    BY <1>1, <1>2, <1>3, MainStep DEF Places
  <2>2. csr_x \in 0..Cols-1
    BY <2>1 DEF ConInv, CursorInv
  <2>3. ConTypes' /\ ReachInv'
    BY <1>1, <1>2, <2>1 DEF ConTypes, ReachInv, ConInv
  <2>4. IrqInv'
    BY <1>1, <2>1 DEF IrqInv
  <2>5. MainInv' /\ CursorInv'
    BY <1>1, <2>1, <2>2 DEF MainInv, CursorInv, OnScreen
  <2>6. QED
    BY <2>3, <2>4, <2>5 DEF ConInv
<1>4. CASE p = "irq"
  <2>1. /\ Handling /\ pc["irq"] = "last" /\ pc'["irq"] = "csr"
        /\ pc'["main"] = pc["main"] /\ pc' \in [P -> Places]
    BY <1>1, <1>2, <1>4, IrqStep DEF Places
  <2>2. csr_x \in 0..Cols-1 /\ x["irq"] = csr_x
    BY <2>1 DEF ConInv, IrqInv
  <2>3. y'["irq"] = csr_y' /\ y'["main"] = y["main"] /\ y' \in [P -> Int]
    BY <1>1, <1>2, <1>4 DEF ConTypes, P
  <2>4. ConTypes' /\ ReachInv'
    BY <1>1, <1>2, <2>1, <2>3 DEF ConTypes, ReachInv, ConInv
  <2>5. IrqInv'
    BY <1>1, <2>1, <2>2, <2>3 DEF IrqInv, OnScreen
  <2>6. MainInv' /\ CursorInv'
    BY <1>1, <2>1, <2>3, IrqKeeps DEF Places
  <2>7. QED
    BY <2>4, <2>5, <2>6 DEF ConInv
<1>5. QED
  BY <1>3, <1>4 DEF P

(* The end of putch.  When it was the handler's, the cursor is on the      *)
(* screen, which is all that the main program needs of it.                 *)
LEMMA StepCsr ==
  ASSUME ConInv, NEW p \in P, move_csr(p)
  PROVE  ConInv'
<1> USE Sizes
<1>1. /\ Goto(p, "csr", "ready") /\ message' = message
      /\ csr_x' = csr_x /\ csr_y' = csr_y /\ x' = x /\ y' = y /\ c' = c /\ reach' = reach
  BY DEF move_csr
<1>2. ConTypes
  BY DEF ConInv
<1>3. CASE p = "main"
  <2>1. /\ ~Handling /\ ~Handling' /\ message = <<>> /\ pc["irq"] = "ready"
        /\ pc["main"] = "csr" /\ pc'["main"] = "ready" /\ pc'["irq"] = "ready"
        /\ pc' \in [P -> Places]
    BY <1>1, <1>2, <1>3, MainStep DEF Places
  <2>2. OnScreen
    BY <2>1 DEF ConInv, CursorInv
  <2>3. ConTypes' /\ ReachInv'
    BY <1>1, <1>2, <2>1 DEF ConTypes, ReachInv, ConInv
  <2>4. IrqInv' /\ MainInv' /\ CursorInv'
    BY <1>1, <2>1, <2>2 DEF IrqInv, MainInv, CursorInv, OnScreen
  <2>5. QED
    BY <2>3, <2>4 DEF ConInv
<1>4. CASE p = "irq"
  <2>1. /\ Handling /\ pc["irq"] = "csr" /\ pc'["irq"] = "ready"
        /\ pc'["main"] = pc["main"] /\ pc' \in [P -> Places]
    BY <1>1, <1>2, <1>4, IrqStep DEF Places
  <2>2. OnScreen
    BY <2>1 DEF ConInv, IrqInv
  <2>3. ConTypes' /\ ReachInv'
    BY <1>1, <1>2, <2>1 DEF ConTypes, ReachInv, ConInv
  <2>4. IrqInv'
    BY <1>1, <2>1, <2>2 DEF IrqInv, OnScreen, NearScreen
  <2>5. MainInv'
    BY <1>1, <2>1 DEF ConInv, MainInv
  <2>6. CursorInv'
    BY <1>1, <2>2 DEF CursorInv, OnScreen
  <2>7. QED
    BY <2>3, <2>4, <2>5, <2>6 DEF ConInv
<1>5. QED
  BY <1>3, <1>4 DEF P

LEMMA ConStep == ConInv /\ [Next]_vars => ConInv'
<1> SUFFICES ASSUME ConInv, [Next]_vars PROVE ConInv'
  OBVIOUS
<1>1. CASE Interrupt
  BY <1>1, StepInterrupt
<1>2. CASE IrqPuts
  BY <1>2, StepEnter DEF IrqPuts, P
<1>3. CASE \E ch \in Printable \cup Controls : MainPuts(ch)
  <2>1. PICK ch \in Printable \cup Controls : MainPuts(ch)
    BY <1>3
  <2>2. QED
    BY <2>1, StepEnter DEF MainPuts, P
<1>4. CASE \E p \in P : putch(p)
  <2>1. PICK p \in P : putch(p)
    BY <1>4
  <2>2. QED
    BY <2>1, StepCell, StepMove, StepWrap, StepNextRow, StepScrollCopy, StepScrollBlank,
       StepLastRow, StepCsr DEF putch
<1>5. CASE UNCHANGED vars
  BY <1>5 DEF vars, ConInv, ConTypes, IrqInv, MainInv, CursorInv, ReachInv, OnScreen,
     NearScreen, Handling
<1>6. QED
  BY <1>1, <1>2, <1>3, <1>4, <1>5 DEF Next

(* ConInv holds in every state: however the handler's putch falls into the *)
(* main program's, registers, cursor and the cells written stay where      *)
(* conio.c needs them.                                                     *)
THEOREM ConsoleInvariance == Spec => []ConInv
<1>1. QED
  BY ConInit, ConStep, PTL DEF Spec

(* putch never writes behind the one row after the screen, and the cursor  *)
(* is on the screen whenever nobody prints, for every screen and tab size, *)
(* every text and every message of the handler.                            *)
THEOREM NoWildWrite == Spec => []StaysInMemory
<1>1. ConInv => StaysInMemory
  BY DEF ConInv, CursorInv, ReachInv, OnScreen, Quiet, StaysInMemory
<1>2. QED
  BY <1>1, ConsoleInvariance, PTL

-----------------------------------------------------------------------------
(* The screen, without interrupts *)

Term(col, line, rows) == [x |-> col, y |-> line, row |-> rows]

(* The terminal that the memory and the cursor stand for. *)
Shown == Term(csr_x, csr_y, Screen)

(* The rows after a line feed on the last one, and when only the copy is done. *)
Up(rows)   == [r \in 0..Rows-1 |-> IF r < Rows - 1 THEN rows[r + 1] ELSE Ref!BlankRow]
Half(rows) == [r \in 0..Rows-1 |-> IF r < Rows - 1 THEN rows[r] ELSE Ref!BlankRow]

(* What the rest of putch still has to do to the screen and the cursor. *)
TermInv ==
  LET at == pc["main"]
      ch == c["main"]
  IN
  /\ irqs \in Nat
  /\ irqs = 0 =>
       /\ ~Handling /\ DOMAIN video = Cells
       /\ at # "ready" => x["main"] = csr_x /\ y["main"] = csr_y
       /\ at = "ready"  => term = Shown /\ cursor = csr_y * Cols + csr_x
       /\ at = "cell"   => term = Ref!Show(Shown, ch)
       /\ at = "move"   => term = IF ch = "NL" THEN Ref!NewLine(Shown)
                                               ELSE Ref!MoveTo(Shown, NewCol(ch, csr_x))
       /\ at = "wrap"   => term = IF csr_x >= Cols THEN Ref!NewLine(Shown) ELSE Shown
       /\ at = "row"    => csr_x = 0 /\ term = Ref!NewLine(Shown)
       /\ at = "scroll" => \/ csr_y < Rows /\ term = Shown
                           \/ /\ csr_y = Rows /\ csr_x = 0
                              /\ term = Term(0, Rows - 1, Up(Screen))
       /\ at = "blank"  => /\ csr_y = Rows /\ csr_x = 0
                           /\ term = Term(0, Rows - 1, Half(Screen))
       /\ at = "last"   => csr_x = 0 /\ term = Term(0, Rows - 1, Screen)
       /\ at = "csr"    => term = Shown

LEMMA NewLineOf ==
  ASSUME NEW col \in Int, NEW line \in Int, NEW rows
  PROVE  Ref!NewLine(Term(col, line, rows)) =
           IF line < Rows - 1 THEN Term(0, line + 1, rows) ELSE Term(0, line, Up(rows))
<1>1. Term(col, line, rows).y = line /\ Term(col, line, rows).row = rows
  BY DEF Term
<1>2. CASE line < Rows - 1
  <2>1. Ref!NewLine(Term(col, line, rows)) =
          [Term(col, line, rows) EXCEPT !.x = 0, !.y = line + 1]
    BY <1>1, <1>2 DEF Ref!NewLine
  <2>2. QED
    BY <1>2, <2>1 DEF Term
<1>3. CASE ~(line < Rows - 1)
  <2>1. Ref!NewLine(Term(col, line, rows)) =
          [Term(col, line, rows) EXCEPT !.x = 0, !.row = Up(rows)]
    BY <1>1, <1>3 DEF Ref!NewLine, Up
  <2>2. QED
    BY <1>3, <2>1 DEF Term
<1>4. QED
  BY <1>2, <1>3

LEMMA MoveToOf ==
  ASSUME NEW col \in Int, NEW line \in Int, NEW rows, NEW n \in Int
  PROVE  Ref!MoveTo(Term(col, line, rows), n) =
           IF n < Cols THEN Term(n, line, rows) ELSE Ref!NewLine(Term(col, line, rows))
BY DEF Ref!MoveTo, Term

(* The next tab stop of the terminal is the one that putch computes. *)
LEMMA NextTabOf ==
  ASSUME NEW col \in Int, 0 <= col
  PROVE  Ref!NextTab(col) = ((col + TabStop) \div TabStop) * TabStop
<1> DEFINE q == (col + TabStop) \div TabStop
<1>1. TabStop \in Int /\ TabStop > 0
  BY SizeAssumption
<1>2. /\ q \in Int /\ q * TabStop \in Int
      /\ col < q * TabStop /\ q * TabStop <= col + TabStop
  BY TabLemma
<1> HIDE DEF q
<1>3. (q * TabStop) % TabStop = 0
  BY <1>1, <1>2, SMT
<1>4. ASSUME NEW s \in col+1..col+TabStop, s % TabStop = 0
      PROVE  s = q * TabStop
  <2> DEFINE j == s \div TabStop
  <2>1. s = j * TabStop + (s % TabStop)
    BY <1>1, SMT
  <2>2. j \in Int
    BY <1>1, SMT
  <2> HIDE DEF j
  <2>3. s = j * TabStop
    BY <2>1, <2>2, <1>1, <1>4, SMT
  <2>4. CASE j + 1 <= q
    <3>1. (j + 1) * TabStop <= q * TabStop
      BY <1>1, <1>2, <2>2, <2>4, SMT
    <3>2. (j + 1) * TabStop = s + TabStop
      BY <1>1, <2>2, <2>3, SMT
    <3>3. QED
      BY <3>1, <3>2, <1>1, <1>2
  <2>5. CASE q + 1 <= j
    <3>1. (q + 1) * TabStop <= j * TabStop
      BY <1>1, <1>2, <2>2, <2>5, SMT
    <3>2. (q + 1) * TabStop = q * TabStop + TabStop
      BY <1>1, <1>2, SMT
    <3>3. QED
      BY <3>1, <3>2, <2>3, <1>1, <1>2
  <2>6. QED
    BY <2>2, <2>3, <2>4, <2>5, <1>2
<1>5. q * TabStop \in col+1..col+TabStop
  BY <1>1, <1>2
<1>6. Ref!NextTab(col) = q * TabStop
  BY <1>3, <1>4, <1>5 DEF Ref!NextTab
<1>7. QED
  BY <1>6 DEF q

(* What the terminal does with a character, in terms of NewCol. *)
LEMMA ShowOf ==
  ASSUME NEW col \in Int, 0 <= col, NEW line \in Int, NEW rows, NEW ch
  PROVE  Ref!Show(Term(col, line, rows), ch) =
           IF ch = "NL" THEN Ref!NewLine(Term(col, line, rows))
           ELSE IF IsPrintable(ch)
             THEN Ref!MoveTo(Term(col, line, [rows EXCEPT ![line][col] = ch]), NewCol(ch, col))
             ELSE Ref!MoveTo(Term(col, line, rows), NewCol(ch, col))
<1> DEFINE t == Term(col, line, rows)
<1>1. t.x = col /\ t.y = line /\ t.row = rows
  BY DEF Term
<1>2. [t EXCEPT !.row[t.y][t.x] = ch] = Term(col, line, [rows EXCEPT ![line][col] = ch])
  BY DEF Term
<1> HIDE DEF t
<1>3. CASE ch = "NL"
  BY <1>3 DEF Ref!Show, t
<1>4. CASE ch = "TAB"
  <2>1. Ref!Show(t, ch) = Ref!MoveTo(t, Ref!NextTab(col))
    BY <1>1, <1>4 DEF Ref!Show
  <2>2. NewCol(ch, col) = Ref!NextTab(col)
    BY <1>4, NextTabOf DEF NewCol
  <2>3. QED
    BY <1>4, <2>1, <2>2 DEF IsPrintable, t
<1>5. CASE ch = "BS"
  <2>1. Ref!Show(t, ch) = Ref!MoveTo(t, IF col = 0 THEN 0 ELSE col - 1)
    BY <1>1, <1>5 DEF Ref!Show
  <2>2. NewCol(ch, col) = IF col = 0 THEN 0 ELSE col - 1
    BY <1>5 DEF NewCol
  <2>3. QED
    BY <1>5, <2>1, <2>2 DEF IsPrintable, t
<1>6. CASE ch = "CR"
  <2>1. Ref!Show(t, ch) = Ref!MoveTo(t, 0) /\ NewCol(ch, col) = 0
    BY <1>1, <1>6 DEF Ref!Show, NewCol
  <2>2. QED
    BY <1>6, <2>1 DEF IsPrintable, t
<1>7. CASE IsPrintable(ch)
  <2>1. ch # "NL" /\ ch # "TAB" /\ ch # "BS" /\ ch # "CR"
    BY <1>7 DEF IsPrintable
  <2>2. Ref!Show(t, ch) = Ref!MoveTo([t EXCEPT !.row[t.y][t.x] = ch], col + 1)
    BY <1>1, <2>1 DEF Ref!Show
  <2>3. NewCol(ch, col) = col + 1
    BY <2>1 DEF NewCol
  <2>4. Ref!Show(t, ch) =
          Ref!MoveTo(Term(col, line, [rows EXCEPT ![line][col] = ch]), NewCol(ch, col))
    BY <1>2, <2>2, <2>3
  <2>5. QED
    BY <1>7, <2>1, <2>4 DEF t
<1>8. QED
  BY <1>3, <1>4, <1>5, <1>6, <1>7 DEF IsPrintable

LEMMA ShowControl ==
  ASSUME NEW col \in Int, 0 <= col, NEW line \in Int, NEW rows, NEW ch, ~IsPrintable(ch)
  PROVE  Ref!Show(Term(col, line, rows), ch) =
           IF ch = "NL" THEN Ref!NewLine(Term(col, line, rows))
                        ELSE Ref!MoveTo(Term(col, line, rows), NewCol(ch, col))
BY ShowOf, ZenonT(30)

(* Cells of different places on the screen are different cells of memory. *)
LEMMA CellOf ==
  ASSUME NEW r \in 0..Rows-1, NEW k \in 0..Cols-1
  PROVE  /\ r * Cols + k \in Cells
         /\ r * Cols + k + Cols = (r + 1) * Cols + k
         /\ r < Rows - 1 <=> r * Cols + k < (Rows - 1) * Cols
         /\ r * Cols + k <= (Rows - 1) * Cols + Cols - 1
         /\ (Rows - 1) * Cols \in Int
<1> USE Sizes
<1>1. r * Cols \in Int /\ (r + 1) * Cols = r * Cols + Cols /\ 0 <= r * Cols
  BY SMT
<1>2. /\ (Rows - 1) * Cols \in Int /\ (Rows + 2) * Cols \in Int
      /\ (Rows + 2) * Cols = (Rows - 1) * Cols + 3 * Cols
  BY SMT
<1>3. r * Cols <= (Rows - 1) * Cols
  BY <1>1, <1>2, SMT
<1>4. r < Rows - 1 => (r + 1) * Cols <= (Rows - 1) * Cols
  BY <1>1, <1>2, SMT
<1>5. r = Rows - 1 => r * Cols = (Rows - 1) * Cols
  OBVIOUS
<1>6. r * Cols + k \in Cells
  BY <1>1, <1>2, <1>3 DEF Cells
<1>7. QED
  BY <1>1, <1>2, <1>3, <1>4, <1>5, <1>6

LEMMA CellsDiffer ==
  ASSUME NEW r \in 0..Rows-1, NEW k \in 0..Cols-1,
         NEW r2 \in 0..Rows-1, NEW k2 \in 0..Cols-1,
         r * Cols + k = r2 * Cols + k2
  PROVE  r = r2 /\ k = k2
<1> USE Sizes
<1>1. r * Cols \in Int /\ r2 * Cols \in Int
  BY SMT
<1>2. CASE r + 1 <= r2
  <2>1. (r + 1) * Cols <= r2 * Cols
    BY <1>1, <1>2, SMT
  <2>2. (r + 1) * Cols = r * Cols + Cols
    BY SMT
  <2>3. QED
    BY <2>1, <2>2, <1>1
<1>3. CASE r2 + 1 <= r
  <2>1. (r2 + 1) * Cols <= r * Cols
    BY <1>1, <1>3, SMT
  <2>2. (r2 + 1) * Cols = r2 * Cols + Cols
    BY SMT
  <2>3. QED
    BY <2>1, <2>2, <1>1
<1>4. CASE r = r2
  BY <1>1, <1>4
<1>5. QED
  BY <1>2, <1>3, <1>4

(* The screen after a character is stored, after the copy of a scroll by   *)
(* one row, and after its last row is blanked.                             *)
LEMMA ScreenStore ==
  ASSUME NEW line \in 0..Rows-1, NEW col \in 0..Cols-1, NEW ch, DOMAIN video = Cells,
         video' = [video EXCEPT ![line * Cols + col] = ch]
  PROVE  Screen' = [Screen EXCEPT ![line][col] = ch]
<1>1. ASSUME NEW r \in 0..Rows-1, NEW k \in 0..Cols-1
      PROVE  video'[r * Cols + k] =
               IF r = line /\ k = col THEN ch ELSE video[r * Cols + k]
  <2>1. r * Cols + k \in DOMAIN video
    BY CellOf
  <2>2. r * Cols + k = line * Cols + col => r = line /\ k = col
    BY CellsDiffer
  <2>3. QED
    BY <2>1, <2>2
<1>2. [Screen EXCEPT ![line][col] = ch] =
        [r \in 0..Rows-1 |-> IF r = line THEN [Screen[line] EXCEPT ![col] = ch] ELSE Screen[r]]
  BY DEF Screen
<1>3. [Screen[line] EXCEPT ![col] = ch] =
        [k \in 0..Cols-1 |-> IF k = col THEN ch ELSE video[line * Cols + k]]
  BY DEF Screen
<1>4. ASSUME NEW r \in 0..Rows-1
      PROVE  Screen'[r] = IF r = line THEN [Screen[line] EXCEPT ![col] = ch] ELSE Screen[r]
  <2>1. Screen'[r] = [k \in 0..Cols-1 |-> video'[r * Cols + k]]
    BY DEF Screen
  <2>2. Screen[r] = [k \in 0..Cols-1 |-> video[r * Cols + k]]
    BY DEF Screen
  <2>3. CASE r = line
    <3>1. Screen'[r] = [k \in 0..Cols-1 |-> IF k = col THEN ch ELSE video[line * Cols + k]]
      BY <1>1, <2>1, <2>3
    <3>2. QED
      BY <3>1, <1>3, <2>3
  <2>4. CASE r # line
    <3>1. Screen'[r] = Screen[r]
      BY <1>1, <2>1, <2>2, <2>4
    <3>2. QED
      BY <3>1, <2>4
  <2>5. QED
    BY <2>3, <2>4
<1>5. Screen' = [r \in 0..Rows-1 |-> Screen'[r]]
  BY DEF Screen
<1>6. QED
  BY <1>2, <1>4, <1>5

LEMMA ScreenCopy ==
  ASSUME video' = [i \in Cells |-> IF i < (Rows - 1) * Cols
                                     THEN video[i + 1 * Cols] ELSE video[i]]
  PROVE  Half(Screen') = Up(Screen)
<1> USE Sizes
<1>1. ASSUME NEW r \in 0..Rows-1, r < Rows - 1
      PROVE  Screen'[r] = Screen[r + 1]
  <2>1. ASSUME NEW k \in 0..Cols-1
        PROVE  video'[r * Cols + k] = video[(r + 1) * Cols + k]
    <3>1. /\ r * Cols + k \in Cells /\ r * Cols + k < (Rows - 1) * Cols
          /\ r * Cols + k + Cols = (r + 1) * Cols + k
      BY <1>1, CellOf
    <3>2. 1 * Cols = Cols
      OBVIOUS
    <3>3. QED
      BY <3>1, <3>2
  <2>2. r + 1 \in 0..Rows-1
    BY <1>1
  <2>3. QED
    BY <2>1, <2>2 DEF Screen
<1>2. QED
  BY <1>1 DEF Half, Up

LEMMA ScreenBlank ==
  ASSUME NEW from, from = (Rows - 1) * Cols,
         video' = [i \in Cells |-> IF i \in from..from+Cols-1 THEN Blank ELSE video[i]]
  PROVE  Screen' = Half(Screen)
<1> USE Sizes
<1>1. ASSUME NEW r \in 0..Rows-1, NEW k \in 0..Cols-1
      PROVE  video'[r * Cols + k] = IF r < Rows - 1 THEN video[r * Cols + k] ELSE Blank
  <2>1. /\ r * Cols + k \in Cells /\ (Rows - 1) * Cols \in Int
        /\ r < Rows - 1 <=> r * Cols + k < (Rows - 1) * Cols
        /\ r * Cols + k <= (Rows - 1) * Cols + Cols - 1
    BY CellOf
  <2>2. r * Cols + k \in Int
    BY SMT
  <2>3. QED
    BY <2>1, <2>2
<1>2. ASSUME NEW r \in 0..Rows-1
      PROVE  Screen'[r] = IF r < Rows - 1 THEN Screen[r] ELSE Ref!BlankRow
  BY <1>1 DEF Screen, Ref!BlankRow
<1>3. Screen' = [r \in 0..Rows-1 |-> Screen'[r]]
  BY DEF Screen
<1>4. QED
  BY <1>2, <1>3 DEF Half

LEMMA TermInit == Init => TermInv
<1> USE Sizes
<1> SUFFICES ASSUME Init PROVE TermInv
  OBVIOUS
<1>1. /\ pc["main"] = "ready" /\ irqs = 0 /\ ~Handling /\ DOMAIN video = Cells
      /\ csr_x = 0 /\ csr_y = 0 /\ cursor = 0
  BY DEF Init, Handling, P
<1>2. \A r \in 0..Rows-1, k \in 0..Cols-1 : video[r * Cols + k] = Blank
  BY CellOf DEF Init
<1>3. Screen = [r \in 0..Rows-1 |-> Ref!BlankRow]
  BY <1>2 DEF Screen, Ref!BlankRow
<1>4. term = Shown
  BY <1>1, <1>3 DEF Init, Ref!Cleared, Shown, Term
<1>5. cursor = csr_y * Cols + csr_x
  BY <1>1, SMT
<1>6. QED
  BY <1>1, <1>4, <1>5 DEF TermInv

(* Without interrupts it is the main program that runs, and its registers  *)
(* are the cursor.                                                         *)
LEMMA Alone ==
  ASSUME ConInv, TermInv, irqs = 0, NEW p \in P, NEW from, NEW to \in Places,
         Goto(p, from, to), message' = message
  PROVE  /\ p = "main" /\ ~Handling /\ ~Handling' /\ DOMAIN video = Cells
         /\ pc["main"] = from /\ pc'["main"] = to
         /\ from # "ready" => X(p) = {csr_x} /\ Y(p) = {csr_y}
<1>1. ~Handling /\ DOMAIN video = Cells
  BY DEF TermInv
<1>2. p = "main"
  BY <1>1 DEF Goto, Running, P
<1>3. ~Handling' /\ pc["main"] = from /\ pc'["main"] = to
  BY <1>2, MainStep DEF ConInv
<1>4. from # "ready" => x["main"] = csr_x /\ y["main"] = csr_y
  BY <1>3 DEF TermInv
<1>5. QED
  BY <1>1, <1>2, <1>3, <1>4 DEF X, Y

LEMMA TermPuts ==
  ASSUME ConInv, TermInv, irqs = 0, NEW ch, MainPuts(ch)
  PROVE  TermInv'
<1>1. /\ Goto("main", "ready", "cell") /\ message' = message
      /\ c' = [c EXCEPT !["main"] = ch] /\ irqs' = irqs
      /\ x' = [x EXCEPT !["main"] = csr_x] /\ y' = [y EXCEPT !["main"] = csr_y]
      /\ video' = video /\ csr_x' = csr_x /\ csr_y' = csr_y
      /\ term' = Ref!Show(term, ch)
  BY DEF MainPuts, Enter
<1>2. /\ ~Handling /\ ~Handling' /\ DOMAIN video = Cells
      /\ pc["main"] = "ready" /\ pc'["main"] = "cell"
  BY <1>1, Alone DEF P, Places
<1>3. c'["main"] = ch /\ x'["main"] = csr_x /\ y'["main"] = csr_y
  BY <1>1 DEF ConInv, ConTypes, P
<1>4. Shown' = Shown /\ term = Shown
  BY <1>1, <1>2 DEF TermInv, Shown, Screen, Term
<1>5. term' = Ref!Show(Shown', c'["main"])
  BY <1>1, <1>3, <1>4
<1>6. QED
  BY <1>1, <1>2, <1>3, <1>5 DEF TermInv

LEMMA TermCell ==
  ASSUME ConInv, TermInv, irqs = 0, NEW p \in P, Cell(p)
  PROVE  TermInv'
<1> USE Sizes
<1>1. /\ Goto(p, "cell", "move") /\ message' = message /\ irqs' = irqs
      /\ c' = c /\ x' = x /\ y' = y /\ csr_x' = csr_x /\ csr_y' = csr_y /\ term' = term
  BY DEF Cell
<1>2. /\ p = "main" /\ ~Handling /\ ~Handling' /\ DOMAIN video = Cells
      /\ pc["main"] = "cell" /\ pc'["main"] = "move" /\ X(p) = {csr_x} /\ Y(p) = {csr_y}
  BY <1>1, Alone DEF Places
<1> DEFINE ch == c["main"]
<1>3. csr_x \in 0..Cols-1 /\ csr_y \in 0..Rows-1
  BY <1>2 DEF ConInv, CursorInv, OnScreen
<1>4. /\ term = Ref!Show(Term(csr_x, csr_y, Screen), ch)
      /\ x["main"] = csr_x /\ y["main"] = csr_y
  BY <1>2 DEF TermInv, Shown
<1>5. term' = IF ch = "NL" THEN Ref!NewLine(Shown')
                           ELSE Ref!MoveTo(Shown', NewCol(ch, csr_x))
  <2>1. CASE IsPrintable(ch)
    <3>1. video' = [video EXCEPT ![csr_y * Cols + csr_x] = ch]
      BY <1>2, <2>1 DEF Cell
    <3>2. Screen' = [Screen EXCEPT ![csr_y][csr_x] = ch]
      <4>1. PICK line \in 0..Rows-1, col \in 0..Cols-1, k \in {ch} :
              line = csr_y /\ col = csr_x /\ k = ch
        BY <1>3
      <4>2. video' = [video EXCEPT ![line * Cols + col] = k]
        BY <3>1, <4>1
      <4>3. Screen' = [Screen EXCEPT ![line][col] = k]
        BY <1>2, <4>2, ScreenStore
      <4>4. QED
        BY <4>1, <4>3
    <3>3. Shown' = Term(csr_x, csr_y, [Screen EXCEPT ![csr_y][csr_x] = ch])
      BY <1>1, <3>2 DEF Shown, Term
    <3>4. ch # "NL"
      BY <2>1 DEF IsPrintable
    <3>5. term = Ref!MoveTo(Term(csr_x, csr_y, [Screen EXCEPT ![csr_y][csr_x] = ch]),
                            NewCol(ch, csr_x))
      BY <1>3, <1>4, <2>1, <3>4, ShowOf
    <3>6. QED
      BY <1>1, <3>3, <3>4, <3>5
  <2>2. CASE ~IsPrintable(ch)
    <3>1. video' = video
      BY <1>2, <2>2 DEF Cell
    <3>2. Shown' = Term(csr_x, csr_y, Screen)
      BY <1>1, <3>1 DEF Shown, Screen, Term
    <3>3. term = IF ch = "NL" THEN Ref!NewLine(Term(csr_x, csr_y, Screen))
                 ELSE Ref!MoveTo(Term(csr_x, csr_y, Screen), NewCol(ch, csr_x))
      BY <1>3, <1>4, <2>2, ShowControl
    <3>4. QED
      BY <1>1, <3>2, <3>3
  <2>3. QED
    BY <2>1, <2>2
<1>6. DOMAIN video' = Cells
  BY <1>2 DEF Cell
<1>7. QED
  BY <1>1, <1>2, <1>4, <1>5, <1>6 DEF TermInv

LEMMA TermMove ==
  ASSUME ConInv, TermInv, irqs = 0, NEW p \in P, Move(p)
  PROVE  TermInv'
<1> USE Sizes
<1> DEFINE to == IF c[p] = "NL" THEN "row" ELSE "wrap"
<1>1. /\ Goto(p, "move", to) /\ message' = message /\ irqs' = irqs
      /\ c' = c /\ y' = y /\ video' = video /\ csr_y' = csr_y /\ term' = term
  BY DEF Move
<1>0. to \in {"row", "wrap"}
  OBVIOUS
<1>2. /\ p = "main" /\ ~Handling /\ ~Handling' /\ DOMAIN video = Cells
      /\ pc["main"] = "move" /\ pc'["main"] = to /\ X(p) = {csr_x}
  BY <1>0, <1>1, Alone DEF Places
<1> DEFINE ch == c["main"]
<1> DEFINE n == NewCol(ch, csr_x)
<1>3. csr_x \in 0..Cols-1 /\ csr_y \in 0..Rows-1
  BY <1>2 DEF ConInv, CursorInv, OnScreen
<1>4. csr_x' = n /\ x'["main"] = n /\ y'["main"] = csr_y'
  <2>1. csr_x' = n /\ x' = [x EXCEPT !["main"] = n]
    BY <1>2 DEF Move
  <2>2. y["main"] = csr_y
    BY <1>2 DEF TermInv
  <2>3. QED
    BY <1>1, <2>1, <2>2 DEF ConInv, ConTypes, P
<1>5. n \in Int
  BY <1>3, NewColBounds
<1>6. term = IF ch = "NL" THEN Ref!NewLine(Term(csr_x, csr_y, Screen))
                          ELSE Ref!MoveTo(Term(csr_x, csr_y, Screen), n)
  BY <1>2 DEF TermInv, Shown
<1> HIDE DEF n
<1>7. Shown' = Term(n, csr_y, Screen)
  BY <1>1, <1>4 DEF Shown, Screen, Term
<1>8. Ref!NewLine(Term(n, csr_y, Screen)) = Ref!NewLine(Term(csr_x, csr_y, Screen))
  BY <1>3, <1>5, NewLineOf
<1>9. term' = IF ch = "NL" \/ csr_x' >= Cols THEN Ref!NewLine(Shown') ELSE Shown'
  BY <1>1, <1>3, <1>4, <1>5, <1>6, <1>7, <1>8, MoveToOf
<1>10. /\ to = "row" => csr_x' = 0 /\ ch = "NL"
       /\ to = "wrap" => ch # "NL"
  BY <1>2, <1>4 DEF n, NewCol
<1> HIDE DEF to
<1>11. QED
  BY <1>0, <1>1, <1>2, <1>4, <1>9, <1>10 DEF TermInv

LEMMA TermWrap ==
  ASSUME ConInv, TermInv, irqs = 0, NEW p \in P, Wrap(p)
  PROVE  TermInv'
<1> USE Sizes
<1>1. /\ message' = message /\ irqs' = irqs
      /\ c' = c /\ y' = y /\ video' = video /\ csr_y' = csr_y /\ term' = term
  BY DEF Wrap
<1>2. PICK to \in {"row", "scroll"} : Goto(p, "wrap", to)
  BY DEF Wrap
<1>3. /\ p = "main" /\ ~Handling /\ ~Handling' /\ DOMAIN video = Cells
      /\ pc["main"] = "wrap" /\ pc'["main"] = to /\ X(p) = {csr_x}
  BY <1>1, <1>2, Alone DEF Places
<1>4. csr_x \in 0..Cols /\ csr_y \in 0..Rows-1
  BY <1>3 DEF ConInv, CursorInv
<1>5. /\ term = IF csr_x >= Cols THEN Ref!NewLine(Term(csr_x, csr_y, Screen)) ELSE Shown
      /\ x["main"] = csr_x /\ y["main"] = csr_y
  BY <1>3 DEF TermInv, Shown
<1>6. CASE csr_x >= Cols
  <2>1. pc'["main"] = "row" /\ csr_x' = 0 /\ x'["main"] = 0
    <3>1. Goto("main", "wrap", "row") /\ csr_x' = 0 /\ x' = [x EXCEPT !["main"] = 0]
      BY <1>3, <1>6 DEF Wrap
    <3>2. QED
      BY <3>1 DEF Goto, ConInv, ConTypes, P
  <2>2. Shown' = Term(0, csr_y, Screen)
    BY <1>1, <2>1 DEF Shown, Screen, Term
  <2>3. Ref!NewLine(Term(0, csr_y, Screen)) = Ref!NewLine(Term(csr_x, csr_y, Screen))
    BY <1>4, NewLineOf
  <2>4. term' = Ref!NewLine(Shown')
    BY <1>1, <1>5, <1>6, <2>2, <2>3
  <2>5. QED
    BY <1>1, <1>3, <1>5, <2>1, <2>4 DEF TermInv
<1>7. CASE ~(csr_x >= Cols)
  <2>1. pc'["main"] = "scroll" /\ csr_x' = csr_x /\ x' = x
    <3>1. Goto("main", "wrap", "scroll") /\ csr_x' = csr_x /\ x' = x
      BY <1>3, <1>7 DEF Wrap
    <3>2. QED
      BY <3>1 DEF Goto, ConInv, ConTypes, P
  <2>2. Shown' = Shown
    BY <1>1, <2>1 DEF Shown, Screen, Term
  <2>3. term' = Shown' /\ csr_y' < Rows
    BY <1>1, <1>4, <1>5, <1>7, <2>2
  <2>4. QED
    BY <1>1, <1>3, <1>5, <2>1, <2>3 DEF TermInv
<1>8. QED
  BY <1>6, <1>7

LEMMA TermNextRow ==
  ASSUME ConInv, TermInv, irqs = 0, NEW p \in P, NextRow(p)
  PROVE  TermInv'
<1> USE Sizes
<1>1. /\ Goto(p, "row", "scroll") /\ message' = message /\ irqs' = irqs
      /\ c' = c /\ x' = x /\ video' = video /\ csr_x' = csr_x /\ term' = term
  BY DEF NextRow
<1>2. /\ p = "main" /\ ~Handling /\ ~Handling' /\ DOMAIN video = Cells
      /\ pc["main"] = "row" /\ pc'["main"] = "scroll" /\ Y(p) = {csr_y}
  BY <1>1, Alone DEF Places
<1>3. csr_y' = csr_y + 1 /\ y'["main"] = csr_y + 1
  <2>1. csr_y' = csr_y + 1 /\ y' = [y EXCEPT !["main"] = csr_y + 1]
    BY <1>2 DEF NextRow
  <2>2. QED
    BY <2>1 DEF ConInv, ConTypes, P
<1>4. csr_x = 0 /\ x["main"] = csr_x /\ term = Ref!NewLine(Term(csr_x, csr_y, Screen))
  BY <1>2 DEF TermInv, Shown
<1>5. csr_y \in 0..Rows-1
  BY <1>2 DEF ConInv, CursorInv, OnScreen
<1>6. term = IF csr_y < Rows - 1 THEN Term(0, csr_y + 1, Screen)
                                 ELSE Term(0, csr_y, Up(Screen))
  BY <1>4, <1>5, NewLineOf
<1>7. Screen' = Screen /\ Shown' = Term(0, csr_y + 1, Screen)
  BY <1>1, <1>3, <1>4 DEF Shown, Screen, Term
<1>8. Up(Screen)' = Up(Screen)
  BY <1>1 DEF Up, Screen
<1>9. \/ csr_y' < Rows /\ term' = Shown'
      \/ csr_y' = Rows /\ csr_x' = 0 /\ term' = Term(0, Rows - 1, Up(Screen)')
  <2>1. CASE csr_y < Rows - 1
    BY <1>1, <1>3, <1>5, <1>6, <1>7, <2>1
  <2>2. CASE csr_y = Rows - 1
    BY <1>1, <1>3, <1>4, <1>6, <1>8, <2>2
  <2>3. QED
    BY <1>5, <2>1, <2>2
<1>10. QED
  BY <1>1, <1>2, <1>3, <1>4, <1>9 DEF TermInv

LEMMA TermScrollCopy ==
  ASSUME ConInv, TermInv, irqs = 0, NEW p \in P, ScrollCopy(p)
  PROVE  TermInv'
<1> USE Sizes
<1>1. /\ message' = message /\ irqs' = irqs
      /\ c' = c /\ x' = x /\ csr_x' = csr_x /\ csr_y' = csr_y /\ term' = term
  BY DEF ScrollCopy
<1>2. PICK to \in {"blank", "csr"} : Goto(p, "scroll", to)
  BY DEF ScrollCopy
<1>3. /\ p = "main" /\ ~Handling /\ ~Handling' /\ DOMAIN video = Cells
      /\ pc["main"] = "scroll" /\ pc'["main"] = to /\ Y(p) = {csr_y}
  BY <1>1, <1>2, Alone DEF Places
<1>4. csr_y \in 0..Rows
  BY <1>3 DEF ConInv, CursorInv
<1>5. /\ x["main"] = csr_x /\ y["main"] = csr_y
      /\ \/ csr_y < Rows /\ term = Shown
         \/ csr_y = Rows /\ csr_x = 0 /\ term = Term(0, Rows - 1, Up(Screen))
  BY <1>3 DEF TermInv
<1>6. CASE csr_y = Rows
  <2>1. /\ Goto("main", "scroll", "blank")
        /\ video' = [i \in Cells |-> IF i < (Rows - (csr_y - Rows + 1)) * Cols
                                       THEN video[i + (csr_y - Rows + 1) * Cols] ELSE video[i]]
        /\ y' = [y EXCEPT !["main"] = csr_y]
    BY <1>3, <1>6 DEF ScrollCopy
  <2>2. pc'["main"] = "blank" /\ y'["main"] = csr_y
    BY <2>1 DEF Goto, ConInv, ConTypes, P
  <2>3. csr_y - Rows + 1 = 1
    BY <1>6
  <2>4. video' = [i \in Cells |-> IF i < (Rows - 1) * Cols
                                    THEN video[i + 1 * Cols] ELSE video[i]]
    BY <2>1, <2>3
  <2>5. Half(Screen') = Up(Screen)
    BY <2>4, ScreenCopy
  <2>6. Half(Screen)' = Half(Screen')
    BY DEF Half
  <2>7. term' = Term(0, Rows - 1, Half(Screen)')
    BY <1>1, <1>5, <1>6, <2>5, <2>6
  <2>8. DOMAIN video' = Cells
    BY <2>4
  <2>9. csr_x' = 0 /\ csr_y' = Rows
    BY <1>1, <1>5, <1>6
  <2>10. QED
    BY <1>1, <1>3, <1>5, <2>2, <2>7, <2>8, <2>9 DEF TermInv
<1>7. CASE csr_y < Rows
  <2>1. Goto("main", "scroll", "csr") /\ video' = video /\ y' = y
    BY <1>3, <1>4, <1>7 DEF ScrollCopy
  <2>2. pc'["main"] = "csr"
    BY <2>1 DEF Goto, ConInv, ConTypes, P
  <2>3. term' = Shown'
    BY <1>1, <1>4, <1>5, <1>7, <2>1 DEF Shown, Screen, Term
  <2>4. QED
    BY <1>1, <1>3, <1>5, <2>1, <2>2, <2>3 DEF TermInv
<1>8. QED
  BY <1>4, <1>6, <1>7

LEMMA TermScrollBlank ==
  ASSUME ConInv, TermInv, irqs = 0, NEW p \in P, ScrollBlank(p)
  PROVE  TermInv'
<1> USE Sizes
<1>1. /\ Goto(p, "blank", "last") /\ message' = message /\ irqs' = irqs /\ c' = c
      /\ x' = x /\ y' = y /\ csr_x' = csr_x /\ csr_y' = csr_y /\ term' = term
  BY DEF ScrollBlank
<1>2. /\ p = "main" /\ ~Handling /\ ~Handling' /\ DOMAIN video = Cells
      /\ pc["main"] = "blank" /\ pc'["main"] = "last"
  BY <1>1, Alone DEF Places
<1>3. /\ x["main"] = csr_x /\ y["main"] = csr_y
      /\ csr_y = Rows /\ csr_x = 0 /\ term = Term(0, Rows - 1, Half(Screen))
  BY <1>2 DEF TermInv
<1> DEFINE from == (Rows - (y["main"] - Rows + 1)) * Cols
<1>4. video' = [i \in Cells |-> IF i \in from..from+Cols-1 THEN Blank ELSE video[i]]
  BY <1>2 DEF ScrollBlank
<1>5. from = (Rows - 1) * Cols
  <2>1. y["main"] - Rows + 1 = 1
    BY <1>3
  <2>2. QED
    BY <2>1
<1> HIDE DEF from
<1>6. Screen' = Half(Screen)
  BY <1>4, <1>5, ScreenBlank
<1>7. DOMAIN video' = Cells
  BY <1>4
<1>8. term' = Term(0, Rows - 1, Screen')
  BY <1>1, <1>3, <1>6
<1>9. QED
  BY <1>1, <1>2, <1>3, <1>7, <1>8 DEF TermInv

LEMMA TermLastRow ==
  ASSUME ConInv, TermInv, irqs = 0, NEW p \in P, LastRow(p)
  PROVE  TermInv'
<1>1. /\ Goto(p, "last", "csr") /\ message' = message /\ irqs' = irqs
      /\ c' = c /\ x' = x /\ y' = [y EXCEPT ![p] = Rows - 1] /\ video' = video
      /\ csr_x' = csr_x /\ csr_y' = Rows - 1 /\ term' = term
  BY DEF LastRow
<1>2. /\ p = "main" /\ ~Handling /\ ~Handling' /\ DOMAIN video = Cells
      /\ pc["main"] = "last" /\ pc'["main"] = "csr"
  BY <1>1, Alone DEF Places
<1>3. x["main"] = csr_x /\ csr_x = 0 /\ term = Term(0, Rows - 1, Screen)
  BY <1>2 DEF TermInv
<1>4. y'["main"] = Rows - 1
  BY <1>1, <1>2 DEF ConInv, ConTypes, P
<1>5. term' = Shown'
  BY <1>1, <1>3 DEF Shown, Screen, Term
<1>6. QED
  BY <1>1, <1>2, <1>3, <1>4, <1>5 DEF TermInv

LEMMA TermCsr ==
  ASSUME ConInv, TermInv, irqs = 0, NEW p \in P, move_csr(p)
  PROVE  TermInv'
<1>1. /\ Goto(p, "csr", "ready") /\ message' = message /\ irqs' = irqs
      /\ video' = video /\ csr_x' = csr_x /\ csr_y' = csr_y /\ term' = term
      /\ cursor' = csr_y * Cols + csr_x
  BY DEF move_csr
<1>2. /\ p = "main" /\ ~Handling /\ ~Handling' /\ DOMAIN video = Cells
      /\ pc["main"] = "csr" /\ pc'["main"] = "ready"
  BY <1>1, Alone DEF Places
<1>3. term = Shown
  BY <1>2 DEF TermInv
<1>4. term' = Shown'
  BY <1>1, <1>3 DEF Shown, Screen, Term
<1>5. QED
  BY <1>1, <1>2, <1>4 DEF TermInv

LEMMA TermStep == ConInv /\ TermInv /\ [Next]_vars => TermInv'
<1> SUFFICES ASSUME ConInv, TermInv, [Next]_vars PROVE TermInv'
  OBVIOUS
<1>1. irqs \in Nat
  BY DEF TermInv
<1>2. CASE Interrupt
  <2>1. irqs' \in Nat /\ irqs' # 0
    BY <1>1, <1>2 DEF Interrupt
  <2>2. QED
    BY <2>1 DEF TermInv
<1>3. CASE UNCHANGED vars
  BY <1>3 DEF vars, TermInv, Shown, Screen, Term, Up, Half, Handling
<1>4. CASE IrqPuts \/ (\E ch \in Printable \cup Controls : MainPuts(ch))
             \/ \E p \in P : putch(p)
  <2>1. irqs' = irqs
    BY <1>4 DEF IrqPuts, MainPuts, Enter, putch, Cell, Move, Wrap, NextRow, ScrollCopy,
       ScrollBlank, LastRow, move_csr
  <2>2. CASE irqs # 0
    BY <1>1, <2>1, <2>2 DEF TermInv
  <2>3. CASE irqs = 0
    <3>1. ~IrqPuts
      BY <2>3 DEF TermInv, IrqPuts, Handling
    <3>2. ASSUME NEW p \in P, putch(p) PROVE TermInv'
      BY <2>3, <3>2, TermCell, TermMove, TermWrap, TermNextRow, TermScrollCopy,
         TermScrollBlank, TermLastRow, TermCsr DEF putch
    <3>3. QED
      BY <1>4, <2>3, <3>1, <3>2, TermPuts
  <2>4. QED
    BY <2>2, <2>3
<1>5. QED
  BY <1>2, <1>3, <1>4 DEF Next

(* Until a handler prints, putch implements the terminal of module         *)
(* Terminal: whenever it returns, the video memory, the cursor and the     *)
(* hardware cursor are those of the terminal that was given the same       *)
(* characters, for every screen whose width is a multiple of the tab and   *)
(* every text.                                                             *)
THEOREM ConsoleIsTerminal == Spec => []ShowsTerminal
<1>1. TermInv => ShowsTerminal
  BY DEF TermInv, ShowsTerminal, Quiet, Shown, Term
<1>2. QED
  BY <1>1, TermInit, TermStep, ConsoleInvariance, PTL DEF Spec
=============================================================================
