------------------------------- MODULE Sleep --------------------------------
(***************************************************************************)
(* The timer of pit.c and usleep of lib/sleep.c.  pit_counter has 64 bits; *)
(* the handler increments it with interrupts off, but usleep reads it as   *)
(* two 32-bit halves, low half first, and the interrupt may come between.  *)
(* Half stands for 2^32 and Unit for the 10 that usleep subtracts per tick.*)
(* Ticks are 10 ms apart: not two come between two steps of the program.   *)
(***************************************************************************)
EXTENDS Integers

CONSTANTS Half, Unit, Useconds

ASSUME SleepAssumption ==
  Half \in Nat \ {0, 1} /\ Unit \in Nat \ {0} /\ Useconds \subseteq 0..Half-1

VARIABLES
  lo, hi,        \* pit_counter
  reload,        \* the timer's reload value, low and high byte: <<lo, hi>>
  spc,           \* where the main program is
  rem, oldcounter, low,   \* locals of usleep; low is the half already read
  asked,         \* history: useconds
  ticks,         \* history: ticks since the call, as far as they are needed
  torn,          \* history: a carry came between the two halves of a read
  ticked         \* a tick came since the latest step of the program

locals    == <<rem, oldcounter, low>>
sleepvars == <<lo, hi, reload, spc, locals, asked, ticks, torn, ticked>>

Modulus == Half * Half
SignedLong(x) == LET y == x % Modulus IN IF y >= Modulus \div 2 THEN y - Modulus ELSE y

SleepInit ==
  /\ lo = 0 /\ hi = 0 /\ reload = <<0, 0>>
  /\ spc = "start"
  /\ rem = 0 /\ oldcounter = 0 /\ low = 0
  /\ asked = 0 /\ ticks = 0 /\ torn = FALSE /\ ticked = FALSE

(* set_pit: the mode byte goes to port 0x42, the data port of channel 2,   *)
(* not to the command port, so channel 0 keeps the mode the firmware left, *)
(* which takes two bytes.  Without memory for the handler nothing is done  *)
(* and no tick will ever be counted.                                       *)
set_pit ==
  /\ spc = "start"
  /\ \/ reload' = <<156, 46>> /\ spc' = "ready"   \* 0x2e9c
     \/ reload' = reload /\ spc' = "dead"
  /\ UNCHANGED <<lo, hi, locals, asked, ticks, torn>>

Enough == (Half \div Unit) + 1

(* A tick while the main program is anywhere behind set_pit. *)
pit_handler ==
  /\ spc \notin {"start", "dead"} /\ (ticked => spc \in {"ready", "asleep"})
  /\ ticked' = TRUE
  /\ lo' = (lo + 1) % Half
  /\ hi' = IF lo = Half - 1 THEN (hi + 1) % Half ELSE hi
  /\ ticks' = IF spc # "ready" /\ ticks < Enough THEN ticks + 1 ELSE ticks
  /\ torn' = (torn \/ (spc \in {"oldhi", "hi"} /\ lo = Half - 1))
  /\ spc' = IF spc = "asleep" THEN "lo" ELSE spc
  /\ UNCHANGED <<reload, locals, asked>>

(* Another interrupt ends hlt. *)
OtherIrq ==
  /\ spc = "asleep" /\ spc' = "lo"
  /\ UNCHANGED <<lo, hi, reload, locals, asked, ticks, torn, ticked>>

usleep ==
  /\ spc = "ready"
  /\ \E u \in Useconds : rem' = u /\ asked' = u
  /\ spc' = "oldlo" /\ ticks' = 0 /\ torn' = FALSE
  /\ UNCHANGED <<lo, hi, reload, oldcounter, low>>

ReadLow ==
  /\ spc \in {"oldlo", "lo"}
  /\ low' = lo
  /\ spc' = IF spc = "lo" THEN "hi" ELSE "oldhi"
  /\ UNCHANGED <<lo, hi, reload, rem, oldcounter, asked, ticks, torn>>

(* while(rem>0) *)
Loop(r) == IF r > 0 THEN "hlt" ELSE "returned"

ReadOld ==
  /\ spc = "oldhi"
  /\ oldcounter' = low + hi * Half
  /\ spc' = Loop(rem)
  /\ UNCHANGED <<lo, hi, reload, rem, low, asked, ticks, torn>>

Hlt ==
  /\ spc = "hlt" /\ spc' = "asleep"
  /\ UNCHANGED <<lo, hi, reload, locals, asked, ticks, torn>>

(* Faulty: the difference is always taken from the first reading. *)
NextOldFirst(counter) == oldcounter
(* Faulty: the reading before hlt is used, as if the compiler kept it. *)
CounterKept == oldcounter

NextOld(counter) == counter
Counter == low + hi * Half

Count ==
  /\ spc = "hi"
  /\ rem' = SignedLong(rem - (Counter - oldcounter) * Unit)
  /\ oldcounter' = NextOld(Counter)
  /\ spc' = Loop(rem')
  /\ UNCHANGED <<lo, hi, reload, low, asked, ticks, torn>>

SleepReturn ==
  /\ spc = "returned" /\ spc' = "ready"
  /\ rem' = 0 /\ oldcounter' = 0 /\ low' = 0 /\ asked' = 0 /\ ticks' = 0 /\ torn' = FALSE
  /\ UNCHANGED <<lo, hi, reload>>

Dead == spc = "dead" /\ UNCHANGED sleepvars

SleepMain ==
  /\ set_pit \/ usleep \/ ReadLow \/ ReadOld \/ Hlt \/ Count \/ SleepReturn
  /\ ticked' = FALSE
SleepNext == SleepMain \/ pit_handler \/ OtherIrq \/ Dead

SleepSpec == SleepInit /\ [][SleepNext]_sleepvars

-----------------------------------------------------------------------------
(* Properties *)

(* usleep returns before its time only if a carry into the high half came  *)
(* exactly between its two reads of pit_counter: a tick that is seen late, *)
(* a wake-up without a tick, or a carry at any other moment does no harm.  *)
NotEarly == spc = "returned" => ticks * Unit >= asked \/ torn

(* usleep returns, even when the counter was misread: ticks keep coming.   *)
SleepEnds == spc = "oldlo" ~> spc = "returned"
=============================================================================
