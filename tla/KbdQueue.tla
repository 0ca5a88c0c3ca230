------------------------------ MODULE KbdQueue ------------------------------
(***************************************************************************)
(* What the key queue of keyboard.c promises its only reader, the command  *)
(* loop: a first-in first-out queue of at most Capacity keys.  A key that  *)
(* arrives is either appended or, only when the queue is full, discarded.  *)
(***************************************************************************)
EXTENDS Integers, Sequences

CONSTANTS Keys, Capacity

VARIABLES queue,     \* keys accepted and not yet removed
          out,       \* keys removed, in order
          arrivals   \* number of keys that arrived, discarded ones included

qvars == <<queue, out, arrivals>>

Init == queue = <<>> /\ out = <<>> /\ arrivals = 0

Arrive(k) ==
  /\ queue' = IF Len(queue) < Capacity THEN Append(queue, k) ELSE queue
  /\ arrivals' = arrivals + 1
  /\ UNCHANGED out

Remove ==
  /\ queue # <<>>
  /\ out' = Append(out, Head(queue))
  /\ queue' = Tail(queue)
  /\ UNCHANGED arrivals

Next == Remove \/ \E k \in Keys : Arrive(k)

Spec == Init /\ [][Next]_qvars
=============================================================================
