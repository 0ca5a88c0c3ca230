-------------------------------- MODULE Ring --------------------------------
(***************************************************************************)
(* Index arithmetic of the kernel's circular buffers: the key queue of     *)
(* keyboard.c and the two descriptor rings of pcnet32.c.  All three keep   *)
(* an index in 0..n-1, increment it and set it to 0 when it reaches n.     *)
(***************************************************************************)
EXTENDS Integers

(* ++p, and back to 0 at the end of a ring of n slots. *)
Inc(n, p) == IF p + 1 = n THEN 0 ELSE p + 1

(* The slot k places after slot h, for h in 0..n-1 and k in 0..n: where k  *)
(* increments of h lead.                                                   *)
Slot(n, h, k) == IF h + k < n THEN h + k ELSE h + k - n
=============================================================================
