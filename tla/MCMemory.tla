------------------------------ MODULE MCMemory ------------------------------
(* Instance of Boot and Memory for TLC: tables of 16 entries, pages of 64  *)
(* bytes, and a heap of 112 bytes behind a kernel whose end is not         *)
(* aligned.                                                                *)
EXTENDS Boot

(* A structure of the given tags, each a sequence of words filled up to a  *)
(* multiple of eight bytes. *)
Structure(tags) ==
  LET body == FlattenSeq(tags) IN <<4 * Len(body) + 8, 0>> \o body

Tag(type, size, entries) == [type |-> type, size |-> size, entries |-> entries]

(* Information that fills a page exactly, with a memory map of two         *)
(* entries; a shorter one with a tag of an odd size; one that reaches into *)
(* the first page table and one that reaches behind the last, both with    *)
(* words that look like entries.                                           *)
SomeInfos ==
  { [words |-> Structure(<< <<4, 16, 640, 0>>, <<6, 32, 8, 0, 1, 2, 3, 4>>, <<0, 8>> >>),
     tags  |-> << Tag(4, 16, <<>>), Tag(6, 32, <<1, 3>>), Tag(0, 8, <<>>) >>,
     at    |-> <<8, 24, 56, 64>>],
    [words |-> Structure(<< <<2, 13, 7, 7>>, <<6, 24, 8, 0, 5, 6>>, <<0, 8>> >>),
     tags  |-> << Tag(2, 13, <<>>), Tag(6, 24, <<5>>), Tag(0, 8, <<>>) >>,
     at    |-> <<8, 24, 48, 56>>],
    [words |-> Structure(<< [k \in 1..36 |-> IF k = 2 THEN 143 ELSE 2563], <<0, 8>> >>),
     tags  |-> << Tag(2563, 143, <<>>), Tag(0, 8, <<>>) >>,
     at    |-> <<8, 152, 160>>],
    [words |-> Structure(<< [k \in 1..100 |-> IF k = 2 THEN 8 ELSE 771], <<0, 8>> >>),
     tags  |-> <<>>, at |-> <<>>] }
=============================================================================
