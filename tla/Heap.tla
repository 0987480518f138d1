-------------------------------- MODULE Heap --------------------------------
(***************************************************************************)
(* What umalloc and ufree promise to a program, without headers or lists:  *)
(* memory that starts at the first page and grows upwards, and blocks in   *)
(* it that the program holds, no two of which share a byte.                *)
(***************************************************************************)
EXTENDS Integers, Sequences, SequencesExt

CONSTANT Base    \* where the heap starts

VARIABLES
  brk,       \* the end of the memory the program has got so far
  blocks     \* the blocks the program holds, oldest first

heapVars == <<brk, blocks>>

Apart(a, b) ==
  \/ a.addr + a.len <= b.addr
  \/ b.addr + b.len <= a.addr

HeapInit ==
  /\ brk = Base
  /\ blocks = <<>>

Grow ==
  /\ brk' > brk
  /\ UNCHANGED blocks

\* A block of len bytes inside the heap, apart from every block held.
Alloc(addr, len) ==
  LET b == [addr |-> addr, len |-> len] IN
  /\ Base <= addr /\ addr + len <= brk
  /\ \A i \in DOMAIN blocks : Apart(blocks[i], b)
  /\ blocks' = Append(blocks, b)
  /\ UNCHANGED brk

Release(i) ==
  /\ blocks' = RemoveAt(blocks, i)
  /\ UNCHANGED brk

HeapNext ==
  \/ Grow
  \/ \E addr \in Base .. brk : \E len \in 1 .. brk - addr : Alloc(addr, len)
  \/ \E i \in DOMAIN blocks : Release(i)

HeapSpec == HeapInit /\ [][HeapNext]_heapVars
=============================================================================
