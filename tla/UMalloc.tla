------------------------------ MODULE UMalloc -------------------------------
(***************************************************************************)
(* The user heap (user/umalloc.c): a doubly linked list of chunks, each    *)
(* with a header in front of its data, in pages that usys_sbrk returns one *)
(* after the other.  The program that calls umalloc and ufree runs alone   *)
(* in its address space, so a call is a step, except that umalloc asks for *)
(* one page at a time and searches again after each.                       *)
(*                                                                         *)
(* Memory is kept as the headers that are intact: a header the program's   *)
(* data has overwritten leaves mem.  Printing (dump_malloc_list) is left   *)
(* out.                                                                    *)
(***************************************************************************)
EXTENDS Integers, Sequences, SequencesExt, FiniteSets, Functions

CONSTANTS
  ALIGN,      \* 4: sizes are rounded up to a multiple of it
  HDR,        \* sizeof(struct malloc_header)
  PAGE,       \* what usys_sbrk returns
  MaxPages,   \* pages the program can get before the machine is out of them
  MaxBlocks,  \* blocks the program holds at a time
  Requests,   \* the sizes the program asks for, far enough from 2^32 not to wrap; for 0
              \* umalloc returns NULL at once
  Frees       \* what it frees: "none", "lifo" (the newest block) or "any"

ASSUME SizesAssumption ==
  /\ {ALIGN, HDR, PAGE, MaxPages, MaxBlocks} \subseteq Nat \ {0}
  /\ HDR % ALIGN = 0 /\ PAGE % ALIGN = 0 /\ PAGE >= HDR + ALIGN
  /\ Requests \subseteq Nat \ {0}
  /\ Frees \in {"none", "lifo", "any"}

VARIABLES
  mem,       \* the intact headers, by address
  head,      \* head.next, the first chunk, and head.prev
  blocks,    \* the blocks the program holds, oldest first
  brk,       \* the address of the next page
  want       \* the bytes umalloc is looking for, 0 outside umalloc

vars == <<mem, head, blocks, brk, want>>

NULL == 0
Base == PAGE        \* any address but NULL

malloc_header(prev, next, size) ==
  [prev |-> prev, next |-> next, size |-> size, free |-> TRUE]

\* A header written at address n.
Put(m, n, header) == [h \in DOMAIN m \cup {n} |-> IF h = n THEN header ELSE m[h]]

Init ==
  /\ mem = <<>>
  /\ head = [next |-> NULL, prev |-> NULL]
  /\ blocks = <<>>
  /\ brk = Base
  /\ want = 0

----------------------------------------------------------------------------
(***************************************************************************)
(* The chunks umalloc passes: head.next and on by the next pointers.       *)
(***************************************************************************)
Chain ==
  LET follow(c, k) == IF Last(c) \in DOMAIN mem THEN Append(c, mem[Last(c)].next) ELSE c
  IN FoldLeft(follow, <<head.next>>, [k \in 1 .. Cardinality(DOMAIN mem) |-> k])

\* Mutant: the size is rounded down.
Mutant_aligned_bytes_Down(bytes) == (bytes \div ALIGN) * ALIGN

aligned_bytes(bytes) == ((bytes - 1) \div ALIGN + 1) * ALIGN

required_bytes(bytes) == aligned_bytes(bytes) + HDR + ALIGN

Fits(h, bytes) ==
  /\ mem[h].free
  /\ mem[h].size = aligned_bytes(bytes) \/ mem[h].size >= required_bytes(bytes)

\* The first chunk in the chain that fits; a larger one that would leave no room
\* for a remainder does not.
FirstFit(h, bytes) ==
  \E k \in DOMAIN Chain :
    /\ Chain[k] = h
    /\ h # NULL /\ Fits(h, bytes)
    /\ \A j \in 1 .. k - 1 : ~Fits(Chain[j], bytes)

\* Mutant: the remainder's size does not allow for its header.
Mutant_Split_NoHeader(h, bytes) ==
  LET c == mem[h]
      n == h + HDR + aligned_bytes(bytes)
  IN IF c.size = aligned_bytes(bytes)
     THEN [mem EXCEPT ![h].free = FALSE]
     ELSE Put([mem EXCEPT ![h].free = FALSE,
                          ![h].size = aligned_bytes(bytes),
                          ![h].next = n],
              n, malloc_header(h, c.next, c.size - aligned_bytes(bytes)))

\* Mutant: a chunk that is split is not marked used.
Mutant_Split_StaysFree(h, bytes) ==
  LET c == mem[h]
      n == h + HDR + aligned_bytes(bytes)
  IN IF c.size = aligned_bytes(bytes)
     THEN [mem EXCEPT ![h].free = FALSE]
     ELSE Put([mem EXCEPT ![h].size = aligned_bytes(bytes),
                          ![h].next = n],
              n, malloc_header(h, c.next, c.size - aligned_bytes(bytes) - HDR))

\* Marking a chunk used, cut down to the size asked for.
Split(h, bytes) ==
  LET c == mem[h]
      n == h + HDR + aligned_bytes(bytes)
  IN IF c.size = aligned_bytes(bytes)
     THEN [mem EXCEPT ![h].free = FALSE]
     ELSE Put([mem EXCEPT ![h].free = FALSE,
                          ![h].size = aligned_bytes(bytes),
                          ![h].next = n],
              n, malloc_header(h, c.next, c.size - aligned_bytes(bytes) - HDR))

\* The program may write all of its block; headers in it are gone.
Overwrite(m, addr, len) ==
  Restrict(m, {h \in DOMAIN m : h + HDR <= addr \/ addr + len <= h})

\* umalloc finds a chunk and returns the memory after its header.
umalloc ==
  /\ want # 0
  /\ \E h \in DOMAIN mem :
       LET addr == h + HDR IN
       /\ FirstFit(h, want)
       /\ mem' = Overwrite(Split(h, want), addr, want)
       /\ blocks' = Append(blocks, [addr |-> addr, len |-> want])
  /\ want' = 0
  /\ UNCHANGED <<head, brk>>

\* Merging chunk b into a: both of ufree's merges.
Merge(a, b, s) ==
  LET n == s.mem[b].next
      m == [s.mem EXCEPT ![a].size = @ + HDR + s.mem[b].size, ![a].next = n]
  IN IF n = NULL
     THEN [mem |-> m, head |-> [s.head EXCEPT !.prev = a]]
     ELSE [mem |-> [m EXCEPT ![n].prev = a], head |-> s.head]

\* ufree of the chunk at h: first with the next chunk, then with the previous.
ufree(h, s) ==
  LET f == [s EXCEPT !.mem[h].free = TRUE]
      n == f.mem[h].next
      g == IF n # NULL /\ f.mem[n].free THEN Merge(h, n, f) ELSE f
      p == g.mem[h].prev
  IN IF p # NULL /\ g.mem[p].free THEN Merge(p, h, g) ELSE g

\* A new page goes behind head.prev and is then freed like any chunk.
umorecore ==
  LET old == head.prev
      new == Put(mem, brk, malloc_header(old, NULL, PAGE - HDR))
      s == [mem |-> IF head.next = NULL THEN new ELSE [new EXCEPT ![old].next = brk],
            head |-> [next |-> IF head.next = NULL THEN brk ELSE head.next, prev |-> brk]]
      t == ufree(brk, s)
  IN /\ want # 0
     /\ ~ \E h \in DOMAIN mem : FirstFit(h, want)
     /\ brk < Base + MaxPages * PAGE
     /\ mem' = t.mem
     /\ head' = t.head
     /\ brk' = brk + PAGE
     /\ UNCHANGED <<blocks, want>>

\* The program calls umalloc.
Request(bytes) ==
  /\ want = 0
  /\ Len(blocks) < MaxBlocks
  /\ want' = bytes
  /\ UNCHANGED <<mem, head, blocks, brk>>

Freeable ==
  CASE Frees = "none" -> {}
    [] Frees = "lifo" -> {Len(blocks)} \cap DOMAIN blocks
    [] Frees = "any"  -> DOMAIN blocks

\* The program frees its i-th block.
Free(i) ==
  LET t == ufree(blocks[i].addr - HDR, [mem |-> mem, head |-> head]) IN
  /\ want = 0
  /\ mem' = t.mem
  /\ head' = t.head
  /\ blocks' = RemoveAt(blocks, i)
  /\ UNCHANGED <<brk, want>>

\* usys_sbrk stops the machine when there is no page left.
OutOfMemory ==
  /\ want # 0
  /\ ~ \E h \in DOMAIN mem : FirstFit(h, want)
  /\ brk = Base + MaxPages * PAGE
  /\ UNCHANGED vars

Next ==
  \/ \E n \in Requests : Request(n)
  \/ umalloc
  \/ umorecore
  \/ \E i \in Freeable : Free(i)
  \/ OutOfMemory

Spec == Init /\ [][Next]_vars

----------------------------------------------------------------------------
(***************************************************************************)
(* Properties                                                              *)
(***************************************************************************)
Addresses == NULL .. Base + MaxPages * PAGE

\* Every variable keeps its type: headers lie in the pages the program has
\* got, and no chunk's size runs past them, whatever was merged or split.
TypeOK ==
  /\ DOMAIN mem \subseteq Base .. brk - 1
  /\ \A h \in DOMAIN mem :
       /\ mem[h].prev \in Addresses /\ mem[h].next \in Addresses
       /\ mem[h].size \in Nat /\ h + HDR + mem[h].size <= brk
       /\ mem[h].free \in BOOLEAN
  /\ head \in [next : Addresses, prev : Addresses]
  /\ brk \in Addresses
  /\ want \in Requests \cup {0}
  /\ \A i \in DOMAIN blocks : blocks[i].addr \in Addresses /\ blocks[i].len \in Requests

\* The headers the allocator may still read: the chain, head.prev and the
\* ones in front of the blocks held.
InUse ==
  Range(Chain) \cup {head.next, head.prev} \cup {blocks[i].addr - HDR : i \in DOMAIN blocks}

\* What the program writes into its blocks never reaches a header umalloc or
\* ufree will read: every such header, and the one on either side of it, is
\* intact, the chain comes to its end, and the header of a block held still says
\* that it is used and as large as was asked for (the splits and merges of
\* umalloc, ufree and umorecore).
HeadersIntact ==
  /\ Last(Chain) = NULL
  /\ \A h \in InUse \ {NULL} :
       /\ h \in DOMAIN mem
       /\ {mem[h].next, mem[h].prev} \subseteq DOMAIN mem \cup {NULL}
  /\ \A i \in DOMAIN blocks :
       LET h == blocks[i].addr - HDR IN ~mem[h].free /\ mem[h].size >= blocks[i].len

H == INSTANCE Heap

\* umalloc and ufree implement the heap a program relies on: the memory of a
\* block it gets is in no other block it holds, and it keeps a block until it
\* frees it.
ImplementsHeap == H!HeapSpec

\* The comment in umalloc (umalloc.c:17) has every request served from a
\* "chunk of free memory": no two blocks held share a byte.
NoOverlap ==
  \A i \in DOMAIN blocks : \A j \in 1 .. i - 1 : H!Apart(blocks[i], blocks[j])
=============================================================================
