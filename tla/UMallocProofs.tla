--------------------------- MODULE UMallocProofs ----------------------------
(***************************************************************************)
(* Proofs about UMalloc, for all sizes and requests, when the program      *)
(* frees its newest block first or nothing: headers stay intact, and the   *)
(* allocator implements the heap.                                          *)
(***************************************************************************)
EXTENDS UMalloc, FoldLemmas, FiniteSetTheorems, SequenceTheorems, TLAPS

\* The header of the i-th block held.
Hd(i) == blocks[i].addr - HDR
Held == 1 .. Len(blocks)

\* Where a chunk ends.
End(h) == h + HDR + mem[h].size

Headers == [prev : Int, next : Int, size : Nat, free : BOOLEAN]
Blocks == [addr : Int, len : Requests]

Types ==
  /\ mem \in [DOMAIN mem -> Headers]
  /\ \A h \in DOMAIN mem : h \in Base .. brk - 1 /\ End(h) <= brk
  /\ \A h \in DOMAIN mem : mem[h].prev \in 0 .. brk - 1 /\ mem[h].next \in 0 .. brk - 1
  /\ head \in [next : 0 .. brk - 1, prev : 0 .. brk - 1]
  /\ blocks \in Seq(Blocks)
  /\ want \in Requests \cup {0}

Grown == \E n \in 0 .. MaxPages : brk = Base + n * PAGE

\* The blocks lie one behind the other, oldest first.
Laid ==
  \A i \in Held :
    /\ Hd(i) \in DOMAIN mem /\ ~mem[Hd(i)].free /\ mem[Hd(i)].size >= blocks[i].len
    /\ \A j \in Held : i < j => End(Hd(i)) <= Hd(j)

\* The last chunk of the chain is free, if it is not one of the blocks.
Top(T) ==
  T # NULL =>
    /\ T \in DOMAIN mem /\ mem[T].free /\ mem[T].next = NULL
    /\ \A i \in Held : End(Hd(i)) <= T

\* The chain is the blocks in C, and then T.
Linked(C, T) ==
  /\ \/ C = {} /\ head.next = T
     \/ \E l \in C : head.next = Hd(l) /\ \A m \in C : l <= m
  /\ \A i \in C :
       \/ mem[Hd(i)].next = T /\ \A m \in C : m <= i
       \/ \E l \in C : i < l /\ mem[Hd(i)].next = Hd(l) /\ \A m \in C : i < m => l <= m

\* Every chunk of the chain and every block points back to an older block.
Backward(C, T) ==
  /\ \A i \in Held : mem[Hd(i)].prev = NULL \/ \E k \in Held : k < i /\ mem[Hd(i)].prev = Hd(k)
  /\ \A i \in C : mem[Hd(i)].prev = NULL \/ \E k \in C : k < i /\ mem[Hd(i)].prev = Hd(k)
  /\ T # NULL => mem[T].prev = NULL \/ \E k \in C : mem[T].prev = Hd(k)

\* A free chunk that nothing but a stale pointer leads to.
Dead(n) == n \in DOMAIN mem /\ mem[n].free /\ mem[n].next = NULL

\* A block that is not in the chain points to the next one that is not, to a dead
\* chunk or to nothing.
Cut(C, T) ==
  \A i \in Held \ C :
    \/ mem[Hd(i)].next = NULL
    \/ \E l \in Held \ C : i < l /\ mem[Hd(i)].next = Hd(l) /\ \A c \in C : i < c => l < c
    \/ /\ Dead(mem[Hd(i)].next) /\ End(Hd(i)) <= mem[Hd(i)].next
       /\ \A c \in C : i < c => mem[Hd(i)].next + HDR <= Hd(c)
       /\ T # NULL => mem[Hd(i)].next + HDR <= T

\* Where head.prev points to.
Stale(C, T) ==
  \/ head.prev = NULL /\ head.next = NULL /\ C = {} /\ T = NULL /\ blocks = <<>>
  \/ \E j \in C : head.prev = Hd(j)
  \/ head.prev = T /\ T # NULL
  \/ /\ Dead(head.prev)
     /\ IF T # NULL THEN head.prev + HDR <= T
        ELSE Len(blocks) \in C /\ head.prev + HDR <= Hd(Len(blocks))
     /\ \/ mem[head.prev].prev = NULL
        \/ mem[head.prev].prev \in DOMAIN mem /\ mem[head.prev].prev + HDR <= head.prev

\* When nothing is free in the chain, the newest block is its end.
Full(C, T) == T = NULL /\ blocks # <<>> => Len(blocks) \in C

Shape(C, T) ==
  Laid /\ Top(T) /\ Linked(C, T) /\ Backward(C, T) /\ Cut(C, T) /\ Stale(C, T) /\ Full(C, T)

IInv == Types /\ Grown /\ \E C \in SUBSET Held : \E T \in DOMAIN mem \cup {NULL} : Shape(C, T)

----------------------------------------------------------------------------
(***************************************************************************)
(* Sizes.                                                                  *)
(***************************************************************************)
LEMMA Sizes ==
  /\ ALIGN \in Nat \ {0} /\ HDR \in Nat \ {0} /\ PAGE \in Nat /\ PAGE > HDR
  /\ MaxPages \in Nat /\ Base \in Nat \ {0} /\ NULL = 0 /\ Requests \subseteq Nat \ {0}
  BY SizesAssumption DEF Base, NULL

\* Rounding up never gives less than was asked for.
LEMMA Aligned ==
  ASSUME NEW bytes \in Nat \ {0}
  PROVE  aligned_bytes(bytes) \in Nat /\ aligned_bytes(bytes) >= bytes
  <1> DEFINE a == ALIGN
             q == (bytes - 1) \div a
  <1>1. a \in Nat \ {0}
    BY Sizes
  <1> HIDE DEF a
  <1>2. q \in Nat /\ bytes - 1 = (a * q) + ((bytes - 1) % a) /\ (bytes - 1) % a \in 0 .. a - 1
    BY <1>1
  <1> HIDE DEF q
  <1>3. a * (q + 1) = a * q + a /\ (q + 1) * a = a * (q + 1) /\ a * q \in Nat
    BY <1>1, <1>2
  <1>4. aligned_bytes(bytes) = (q + 1) * a
    BY DEF aligned_bytes, q, a
  <1> QED BY <1>1, <1>2, <1>3, <1>4

\* The heap grows by whole pages.
LEMMA GrownFacts ==
  ASSUME Grown
  PROVE  /\ brk \in Nat /\ Base <= brk /\ brk <= Base + MaxPages * PAGE
         /\ Base + MaxPages * PAGE \in Nat
         /\ brk < Base + MaxPages * PAGE => \E n \in 0 .. MaxPages : brk + PAGE = Base + n * PAGE
  <1>1. PICK n \in 0 .. MaxPages : brk = Base + n * PAGE
    BY DEF Grown
  <1>2. n \in Nat /\ MaxPages \in Nat /\ PAGE \in Nat /\ Base \in Nat /\ n <= MaxPages /\ PAGE > 0
    BY Sizes
  <1> DEFINE P == PAGE
             M == MaxPages
  <1> HIDE DEF P, M
  <1>3. n \in Nat /\ M \in Nat /\ P \in Nat /\ n <= M /\ P > 0
    BY <1>2 DEF P, M
  <1>4. n * P \in Nat /\ M * P \in Nat /\ n * P <= M * P
    BY <1>3
  <1>5. n * P < M * P => n < M
    BY <1>3
  <1>6. (n + 1) * P = n * P + P
    BY <1>3
  <1>7. n < M => n + 1 \in 0 .. M
    BY <1>3
  <1> QED BY <1>1, <1>2, <1>3, <1>4, <1>5, <1>6, <1>7 DEF P, M

\* Where the chunks are.
LEMMA ShapeFacts ==
  ASSUME Types, Grown, NEW C \in SUBSET Held, NEW T, Shape(C, T)
  PROVE  /\ Len(blocks) \in Nat /\ Held \subseteq Nat
         /\ \A h \in DOMAIN mem : h \in Nat /\ h # NULL /\ h < brk /\ h >= Base
                                  /\ mem[h] \in Headers /\ End(h) \in Nat /\ End(h) <= brk
         /\ \A i \in Held : Hd(i) \in DOMAIN mem /\ ~mem[Hd(i)].free
         /\ \A i, j \in Held : i < j => End(Hd(i)) <= Hd(j) /\ Hd(i) + HDR <= Hd(j)
  <1>1. Len(blocks) \in Nat /\ Held \subseteq Nat
    BY DEF Types, Held
  <1>2. \A h \in DOMAIN mem : h \in Nat /\ h # NULL /\ h < brk /\ h >= Base /\ mem[h] \in Headers
    BY GrownFacts, Sizes DEF Types
  <1>3. \A h \in DOMAIN mem : End(h) \in Nat /\ End(h) <= brk /\ h + HDR <= End(h)
    BY <1>2, Sizes DEF Types, End, Headers
  <1>4. \A i \in Held : Hd(i) \in DOMAIN mem /\ ~mem[Hd(i)].free
    BY DEF Shape, Laid
  <1>5. \A i, j \in Held : i < j => End(Hd(i)) <= Hd(j)
    BY DEF Shape, Laid
  <1>6. \A i, j \in Held : i < j => Hd(i) + HDR <= Hd(j)
    <2> SUFFICES ASSUME NEW i \in Held, NEW j \in Held, i < j PROVE Hd(i) + HDR <= Hd(j)
      OBVIOUS
    <2>1. Hd(i) \in Nat /\ Hd(j) \in Nat /\ End(Hd(i)) \in Nat
          /\ Hd(i) + HDR <= End(Hd(i)) /\ End(Hd(i)) <= Hd(j)
      BY <1>2, <1>3, <1>4, <1>5
    <2> QED BY <2>1, Sizes
  <1> QED BY <1>1, <1>2, <1>3, <1>4, <1>5, <1>6

\* Cutting T: what a split leaves of mem.
LEMMA SplitFacts ==
  ASSUME Types, Grown, NEW T \in DOMAIN mem, mem[T].next = NULL, want \in Nat \ {0}, Fits(T, want),
         mem' = Overwrite(Split(T, want), T + HDR, want)
  PROVE  \E N \in Nat :
         /\ \A h \in DOMAIN mem : h + HDR <= T => h \in DOMAIN mem' /\ mem'[h] = mem[h]
         /\ T \in DOMAIN mem' /\ mem'[T] \in Headers
         /\ mem'[T].free = FALSE /\ mem'[T].prev = mem[T].prev /\ mem'[T].next = N
         /\ mem'[T].size >= want /\ T + HDR + mem'[T].size <= End(T)
         /\ N # NULL => /\ N \in DOMAIN mem' /\ N = T + HDR + mem'[T].size
                        /\ mem'[N] \in Headers /\ mem'[N].free = TRUE
                        /\ mem'[N].prev = T /\ mem'[N].next = NULL
                        /\ N + HDR + mem'[N].size <= End(T) /\ N < End(T)
         /\ \A h \in DOMAIN mem' : h = T \/ (h = N /\ N # NULL) \/ (h \in DOMAIN mem /\ mem'[h] = mem[h])
         /\ mem' \in [DOMAIN mem' -> Headers]
  <1> DEFINE a == aligned_bytes(want)
             c == mem[T]
             n == T + HDR + a
             Cuts(N) ==
               /\ \A h \in DOMAIN mem : h + HDR <= T => h \in DOMAIN mem' /\ mem'[h] = mem[h]
               /\ T \in DOMAIN mem' /\ mem'[T] \in Headers
               /\ mem'[T].free = FALSE /\ mem'[T].prev = mem[T].prev /\ mem'[T].next = N
               /\ mem'[T].size >= want /\ T + HDR + mem'[T].size <= End(T)
               /\ N # NULL => /\ N \in DOMAIN mem' /\ N = T + HDR + mem'[T].size
                              /\ mem'[N] \in Headers /\ mem'[N].free = TRUE
                              /\ mem'[N].prev = T /\ mem'[N].next = NULL
                              /\ N + HDR + mem'[N].size <= End(T) /\ N < End(T)
               /\ \A h \in DOMAIN mem' : h = T \/ (h = N /\ N # NULL) \/ (h \in DOMAIN mem /\ mem'[h] = mem[h])
               /\ mem' \in [DOMAIN mem' -> Headers]
  <1> SUFFICES \E N \in Nat : Cuts(N)
    BY Zenon
  <1>1. a \in Nat /\ a >= want /\ T \in Nat /\ c \in Headers /\ HDR \in Nat \ {0} /\ ALIGN \in Nat \ {0}
        /\ c.size \in Nat /\ T # 0 /\ want \in Nat \ {0}
    <2>1. a \in Nat /\ a >= want
      BY Aligned
    <2>2. c \in Headers /\ T \in Base .. brk - 1
      BY DEF Types
    <2>3. c.size \in Nat
      BY <2>2 DEF Headers
    <2> QED BY <2>1, <2>2, <2>3, Sizes, GrownFacts
  <1>0. \A h \in DOMAIN mem : mem[h] \in Headers /\ h \in Nat
    BY GrownFacts, Sizes DEF Types
  <1>2. CASE c.size = a
    <2> DEFINE m == [mem EXCEPT ![T].free = FALSE]
               D == {h \in DOMAIN mem : h + HDR <= T + HDR \/ (T + HDR) + want <= h}
    <2>1. Split(T, want) = m
      BY <1>2 DEF Split
    <2>2. mem' = [h \in D |-> m[h]]
      BY <2>1 DEF Overwrite, Restrict
    <2>3. m[T] = [c EXCEPT !.free = FALSE] /\ \A h \in DOMAIN mem : h # T => m[h] = mem[h]
      OBVIOUS
    <2>4. /\ m[T] \in Headers /\ m[T].free = FALSE /\ m[T].prev = c.prev /\ m[T].next = c.next
          /\ m[T].size = c.size
      BY <1>1, <2>3 DEF Headers
    <2> HIDE DEF m
    <2>5. \A h \in DOMAIN mem : h + HDR <= T => h \in D /\ h # T
      BY <1>0, <1>1
    <2>6. T \in D
      BY <1>1
    <2> HIDE DEF a, n, D, c
    <2>7. \A h \in D : h \in DOMAIN mem
      BY DEF D
    <2>8. mem' \in [D -> Headers] /\ DOMAIN mem' = D
      BY <1>0, <2>2, <2>3, <2>4, <2>7
    <2>9. mem'[T] = m[T] /\ \A h \in D : h # T => mem'[h] = mem[h]
      BY <2>2, <2>3, <2>6, <2>7
    <2>10. T + HDR + c.size = End(T) /\ End(T) \in Int /\ c.size >= want
      BY <1>1, <1>2 DEF End, c
    <2>11. \A h \in DOMAIN mem : h + HDR <= T => h \in DOMAIN mem' /\ mem'[h] = mem[h]
      BY <2>5, <2>8, <2>9
    <2>12. mem'[T].next = 0 /\ NULL = 0
      BY <2>4, <2>9 DEF NULL, c
    <2>13. Cuts(0)
      BY <2>4, <2>6, <2>7, <2>8, <2>9, <2>10, <2>11, <2>12 DEF c
    <2> QED BY <2>13
  <1>3. CASE c.size # a
    <2> DEFINE m1 == [mem EXCEPT ![T].free = FALSE, ![T].size = a, ![T].next = n]
               r == malloc_header(T, c.next, c.size - a - HDR)
               m == Put(m1, n, r)
               D == {h \in DOMAIN m : h + HDR <= T + HDR \/ (T + HDR) + want <= h}
    <2>1. Split(T, want) = m
      BY <1>3 DEF Split
    <2>2. mem' = [h \in D |-> m[h]]
      BY <2>1 DEF Overwrite, Restrict
    <2>3. c.size >= a + HDR + ALIGN /\ c.next = NULL
      BY <1>3 DEF Fits, required_bytes
    <2>4. m1[T] = [c EXCEPT !.free = FALSE, !.size = a, !.next = n]
          /\ (\A h \in DOMAIN mem : h # T => m1[h] = mem[h]) /\ DOMAIN m1 = DOMAIN mem
      BY DEF Types
    <2> HIDE DEF m1
    <2>5. n \in Nat /\ n # T /\ n # 0 /\ n >= T + HDR + want
      BY <1>1
    <2>6. r \in Headers /\ r.prev = T /\ r.next = NULL /\ r.free = TRUE /\ r.size = c.size - a - HDR
      BY <1>1, <2>3 DEF malloc_header, Headers, NULL
    <2>7. /\ m1[T] \in Headers /\ m1[T].free = FALSE /\ m1[T].prev = c.prev /\ m1[T].next = n
          /\ m1[T].size = a
      <3> HIDE DEF a, n, c
      <3>1. m1[T] = [prev |-> c.prev, next |-> n, size |-> a, free |-> FALSE]
        BY <1>1, <2>4 DEF Headers
      <3> QED BY <1>1, <2>5, <3>1 DEF Headers
    <2> HIDE DEF r
    <2>8. /\ DOMAIN m = DOMAIN mem \cup {n} /\ m[n] = r
          /\ \A h \in DOMAIN mem : h # n => m[h] = m1[h]
      BY <2>4 DEF Put
    <2> HIDE DEF m
    <2>9. T \in D /\ n \in D /\ (\A h \in DOMAIN mem : h + HDR <= T => h \in D /\ h # T /\ h # n)
      <3> HIDE DEF a
      <3> QED BY <1>0, <1>1, <2>5, <2>8
    <2>10. \A h \in D : h = n \/ h \in DOMAIN mem
      BY <2>8
    <2> HIDE DEF D
    <2>11. \A h \in D : mem'[h] = m[h] /\ m[h] \in Headers
      BY <1>0, <2>2, <2>4, <2>6, <2>7, <2>8, <2>10
    <2>12. mem' \in [D -> Headers] /\ DOMAIN mem' = D
      BY <2>2, <2>11
    <2>13. mem'[T] = m1[T] /\ mem'[n] = r
      BY <2>5, <2>8, <2>9, <2>11
    <2>14. n + HDR + r.size = End(T) /\ n < End(T) /\ T + HDR + a = n
      <3> HIDE DEF a
      <3> QED BY <1>1, <2>3, <2>6 DEF End
    <2>15. \A h \in D : h = T \/ h = n \/ (h \in DOMAIN mem /\ mem'[h] = mem[h])
      BY <2>4, <2>8, <2>10, <2>11
    <2>16. \A h \in DOMAIN mem : h + HDR <= T => h \in D /\ mem'[h] = mem[h]
      BY <2>4, <2>8, <2>9, <2>11
    <2>17. End(T) \in Int
      BY <1>1 DEF End
    <2> HIDE DEF a, n
    <2>18. Cuts(n)
      BY <1>1, <2>5, <2>6, <2>7, <2>9, <2>12, <2>13, <2>14, <2>15, <2>16, <2>17 DEF NULL
    <2> QED BY <2>5, <2>18
  <1> QED BY <1>2, <1>3

----------------------------------------------------------------------------
(***************************************************************************)
(* The chain.                                                              *)
(***************************************************************************)
Follow(c) == IF Last(c) \in DOMAIN mem THEN Append(c, mem[Last(c)].next) ELSE c

\* There are finitely many headers.
LEMMA FiniteMem ==
  ASSUME Types, Grown
  PROVE  IsFiniteSet(DOMAIN mem) /\ Cardinality(DOMAIN mem) \in Nat
  <1>1. DOMAIN mem \in SUBSET (Base .. brk - 1)
    BY DEF Types
  <1>2. IsFiniteSet(Base .. brk - 1)
    BY GrownFacts, Sizes, FS_Interval
  <1>3. IsFiniteSet(DOMAIN mem)
    BY <1>1, <1>2, FS_Subset
  <1> QED BY <1>3, FS_CardinalityType

\* The prefixes of the chain.
LEMMA ChainSteps ==
  ASSUME Types, Grown
  PROVE  \E p :
           LET n == Cardinality(DOMAIN mem) IN
           /\ p \in [0 .. n -> Seq(Int)]
           /\ p[0] = <<head.next>>
           /\ \A k \in 1 .. n : p[k] = Follow(p[k - 1])
           /\ Chain = p[n]
  <1> DEFINE n == Cardinality(DOMAIN mem)
             seq == [k \in 1 .. n |-> k]
             start == <<head.next>>
             step == [k \in 1 .. n |-> [c \in Seq(Int) |-> Follow(c)]]
             Is(it) == it = [s \in SUBSET DOMAIN seq |->
                               IF s = {} THEN <<head.next>>
                               ELSE LET c == it[s \ {Max(s)}]
                                    IN IF Last(c) \in DOMAIN mem THEN Append(c, mem[Last(c)].next)
                                       ELSE c]
             f == CHOOSE it : Is(it)
  <1>1. n \in Nat /\ DOMAIN seq = 1 .. n
    BY FiniteMem
  <1>0. \A c \in Seq(Int) : Follow(c) \in Seq(Int)
    BY DEF Types, Headers, Follow
  <1>2. step \in [1 .. n -> [Seq(Int) -> Seq(Int)]]
    BY <1>0
  <1>3. start \in Seq(Int)
    BY GrownFacts DEF Types
  <1>4. Chain = f[DOMAIN seq]
    BY Zenon DEF Chain, FoldLeft, MapThenFoldSet
  <1>5. PICK it \in [SUBSET (1 .. n) -> Seq(Int)] : FoldOver(it, start, n, step)
    <2> HIDE DEF step, n, start
    <2> QED BY <1>1, <1>2, <1>3, FoldExists
  <1>6. \A s \in SUBSET (1 .. n) : it[s] = IF s = {} THEN start ELSE Follow(it[s \ {Max(s)}])
    <2> TAKE s \in SUBSET (1 .. n)
    <2>1. it[s] = IF s = {} THEN start ELSE step[Max(s)][it[s \ {Max(s)}]]
      <3> HIDE DEF step, start, n
      <3> QED BY <1>5 DEF FoldOver
    <2>2. s # {} => Max(s) \in 1 .. n /\ it[s \ {Max(s)}] \in Seq(Int)
      <3> HIDE DEF n
      <3> QED BY <1>1, MaxFacts
    <2>3. s # {} => step[Max(s)][it[s \ {Max(s)}]] = Follow(it[s \ {Max(s)}])
      BY <2>2
    <2> HIDE DEF step
    <2> QED BY <2>1, <2>3
  <1>7. Is(it)
    <2> HIDE DEF n
    <2> QED BY <1>1, <1>5, <1>6 DEF Follow
  <1>8. Is(f)
    BY <1>7, Zenon
  <1> HIDE DEF f, n
  <1>9. /\ f[1 .. 0] = <<head.next>>
        /\ \A k \in 1 .. n : f[1 .. k] = Follow(f[1 .. (k - 1)])
    <2>1. 1 .. 0 = {} /\ {} \in SUBSET (1 .. n)
      OBVIOUS
    <2>2. \A s \in SUBSET (1 .. n) :
            f[s] = IF s = {} THEN <<head.next>> ELSE Follow(f[s \ {Max(s)}])
      BY <1>1, <1>8 DEF Follow
    <2>3. ASSUME NEW k \in 1 .. n
          PROVE  f[1 .. k] = Follow(f[1 .. (k - 1)])
      <3>1. /\ 1 .. k \in SUBSET (1 .. n) /\ 1 .. k # {}
            /\ Max(1 .. k) = k /\ (1 .. k) \ {k} = 1 .. (k - 1)
        BY <1>1, PrefixFacts
      <3> QED BY <2>2, <3>1
    <2> QED BY <2>1, <2>2, <2>3
  <1> DEFINE p == [k \in 0 .. n |-> f[1 .. k]]
  <1>10. p[0] = <<head.next>> /\ \A k \in 1 .. n : p[k] = Follow(p[k - 1])
    BY <1>1, <1>9
  <1>11. \A k \in 0 .. n : p[k] \in Seq(Int)
    <2> HIDE DEF p
    <2>1. \A k \in 1 .. n : p[k - 1] \in Seq(Int) => p[k] \in Seq(Int)
      BY <1>0, <1>10
    <2>2. p[0] \in Seq(Int)
      BY <1>3, <1>10
    <2> QED BY <1>1, <2>1, <2>2, Throughout
  <1>12. p[n] = Chain /\ p \in [0 .. n -> Seq(Int)]
    BY <1>1, <1>4, <1>11
  <1> HIDE DEF p
  <1> QED BY <1>10, <1>12 DEF n

\* The chain goes up through the blocks in C and T, and comes to its end.
LEMMA ChainFacts ==
  ASSUME Types, Grown, NEW C \in SUBSET Held, NEW T, Shape(C, T)
  PROVE  /\ Chain \in Seq(Int) /\ Last(Chain) = NULL
         /\ \A k \in DOMAIN Chain : Chain[k] \in {Hd(i) : i \in C} \cup {T, NULL}
         /\ head.next \in {Hd(i) : i \in C} \cup {T}
  <1> DEFINE Nodes == {Hd(i) : i \in C} \cup {T, NULL}
             n == Cardinality(DOMAIN mem)
             Below(a) == {d \in DOMAIN mem : d <= a}
  <1>0. \A h \in DOMAIN mem : h \in Nat /\ h # NULL /\ mem[h] \in Headers /\ End(h) \in Nat
    BY ShapeFacts
  <1>1. PICK p : /\ p \in [0 .. n -> Seq(Int)]
                 /\ p[0] = <<head.next>>
                 /\ \A k \in 1 .. n : p[k] = Follow(p[k - 1])
                 /\ Chain = p[n]
    BY ChainSteps
  <1>2. n \in Nat /\ IsFiniteSet(DOMAIN mem)
    BY FiniteMem
  <1>3. head.next \in {Hd(i) : i \in C} \cup {T}
    BY DEF Shape, Linked
  <1>4. ASSUME NEW a \in Nodes, a # NULL
        PROVE  /\ a \in DOMAIN mem /\ a \in Int /\ mem[a].next \in Nodes /\ mem[a].next \in Int
               /\ mem[a].next = NULL \/ a < mem[a].next
    <2>1. CASE a = T
      <3>1. T \in DOMAIN mem /\ mem[T].next = NULL
        BY <1>4, <2>1 DEF Shape, Top
      <3>2. T \in Int /\ NULL \in Int
        BY <3>1, <1>0 DEF NULL
      <3> QED BY <2>1, <3>1, <3>2 DEF Nodes
    <2>2. CASE \E i \in C : a = Hd(i)
      <3>1. PICK i \in C : a = Hd(i)
        BY <2>2
      <3>2. i \in Held /\ a \in DOMAIN mem /\ a \in Nat /\ End(a) \in Nat /\ mem[a] \in Headers
            /\ a < End(a)
        <4>1. i \in Held /\ a \in DOMAIN mem
          BY <3>1, ShapeFacts
        <4>2. mem[a].size \in Nat
          BY <1>0, <4>1 DEF Headers
        <4> QED BY <1>0, <4>1, <4>2, Sizes DEF End
      <3>3. CASE mem[Hd(i)].next = T
        <4>1. T # NULL => End(a) <= T
          BY <3>1, <3>2 DEF Shape, Top
        <4>2. T \in Int
          BY <3>1, <3>2, <3>3 DEF Headers
        <4> QED BY <3>1, <3>2, <3>3, <4>1, <4>2
      <3>4. CASE \E l \in C : i < l /\ mem[Hd(i)].next = Hd(l)
        <4>1. PICK l \in C : i < l /\ mem[Hd(i)].next = Hd(l)
          BY <3>4
        <4>2. End(a) <= Hd(l) /\ Hd(l) \in Nat
          BY <3>1, <3>2, <4>1, ShapeFacts
        <4> QED BY <3>1, <3>2, <4>1, <4>2
      <3> QED BY <3>1, <3>3, <3>4 DEF Shape, Linked
    <2> QED BY <1>4, <2>1, <2>2
  <1>5. NULL \notin DOMAIN mem
    BY ShapeFacts
  <1> DEFINE Good(k) ==
        /\ p[k] # <<>> /\ \A i \in DOMAIN p[k] : p[k][i] \in Nodes
        /\ Last(p[k]) # NULL => Cardinality(Below(Last(p[k]))) > k
             U == {k \in 0 .. n : Good(k)}
  <1> HIDE DEF n, Nodes
  <1>6. ASSUME NEW a \in DOMAIN mem
        PROVE  /\ IsFiniteSet(Below(a)) /\ Cardinality(Below(a)) \in Nat /\ a \in Int
               /\ Cardinality(Below(a)) <= n /\ Cardinality(Below(a)) > 0
    <2>1. Below(a) \in SUBSET DOMAIN mem /\ a \in Below(a) /\ a \in Int
      BY ShapeFacts
    <2> HIDE DEF Below
    <2>2. IsFiniteSet(Below(a)) /\ Cardinality(Below(a)) <= n
      BY <1>2, <2>1, FS_Subset DEF n
    <2>3. Cardinality(Below(a)) \in Nat /\ Cardinality(Below(a)) # 0
      BY <2>1, <2>2, FS_CardinalityType, FS_EmptySet
    <2> QED BY <2>1, <2>2, <2>3
  <1>7. ASSUME NEW a \in DOMAIN mem, NEW b \in DOMAIN mem, a < b
        PROVE  Cardinality(Below(b)) >= Cardinality(Below(a)) + 1
    <2>1. Below(a) \cup {b} \in SUBSET Below(b) /\ b \notin Below(a)
      <3>1. \A d \in DOMAIN mem : d \in Int
        BY <1>0
      <3> QED BY <1>7, <3>1
    <2>2. IsFiniteSet(Below(a)) /\ IsFiniteSet(Below(b)) /\ Cardinality(Below(a)) \in Nat
      BY <1>6
    <2> HIDE DEF Below
    <2>3. Cardinality(Below(a) \cup {b}) = Cardinality(Below(a)) + 1
      BY <2>1, <2>2, FS_AddElement
    <2>4. Cardinality(Below(a) \cup {b}) <= Cardinality(Below(b))
      BY <2>1, <2>2, FS_Subset
    <2> QED BY <2>3, <2>4
  <1> HIDE DEF Below
  <1>8. 0 \in U
    <2>1. p[0] # <<>> /\ DOMAIN p[0] = {1} /\ p[0][1] = head.next /\ Last(p[0]) = head.next
      BY <1>1 DEF Last
    <2>2. head.next \in Nodes
      BY <1>3 DEF Nodes
    <2>3. head.next # NULL => Cardinality(Below(head.next)) > 0
      BY <1>4, <1>6, <2>2
    <2> QED BY <1>2, <2>1, <2>2, <2>3 DEF n
  <1>9. ASSUME NEW k \in 1 .. n, k - 1 \in U
        PROVE  k \in U
    <2> DEFINE q == p[k - 1]
               a == Last(q)
    <2>1. q \in Seq(Int) /\ q # <<>> /\ (\A i \in DOMAIN q : q[i] \in Nodes) /\ k \in 0 .. n
          /\ (a # NULL => Cardinality(Below(a)) > k - 1) /\ p[k] = Follow(q)
      BY <1>1, <1>2, <1>9 DEF n
    <2>2. Len(q) \in DOMAIN q /\ a = q[Len(q)] /\ a \in Nodes
      BY <2>1 DEF Last
    <2> HIDE DEF q, a
    <2>3. CASE a = NULL
      BY <1>5, <2>1, <2>3 DEF Follow, a
    <2>4. CASE a # NULL
      <3> DEFINE b == mem[a].next
      <3>1. a \in DOMAIN mem /\ b \in Nodes /\ b \in Int /\ (b = NULL \/ a < b)
        BY <1>4, <2>2, <2>4
      <3>2. p[k] = Append(q, b)
        BY <2>1, <3>1 DEF Follow, a
      <3> HIDE DEF b
      <3>3. /\ Append(q, b) # <<>> /\ Len(Append(q, b)) = Len(q) + 1 /\ Len(q) \in Nat
            /\ DOMAIN Append(q, b) = 1 .. Len(q) + 1 /\ DOMAIN q = 1 .. Len(q)
            /\ Append(q, b)[Len(q) + 1] = b
            /\ \A i \in 1 .. Len(q) : Append(q, b)[i] = q[i]
        <4>1. Append(q, b) \in Seq(Int)
          BY <2>1, <3>1, AppendProperties
        <4> QED BY <2>1, <3>1, <4>1, AppendProperties
      <3>4. Last(p[k]) = b
        BY <3>2, <3>3 DEF Last
      <3>5. \A i \in DOMAIN p[k] : p[k][i] \in Nodes
        BY <2>1, <3>1, <3>2, <3>3
      <3>6. b # NULL => Cardinality(Below(b)) > k
        <4> SUFFICES ASSUME b # NULL PROVE Cardinality(Below(b)) > k
          OBVIOUS
        <4>1. b \in DOMAIN mem /\ a < b
          BY <1>4, <3>1
        <4>2. Cardinality(Below(b)) >= Cardinality(Below(a)) + 1
          BY <1>7, <3>1, <4>1
        <4>3. Cardinality(Below(b)) \in Nat /\ Cardinality(Below(a)) \in Nat
          BY <1>6, <3>1, <4>1
        <4> QED BY <1>2, <2>1, <2>4, <4>2, <4>3 DEF n
      <3> QED BY <2>1, <3>2, <3>3, <3>4, <3>5, <3>6
    <2> QED BY <2>3, <2>4
  <1>10. n \in U
    <2> HIDE DEF U
    <2>1. n \in Nat
      BY <1>2 DEF n
    <2> QED BY <1>8, <1>9, <2>1, UpTo
  <1>11. Chain \in Seq(Int) /\ Chain # <<>> /\ Good(n) /\ Chain = p[n] /\ n \in Nat
    BY <1>1, <1>2, <1>10 DEF n
  <1>12. Last(Chain) \in Nodes
    BY <1>11 DEF Last
  <1>13. Last(Chain) = NULL
    <2> SUFFICES ASSUME Last(Chain) # NULL PROVE FALSE
      OBVIOUS
    <2>1. Last(Chain) \in DOMAIN mem
      BY <1>4, <1>12
    <2>2. Cardinality(Below(Last(Chain))) > n
      BY <1>11
    <2> QED BY <1>6, <1>11, <2>1, <2>2
  <1> QED BY <1>3, <1>11, <1>13 DEF Nodes

----------------------------------------------------------------------------
\* umalloc only ever cuts the free chunk at the end of the chain.
LEMMA FitIsTop ==
  ASSUME Types, Grown, NEW C \in SUBSET Held, NEW T, Shape(C, T),
         NEW h \in DOMAIN mem, FirstFit(h, want)
  PROVE  h = T /\ T # NULL /\ Fits(T, want)
  <1>1. PICK k \in DOMAIN Chain : Chain[k] = h /\ h # NULL /\ Fits(h, want)
    BY DEF FirstFit
  <1>2. h \in {Hd(i) : i \in C} \cup {T, NULL}
    BY <1>1, ChainFacts
  <1>3. \A i \in C : ~mem[Hd(i)].free
    BY ShapeFacts
  <1> QED BY <1>1, <1>2, <1>3 DEF Fits

\* A block more.
LEMMA Appended ==
  ASSUME blocks \in Seq(Blocks), NEW b \in Blocks, NEW h, b.addr = h + HDR, h \in Int,
         blocks' = Append(blocks, b)
  PROVE  /\ blocks' \in Seq(Blocks) /\ Len(blocks) \in Nat
         /\ Held' = Held \cup {Len(blocks) + 1}
         /\ \A i \in Held : i \in Nat /\ i < Len(blocks) + 1 /\ blocks'[i] = blocks[i] /\ Hd(i)' = Hd(i)
         /\ blocks'[Len(blocks) + 1] = b /\ blocks'[Len(blocks) + 1].addr - HDR = h
         /\ Len(blocks') = Len(blocks) + 1
  <1>1. /\ blocks' \in Seq(Blocks) /\ Len(blocks') = Len(blocks) + 1 /\ Len(blocks) \in Nat
        /\ \A i \in 1 .. Len(blocks) : blocks'[i] = blocks[i]
        /\ blocks'[Len(blocks) + 1] = b
    BY AppendProperties
  <1>2. Held' = Held \cup {Len(blocks) + 1}
    BY <1>1 DEF Held
  <1> QED BY <1>1, <1>2, Sizes DEF Held, Hd

\* umalloc keeps the invariant: the block becomes the newest of the chain, and the
\* remainder, if there is one, its free end.
LEMMA UmallocShape ==
  ASSUME Types, Grown, NEW C \in SUBSET Held, NEW T \in DOMAIN mem, Shape(C, T),
         want \in Requests, Fits(T, want),
         mem' = Overwrite(Split(T, want), T + HDR, want),
         blocks' = Append(blocks, [addr |-> T + HDR, len |-> want]),
         head' = head, brk' = brk, want' = 0
  PROVE  IInv'
  <1> DEFINE b == [addr |-> T + HDR, len |-> want]
  <1>1. PICK N \in Nat :
         /\ \A h \in DOMAIN mem : h + HDR <= T => h \in DOMAIN mem' /\ mem'[h] = mem[h]
         /\ T \in DOMAIN mem' /\ mem'[T] \in Headers
         /\ mem'[T].free = FALSE /\ mem'[T].prev = mem[T].prev /\ mem'[T].next = N
         /\ mem'[T].size >= want /\ T + HDR + mem'[T].size <= End(T)
         /\ N # NULL => /\ N \in DOMAIN mem' /\ N = T + HDR + mem'[T].size
                        /\ mem'[N] \in Headers /\ mem'[N].free = TRUE
                        /\ mem'[N].prev = T /\ mem'[N].next = NULL
                        /\ N + HDR + mem'[N].size <= End(T) /\ N < End(T)
         /\ \A h \in DOMAIN mem' : h = T \/ (h = N /\ N # NULL) \/ (h \in DOMAIN mem /\ mem'[h] = mem[h])
         /\ mem' \in [DOMAIN mem' -> Headers]
    <2>1. mem[T].next = NULL /\ want \in Nat \ {0}
      BY ShapeFacts, Sizes DEF Shape, Top
    <2> QED BY <2>1, SplitFacts
  <1>2. PICK L \in Nat : L = Len(blocks)
    BY ShapeFacts
  <1>3. PICK D : D = C \cup {L + 1}
    OBVIOUS
  <1>4. /\ \A h \in DOMAIN mem : h \in Nat /\ h # NULL /\ h < brk /\ h >= Base
                                  /\ mem[h] \in Headers /\ End(h) \in Nat /\ End(h) <= brk
        /\ \A i \in Held : Hd(i) \in DOMAIN mem /\ ~mem[Hd(i)].free
        /\ \A i, j \in Held : i < j => End(Hd(i)) <= Hd(j) /\ Hd(i) + HDR <= Hd(j)
    BY ShapeFacts
  <1>5. /\ blocks' \in Seq(Blocks) /\ Held' = Held \cup {L + 1}
        /\ \A i \in Held : i \in Nat /\ i < L + 1 /\ blocks'[i] = blocks[i] /\ Hd(i)' = Hd(i)
        /\ Hd(L + 1)' = T /\ blocks'[L + 1].len = want /\ Len(blocks') = L + 1
    <2>1. b \in Blocks /\ b.addr = T + HDR /\ T \in Int
      BY <1>4, Sizes DEF Blocks
    <2> HIDE DEF b
    <2>2. blocks \in Seq(Blocks) /\ blocks' = Append(blocks, b) /\ b.len = want
      BY DEF Types, b
    <2>3. /\ blocks' \in Seq(Blocks) /\ Held' = Held \cup {L + 1}
          /\ \A i \in Held : i \in Nat /\ i < L + 1 /\ blocks'[i] = blocks[i] /\ Hd(i)' = Hd(i)
          /\ blocks'[L + 1] = b /\ blocks'[L + 1].addr - HDR = T /\ Len(blocks') = L + 1
      BY <1>2, <2>1, <2>2, Appended
    <2> QED BY <2>2, <2>3 DEF Hd
  <1>6. \A i \in Held : /\ End(Hd(i)) <= T /\ Hd(i) + HDR <= T
                        /\ Hd(i) \in DOMAIN mem' /\ mem'[Hd(i)] = mem[Hd(i)]
    <2> SUFFICES ASSUME NEW i \in Held
                 PROVE  /\ End(Hd(i)) <= T /\ Hd(i) + HDR <= T
                        /\ Hd(i) \in DOMAIN mem' /\ mem'[Hd(i)] = mem[Hd(i)]
      OBVIOUS
    <2>1. End(Hd(i)) <= T
      BY <1>4 DEF Shape, Top
    <2>2. Hd(i) + HDR <= End(Hd(i)) /\ Hd(i) \in Nat /\ End(Hd(i)) \in Nat /\ T \in Nat
      BY <1>4, Sizes DEF End, Headers
    <2> QED BY <1>1, <1>4, <2>1, <2>2, Sizes
  <1>0. HDR \in Nat \ {0} /\ T \in Nat /\ T # NULL /\ End(T) \in Nat /\ End(T) <= brk /\ brk \in Nat
        /\ NULL = 0 /\ Base \in Nat /\ T + HDR \in Nat /\ mem'[T].size \in Nat /\ N \in Nat
        /\ want \in Nat \ {0} /\ (N # NULL => T + HDR <= N /\ T < N)
    <2>1. HDR \in Nat \ {0} /\ T \in Nat /\ T # NULL /\ NULL = 0 /\ Base \in Nat /\ brk \in Nat
          /\ want \in Nat \ {0} /\ End(T) \in Nat /\ End(T) <= brk
      BY <1>4, Sizes, GrownFacts
    <2>2. mem'[T].size \in Nat
      BY <1>1 DEF Headers
    <2>3. N # NULL => N = T + HDR + mem'[T].size
      BY <1>1
    <2> QED BY <2>1, <2>2, <2>3
  <1>61. \A i \in Held : /\ Hd(i)' = Hd(i) /\ mem'[Hd(i)'] = mem[Hd(i)]
                         /\ End(Hd(i))' = End(Hd(i)) /\ End(Hd(i)) \in Nat /\ Hd(i) \in Nat
    BY <1>4, <1>5, <1>6 DEF End
  <1>62. End(Hd(L + 1))' = T + HDR + mem'[T].size /\ L + 1 \notin Held /\ L + 1 \notin C
    BY <1>2, <1>5, <1>6 DEF End, Held
  <1>7. Types'
    <2>1. \A h \in DOMAIN mem' :
             /\ h \in Base .. brk - 1 /\ h + HDR + mem'[h].size <= brk
             /\ mem'[h].prev \in 0 .. brk - 1 /\ mem'[h].next \in 0 .. brk - 1
      <3> SUFFICES ASSUME NEW h \in DOMAIN mem'
                   PROVE  /\ h \in Base .. brk - 1 /\ h + HDR + mem'[h].size <= brk
                          /\ mem'[h].prev \in 0 .. brk - 1 /\ mem'[h].next \in 0 .. brk - 1
        OBVIOUS
      <3>1. CASE h = T
        <4>1. mem[T].prev \in 0 .. brk - 1 /\ T \in Base .. brk - 1
          BY DEF Types
        <4>2. N \in 0 .. brk - 1
          BY <1>0, <1>1, <1>4
        <4>3. mem'[T].prev = mem[T].prev /\ mem'[T].next = N /\ T + HDR + mem'[T].size <= End(T)
          BY <1>1
        <4> QED BY <1>0, <3>1, <4>1, <4>2, <4>3
      <3>2. CASE h = N /\ h # NULL
        <4>1. mem'[N].size \in Nat /\ N >= Base
          <5>1. mem'[N] \in Headers /\ T < N /\ T >= Base
            BY <1>0, <1>1, <1>4, <3>2
          <5> QED BY <1>0, <5>1 DEF Headers
        <4>2. mem'[N].prev = T /\ mem'[N].next = 0 /\ N + HDR + mem'[N].size <= End(T) /\ N < End(T)
          BY <1>0, <1>1, <3>2
        <4> QED BY <1>0, <3>2, <4>1, <4>2, <1>4
      <3>3. CASE h \in DOMAIN mem /\ mem'[h] = mem[h]
        BY <3>3 DEF Types, End
      <3> QED BY <1>1, <3>1, <3>2, <3>3
    <2> QED BY <1>1, <1>5, <2>1 DEF Types, End
  <1>8. Grown'
    BY DEF Grown
  <1>9. Laid'
    <2>1. \A i \in Held : mem[Hd(i)].size >= blocks[i].len
      BY DEF Shape, Laid
    <2>2. ASSUME NEW i \in Held'
          PROVE  Hd(i)' \in DOMAIN mem' /\ ~mem'[Hd(i)'].free /\ mem'[Hd(i)'].size >= blocks'[i].len
      <3>1. CASE i \in Held
        BY <1>4, <1>5, <1>6, <1>61, <2>1, <3>1
      <3>2. CASE i = L + 1
        BY <1>1, <1>5, <3>2
      <3> QED BY <1>5, <3>1, <3>2
    <2>3. ASSUME NEW i \in Held', NEW j \in Held', i < j
          PROVE  End(Hd(i))' <= Hd(j)'
      BY <1>0, <1>4, <1>5, <1>6, <1>61, <2>3
    <2> QED BY <2>2, <2>3 DEF Laid
  <1>10. Top(N)'
    <2>1. ASSUME NEW i \in Held', N # NULL
          PROVE  End(Hd(i))' <= N
      BY <1>0, <1>1, <1>5, <1>6, <1>61, <1>62, <2>1
    <2> QED BY <1>1, <2>1 DEF Top
  <1>63. \A i \in C : i \in Held /\ i < L + 1 /\ i \in D
    BY <1>3, <1>5
  <1>11. Linked(D, N)'
    <2>1. ASSUME NEW i \in C
          PROVE  \/ mem'[Hd(i)'].next = N /\ \A m \in D : m <= i
                 \/ \E l \in D : i < l /\ mem'[Hd(i)'].next = Hd(l)' /\ \A m \in D : i < m => l <= m
      <3>1. CASE mem[Hd(i)].next = T /\ \A m \in C : m <= i
        <4>1. \A m \in D : i < m => L + 1 <= m
          BY <1>3, <1>5, <1>63, <3>1
        <4> QED BY <1>3, <1>5, <1>61, <1>63, <3>1, <4>1
      <3>2. CASE \E l \in C : i < l /\ mem[Hd(i)].next = Hd(l) /\ \A m \in C : i < m => l <= m
        <4>1. PICK l \in C : i < l /\ mem[Hd(i)].next = Hd(l) /\ \A m \in C : i < m => l <= m
          BY <3>2
        <4>2. \A m \in D : i < m => l <= m
          BY <1>3, <1>5, <1>63, <4>1
        <4> QED BY <1>3, <1>5, <1>61, <1>63, <4>1, <4>2
      <3> QED BY <3>1, <3>2 DEF Shape, Linked
    <2>2. \A m \in D : m <= L + 1
      BY <1>3, <1>5, <1>63
    <2>3. \/ D = {} /\ head'.next = N
          \/ \E l \in D : head'.next = Hd(l)' /\ \A m \in D : l <= m
      <3>1. CASE C = {} /\ head.next = T
        BY <1>3, <1>5, <3>1
      <3>2. CASE \E l \in C : head.next = Hd(l) /\ \A m \in C : l <= m
        BY <1>3, <1>5, <1>63, <3>2
      <3> QED BY <3>1, <3>2 DEF Shape, Linked
    <2> QED BY <1>1, <1>3, <1>5, <2>1, <2>2, <2>3 DEF Linked
  <1>12. Backward(D, N)'
    <2>1. ASSUME NEW i \in Held'
          PROVE  mem'[Hd(i)'].prev = NULL \/ \E k \in Held' : k < i /\ mem'[Hd(i)'].prev = Hd(k)'
      <3>1. CASE i \in Held
        <4>1. mem[Hd(i)].prev = NULL \/ \E k \in Held : k < i /\ mem[Hd(i)].prev = Hd(k)
          BY <3>1 DEF Shape, Backward
        <4> QED BY <1>5, <1>61, <3>1, <4>1
      <3>2. CASE i = L + 1
        <4>1. mem[T].prev = NULL \/ \E k \in C : mem[T].prev = Hd(k)
          BY <1>0 DEF Shape, Backward
        <4> QED BY <1>1, <1>5, <1>61, <1>63, <3>2, <4>1
      <3> QED BY <1>5, <3>1, <3>2
    <2>2. ASSUME NEW i \in D
          PROVE  mem'[Hd(i)'].prev = NULL \/ \E k \in D : k < i /\ mem'[Hd(i)'].prev = Hd(k)'
      <3>1. CASE i \in C
        <4>1. mem[Hd(i)].prev = NULL \/ \E k \in C : k < i /\ mem[Hd(i)].prev = Hd(k)
          BY <3>1 DEF Shape, Backward
        <4> QED BY <1>5, <1>61, <1>63, <3>1, <4>1
      <3>2. CASE i = L + 1
        <4>1. mem[T].prev = NULL \/ \E k \in C : mem[T].prev = Hd(k)
          BY <1>0 DEF Shape, Backward
        <4> QED BY <1>1, <1>5, <1>61, <1>63, <3>2, <4>1
      <3> QED BY <1>3, <3>1, <3>2
    <2> QED BY <1>1, <1>3, <1>5, <2>1, <2>2 DEF Backward
  <1>64. ASSUME NEW n, Dead(n), n + HDR <= T
         PROVE  Dead(n)' /\ mem'[n] = mem[n] /\ n \in Nat /\ n \in DOMAIN mem
    BY <1>1, <1>4, <1>64 DEF Dead
  <1>13. Cut(D, N)'
    <2> SUFFICES ASSUME NEW i \in Held \ C
                 PROVE  \/ mem'[Hd(i)'].next = NULL
                        \/ \E l \in Held' \ D :
                             i < l /\ mem'[Hd(i)'].next = Hd(l)' /\ \A c \in D : i < c => l < c
                        \/ /\ Dead(mem[Hd(i)].next)' /\ End(Hd(i))' <= mem'[Hd(i)'].next
                           /\ \A c \in D : i < c => mem'[Hd(i)'].next + HDR <= Hd(c)'
                           /\ N # NULL => mem'[Hd(i)'].next + HDR <= N
      <3>1. Held' \ D = Held \ C
        BY <1>3, <1>5, <1>62
      <3> QED BY <3>1 DEF Cut
    <2>0. PICK n : n = mem[Hd(i)].next
      OBVIOUS
    <2>1. mem'[Hd(i)'].next = n
      BY <1>61, <2>0
    <2>2. CASE n = NULL
      BY <2>1, <2>2
    <2>3. CASE \E l \in Held \ C : i < l /\ n = Hd(l) /\ \A c \in C : i < c => l < c
      <3>1. PICK l \in Held \ C : i < l /\ n = Hd(l) /\ \A c \in C : i < c => l < c
        BY <2>3
      <3>2. l \in Held' \ D /\ n = Hd(l)' /\ \A c \in D : i < c => l < c
        BY <1>3, <1>5, <1>62, <3>1
      <3> QED BY <2>1, <3>1, <3>2
    <2>4. CASE /\ Dead(n) /\ End(Hd(i)) <= n
               /\ \A c \in C : i < c => n + HDR <= Hd(c)
               /\ T # NULL => n + HDR <= T
      <3>1. Dead(n)' /\ Dead(mem[Hd(i)].next)' /\ n \in Nat
        BY <1>0, <1>64, <2>1, <2>4 DEF Dead
      <3>2. \A c \in D : i < c => n + HDR <= Hd(c)'
        BY <1>0, <1>3, <1>5, <1>63, <2>4
      <3>3. N # NULL => n + HDR <= N
        BY <1>0, <2>4, <3>1
      <3> QED BY <1>61, <2>1, <2>4, <3>1, <3>2, <3>3
    <2> QED BY <2>0, <2>2, <2>3, <2>4 DEF Shape, Cut
  <1>14. Stale(D, N)'
    <2>0. PICK x : x = head.prev /\ x = head'.prev
      OBVIOUS
    <2>1. CASE \E j \in C : x = Hd(j)
      BY <1>5, <1>63, <2>0, <2>1 DEF Stale
    <2>2. CASE x = T
      BY <1>3, <1>5, <2>0, <2>2 DEF Stale
    <2>3. CASE /\ Dead(x) /\ x + HDR <= T
               /\ mem[x].prev = NULL \/ (mem[x].prev \in DOMAIN mem /\ mem[x].prev + HDR <= x)
      <3>1. Dead(x)' /\ mem'[x] = mem[x] /\ x \in Nat /\ x \in DOMAIN mem
        BY <1>64, <2>3
      <3>2. mem'[x].prev = NULL \/ (mem'[x].prev \in DOMAIN mem' /\ mem'[x].prev + HDR <= x)
        <4>1. mem[x].prev \in Int
          BY <1>4, <3>1 DEF Headers
        <4> QED BY <1>0, <1>1, <2>3, <3>1, <4>1
      <3>3. IF N # NULL THEN x + HDR <= N ELSE Len(blocks') \in D /\ x + HDR <= Hd(Len(blocks))'
        BY <1>0, <1>3, <1>5, <2>3, <3>1
      <3> QED BY <2>0, <3>1, <3>2, <3>3 DEF Stale, Dead
    <2> QED BY <1>0, <2>0, <2>1, <2>2, <2>3 DEF Shape, Stale
  <1>15. Full(D, N)'
    BY <1>3, <1>5 DEF Full
  <1>16. Shape(D, N)'
    BY <1>9, <1>10, <1>11, <1>12, <1>13, <1>14, <1>15 DEF Shape
  <1>17. D \in SUBSET Held' /\ N \in DOMAIN mem' \cup {NULL}
    BY <1>1, <1>3, <1>5
  <1> QED BY <1>7, <1>8, <1>16, <1>17 DEF IInv

Heads == [next : Int, prev : Int]

----------------------------------------------------------------------------
(***************************************************************************)
(* What ufree leaves, as functions of the headers.                         *)
(***************************************************************************)
\* Marking a chunk free touches only its header.
LEMMA Freed ==
  ASSUME NEW m, NEW hd, NEW h
  PROVE  [[mem |-> m, head |-> hd] EXCEPT !.mem[h].free = TRUE]
           = [mem |-> [m EXCEPT ![h].free = TRUE], head |-> hd]
  <1>1. PICK s : s = [mem |-> m, head |-> hd]
    OBVIOUS
  <1>2. [s EXCEPT !.mem[h].free = TRUE] = [s EXCEPT !.mem = [s.mem EXCEPT ![h].free = TRUE]]
    BY Zenon
  <1>3. \A x : [s EXCEPT !.mem = x] = [mem |-> x, head |-> hd]
    BY <1>1
  <1>4. s.mem = m
    BY <1>1
  <1> QED BY <1>1, <1>2, <1>3, <1>4, Zenon

\* One merge: what becomes of the two chunks.
LEMMA MergeFacts ==
  ASSUME NEW m, m \in [DOMAIN m -> Headers], NEW hd \in Heads,
         NEW a \in DOMAIN m, NEW b \in DOMAIN m, a # b, m[b].next = NULL
  PROVE  LET s == Merge(a, b, [mem |-> m, head |-> hd])
         IN s = [mem  |-> [d \in DOMAIN m |->
                             IF d = a THEN [prev |-> m[a].prev, next |-> NULL,
                                            size |-> m[a].size + HDR + m[b].size, free |-> m[a].free]
                             ELSE m[d]],
                 head |-> [next |-> hd.next, prev |-> a]]
  <1> DEFINE r == [prev |-> m[a].prev, next |-> NULL,
                   size |-> m[a].size + HDR + m[b].size, free |-> m[a].free]
             s == [mem |-> m, head |-> hd]
             mm == [m EXCEPT ![a].size = @ + HDR + m[b].size, ![a].next = NULL]
             g == [d \in DOMAIN m |-> IF d = a THEN r ELSE m[d]]
  <1>1. Merge(a, b, s) = [mem |-> mm, head |-> [hd EXCEPT !.prev = a]]
    BY DEF Merge
  <1>2. [hd EXCEPT !.prev = a] = [next |-> hd.next, prev |-> a]
    BY DEF Heads
  <1>3. m[a] = [prev |-> m[a].prev, next |-> m[a].next, size |-> m[a].size, free |-> m[a].free]
    BY DEF Headers
  <1>4. mm[a] = r
    <2>1. mm[a] = [[m[a] EXCEPT !.size = @ + HDR + m[b].size] EXCEPT !.next = NULL]
      OBVIOUS
    <2> QED BY <1>3, <2>1
  <1>5. DOMAIN mm = DOMAIN m /\ \A d \in DOMAIN m : d # a => mm[d] = m[d]
    OBVIOUS
  <1>6. mm = g
    <2>1. mm = [d \in DOMAIN m |-> mm[d]]
      OBVIOUS
    <2> HIDE DEF mm, r
    <2> QED BY <1>4, <1>5, <2>1
  <1> QED BY <1>1, <1>2, <1>6, Zenon

\* The next chunk, if there is one, is free and the last one; the previous is used.
Alone(m, h) ==
  /\ m[h].next # NULL => /\ m[h].next \in DOMAIN m /\ m[h].next # h
                         /\ m[m[h].next].free /\ m[m[h].next].next = NULL
  /\ m[h].prev # NULL => /\ m[h].prev \in DOMAIN m /\ m[h].prev # h
                         /\ ~m[m[h].prev].free

\* Such a chunk freed.
AfterFree(m, h) ==
  [d \in DOMAIN m |->
     IF d = h THEN [prev |-> m[h].prev, next |-> NULL,
                    size |-> IF m[h].next = NULL THEN m[h].size
                             ELSE m[h].size + HDR + m[m[h].next].size,
                    free |-> TRUE]
     ELSE m[d]]

\* The last chunk h freed behind the free chunk p.
AfterJoin(m, p, h) ==
  [d \in DOMAIN m |->
     IF d = p THEN [prev |-> m[p].prev, next |-> NULL,
                    size |-> m[p].size + HDR + m[h].size, free |-> TRUE]
     ELSE m[d]]

\* Freeing a chunk whose previous chunk is used: it takes in the next one.
LEMMA UfreeNext ==
  ASSUME NEW m, m \in [DOMAIN m -> Headers], NEW hd \in Heads, NEW h \in DOMAIN m, Alone(m, h)
  PROVE  /\ ufree(h, [mem |-> m, head |-> hd]).mem = AfterFree(m, h)
         /\ ufree(h, [mem |-> m, head |-> hd]).head
              = [next |-> hd.next, prev |-> IF m[h].next = NULL THEN hd.prev ELSE h]
  <1> DEFINE s == [mem |-> m, head |-> hd]
             n == m[h].next
             p == m[h].prev
             e == [d \in DOMAIN m |->
                     IF d = h THEN [prev |-> p, next |-> n, size |-> m[h].size, free |-> TRUE]
                     ELSE m[d]]
             f == [mem |-> e, head |-> hd]
             g == IF n # NULL /\ f.mem[n].free THEN Merge(h, n, f) ELSE f
             z == IF n = NULL THEN m[h].size ELSE m[h].size + HDR + m[n].size
             k == [d \in DOMAIN m |->
                     IF d = h THEN [prev |-> p, next |-> NULL, size |-> z, free |-> TRUE] ELSE m[d]]
             y == [next |-> hd.next, prev |-> IF n = NULL THEN hd.prev ELSE h]
  <1> SUFFICES ufree(h, s).mem = k /\ ufree(h, s).head = y
    BY Zenon DEF AfterFree
  <1>0. /\ n # NULL => n \in DOMAIN m /\ n # h /\ m[n].free /\ m[n].next = NULL
        /\ p # NULL => p \in DOMAIN m /\ p # h /\ ~m[p].free
    BY DEF Alone
  <1>1. [s EXCEPT !.mem[h].free = TRUE] = f
    <2>1. [s EXCEPT !.mem[h].free = TRUE] = [mem |-> [m EXCEPT ![h].free = TRUE], head |-> hd]
      BY Freed
    <2>2. m[h] = [prev |-> p, next |-> n, size |-> m[h].size, free |-> m[h].free]
      BY DEF Headers
    <2>3. [m EXCEPT ![h].free = TRUE] = e
      <3>1. [m[h] EXCEPT !.free = TRUE] = [prev |-> p, next |-> n, size |-> m[h].size, free |-> TRUE]
        <4>1. PICK x : x = [m[h] EXCEPT !.free = TRUE]
          OBVIOUS
        <4>2. m[h] \in Headers
          OBVIOUS
        <4>3. x = [prev |-> p, next |-> n, size |-> m[h].size, free |-> TRUE]
          BY <4>1, <4>2 DEF Headers
        <4> QED BY <4>1, <4>3, Zenon
      <3>2. [m EXCEPT ![h].free = TRUE] = [d \in DOMAIN m |-> IF d = h THEN [m[h] EXCEPT !.free = TRUE] ELSE m[d]]
        OBVIOUS
      <3> QED BY <3>1, <3>2, Zenon
    <2> QED BY <2>1, <2>3
  <1>2. e[h].next = n /\ e[h].prev = p /\ e \in [DOMAIN m -> Headers]
    BY DEF Headers
  <1>3. ufree(h, s) = IF g.mem[h].prev # NULL /\ g.mem[g.mem[h].prev].free
                      THEN Merge(g.mem[h].prev, h, g) ELSE g
    <2>1. f.mem[h].next = n
      BY <1>2
    <2> HIDE DEF f, n, s
    <2>3. f = [s EXCEPT !.mem[h].free = TRUE] /\ n = f.mem[h].next
      BY <1>1, <2>1
    <2> HIDE DEF g
    <2>4. g = (IF n # NULL /\ f.mem[n].free THEN Merge(h, n, f) ELSE f)
      BY Zenon DEF g
    <2> QED BY <2>3, <2>4, SMT DEF ufree
  <1>4. g = [mem |-> k, head |-> y]
    <2>1. CASE n = NULL
      <3>1. g = f /\ e = k /\ hd = y
        BY <2>1 DEF Heads
      <3> QED BY <3>1
    <2>2. CASE n # NULL
      <3>1. n \in DOMAIN m /\ n # h /\ m[n].free /\ m[n].next = NULL /\ e[n] = m[n] /\ f.mem = e
        BY <1>0, <2>2
      <3>2. g = Merge(h, n, f)
        BY <2>2, <3>1
      <3>3. DOMAIN e = DOMAIN m /\ h \in DOMAIN e /\ n \in DOMAIN e /\ e \in [DOMAIN e -> Headers]
            /\ e[h] = [prev |-> p, next |-> n, size |-> m[h].size, free |-> TRUE]
            /\ \A d \in DOMAIN m : d # h => e[d] = m[d]
        BY <1>2, <3>1
      <3> HIDE DEF e, k, g, n
      <3>4. Merge(h, n, [mem |-> e, head |-> hd])
             = [mem  |-> [d \in DOMAIN e |->
                             IF d = h THEN [prev |-> e[h].prev, next |-> NULL,
                                            size |-> e[h].size + HDR + e[n].size, free |-> e[h].free]
                             ELSE e[d]],
                head |-> [next |-> hd.next, prev |-> h]]
        BY <1>0, <3>1, <3>3, MergeFacts, Zenon
      <3>5. [d \in DOMAIN e |->
                             IF d = h THEN [prev |-> e[h].prev, next |-> NULL,
                                            size |-> e[h].size + HDR + e[n].size, free |-> e[h].free]
                             ELSE e[d]] = k
        BY <2>2, <3>1, <3>3 DEF k
      <3>6. y = [next |-> hd.next, prev |-> h]
        BY <2>2
      <3> QED BY <3>2, <3>4, <3>5, <3>6, Zenon
    <2> QED BY <2>1, <2>2
  <1>5. k[h].prev = p /\ (p # NULL => k[p] = m[p])
    BY <1>0
  <1> HIDE DEF k, y, g, s
  <1> QED BY <1>0, <1>3, <1>4, <1>5

\* Freeing the last chunk behind a free one: that one takes it in.
LEMMA UfreePrev ==
  ASSUME NEW m, m \in [DOMAIN m -> Headers], NEW hd \in Heads, NEW h \in DOMAIN m,
         NEW p \in DOMAIN m, p = m[h].prev, p # h, p # NULL, m[p].free,
         m[h].next = NULL, m[h].free
  PROVE  /\ ufree(h, [mem |-> m, head |-> hd]).mem = AfterJoin(m, p, h)
         /\ ufree(h, [mem |-> m, head |-> hd]).head = [next |-> hd.next, prev |-> p]
  <1> DEFINE s == [mem |-> m, head |-> hd]
             k == [d \in DOMAIN m |->
                     IF d = p THEN [prev |-> m[p].prev, next |-> NULL,
                                    size |-> m[p].size + HDR + m[h].size, free |-> TRUE]
                     ELSE m[d]]
             y == [next |-> hd.next, prev |-> p]
  <1> SUFFICES ufree(h, s).mem = k /\ ufree(h, s).head = y
    BY Zenon DEF AfterJoin
  <1>1. [s EXCEPT !.mem[h].free = TRUE] = s
    <2>1. [s EXCEPT !.mem[h].free = TRUE] = [mem |-> [m EXCEPT ![h].free = TRUE], head |-> hd]
      BY Freed
    <2>2. [m[h] EXCEPT !.free = TRUE] = m[h]
      BY DEF Headers
    <2>3. [m EXCEPT ![h].free = TRUE] = m
      BY <2>2
    <2> QED BY <2>1, <2>3
  <1>2. s.mem = m
    OBVIOUS
  <1>3. ufree(h, s) = Merge(p, h, s)
    <2>1. s.mem[h].next = NULL /\ s.mem[h].prev = p /\ s.mem[p].free
      BY <1>2
    <2> HIDE DEF s
    <2>0. PICK f : f = [s EXCEPT !.mem[h].free = TRUE]
      OBVIOUS
    <2>2. f = [s EXCEPT !.mem[h].free = TRUE] /\ f = s
      BY <1>1, <2>0
    <2>3. f.mem[h].next = NULL
      BY <2>1, <2>2
    <2>4. ufree(h, s) = IF f.mem[h].prev # NULL /\ f.mem[f.mem[h].prev].free
                        THEN Merge(f.mem[h].prev, h, f) ELSE f
      <3>1. PICK n : n = f.mem[h].next
        OBVIOUS
      <3>2. PICK g : g = (IF n # NULL /\ f.mem[n].free THEN Merge(h, n, f) ELSE f)
        OBVIOUS
      <3>3. ufree(h, s) = IF g.mem[h].prev # NULL /\ g.mem[g.mem[h].prev].free
                          THEN Merge(g.mem[h].prev, h, g) ELSE g
        BY <2>0, <3>1, <3>2, SMT DEF ufree
      <3>4. g = f
        BY <2>3, <3>1, <3>2
      <3> QED BY <3>3, <3>4
    <2>5. f.mem[h].prev = p /\ p # NULL /\ f.mem[p].free
      BY <2>1, <2>2
    <2> QED BY <2>2, <2>4, <2>5, Zenon
  <1>4. m[p].free = TRUE
    BY DEF Headers
  <1>5. Merge(p, h, s)
          = [mem  |-> [d \in DOMAIN m |->
                             IF d = p THEN [prev |-> m[p].prev, next |-> NULL,
                                            size |-> m[p].size + HDR + m[h].size, free |-> m[p].free]
                             ELSE m[d]],
             head |-> y]
    BY MergeFacts, Zenon
  <1>6. Merge(p, h, s) = [mem |-> k, head |-> y]
    BY <1>4, <1>5, Zenon
  <1> HIDE DEF k, y, s
  <1> QED BY <1>3, <1>6

\* Freeing the newest block: the others stay.
LEMMA Removed ==
  ASSUME blocks \in Seq(Blocks), NEW L \in Nat, L = Len(blocks), L # 0, blocks' = RemoveAt(blocks, L)
  PROVE  /\ blocks' \in Seq(Blocks) /\ Len(blocks') = L - 1
         /\ \A i \in 1 .. L - 1 : blocks'[i] = blocks[i]
  <1> DEFINE a == SubSeq(blocks, 1, L - 1)
             b == SubSeq(blocks, L + 1, L)
  <1>1. blocks' = a \o b
    BY DEF RemoveAt
  <1>2. a \in Seq(Blocks) /\ Len(a) = L - 1 /\ \A i \in 1 .. L - 1 : a[i] = blocks[i]
    OBVIOUS
  <1>3. b = <<>>
    OBVIOUS
  <1> HIDE DEF a, b
  <1> QED BY <1>1, <1>2, <1>3

\* Freeing the newest block keeps the invariant: the block becomes the free end of
\* the chain or, when the chain has lost it, a dead chunk.
LEMMA FreeShape ==
  ASSUME Types, Grown, NEW C \in SUBSET Held, NEW T, Shape(C, T),
         Frees # "any", NEW j \in Freeable, Free(j)
  PROVE  IInv'
  <1>1. PICK L \in Nat : L = Len(blocks)
    BY ShapeFacts
  <1>2. j = L /\ L # 0 /\ L \in Held /\ Held = 1 .. L
    <2>1. blocks \in Seq(Blocks)
      BY DEF Types
    <2> QED BY <1>1, <2>1, SizesAssumption DEF Freeable, Held
  <1>3. PICK h : h = Hd(L)
    OBVIOUS
  <1>4. /\ \A d \in DOMAIN mem : d \in Nat /\ d # NULL /\ d < brk /\ d >= Base
                                  /\ mem[d] \in Headers /\ End(d) \in Nat /\ End(d) <= brk
        /\ \A i \in Held : Hd(i) \in DOMAIN mem /\ ~mem[Hd(i)].free
        /\ \A i, k \in Held : i < k => End(Hd(i)) <= Hd(k) /\ Hd(i) + HDR <= Hd(k)
    BY ShapeFacts
  <1>0. HDR \in Nat \ {0} /\ NULL = 0 /\ Base \in Nat /\ brk \in Nat /\ h \in Nat /\ h \in DOMAIN mem
        /\ h # NULL /\ ~mem[h].free /\ End(h) \in Nat /\ h + HDR <= End(h) /\ End(h) <= brk
    <2>1. h \in DOMAIN mem /\ ~mem[h].free
      BY <1>2, <1>3, <1>4
    <2>2. mem[h].size \in Nat
      BY <1>4, <2>1 DEF Headers
    <2> QED BY <1>4, <2>1, <2>2, Sizes, GrownFacts DEF End
  <1>5. PICK n : n = mem[h].next
    OBVIOUS
  <1>6. n # NULL => /\ n \in DOMAIN mem /\ n # h /\ mem[n].free /\ mem[n].next = NULL
                    /\ End(h) <= n
    <2>1. CASE L \in C
      <3>1. n = T
        <4>1. \A l \in C : ~(L < l)
          BY <1>2
        <4> QED BY <1>3, <1>5, <2>1, <4>1 DEF Shape, Linked
      <3> QED BY <1>0, <1>2, <1>3, <3>1 DEF Shape, Top
    <2>2. CASE L \notin C
      <3>1. \A l \in Held : ~(L < l)
        BY <1>2
      <3>2. n = NULL \/ (Dead(n) /\ End(h) <= n)
        BY <1>2, <1>3, <1>5, <2>2, <3>1 DEF Shape, Cut
      <3> QED BY <1>0, <3>2 DEF Dead
    <2> QED BY <2>1, <2>2
  <1>7. L \in C => n = T
    <2>1. \A l \in C : ~(L < l)
      BY <1>2
    <2> QED BY <1>3, <1>5, <2>1 DEF Shape, Linked
  <1>8. mem[h].prev = NULL \/ \E k \in Held : k < L /\ mem[h].prev = Hd(k)
    BY <1>2, <1>3 DEF Shape, Backward
  <1>9. /\ mem' = [d \in DOMAIN mem |->
                     IF d = h THEN [prev |-> mem[h].prev, next |-> NULL,
                                    size |-> IF n = NULL THEN mem[h].size
                                             ELSE mem[h].size + HDR + mem[n].size,
                                    free |-> TRUE]
                     ELSE mem[d]]
        /\ head' = [next |-> head.next, prev |-> IF n = NULL THEN head.prev ELSE h]
    <2> DEFINE s == [mem |-> mem, head |-> head]
    <2>1. mem' = ufree(h, s).mem /\ head' = ufree(h, s).head
      BY <1>2, <1>3, Zenon DEF Free, Hd
    <2>2. mem \in [DOMAIN mem -> Headers] /\ head \in Heads
      BY <1>0 DEF Types, Heads
    <2>3. mem[h].prev # NULL => /\ mem[h].prev \in DOMAIN mem /\ mem[h].prev # h
                                /\ ~mem[mem[h].prev].free
      BY <1>0, <1>2, <1>3, <1>4, <1>8
    <2>4. mem[h].next # NULL => /\ mem[h].next \in DOMAIN mem /\ mem[h].next # h
                                /\ mem[mem[h].next].free /\ mem[mem[h].next].next = NULL
      BY <1>5, <1>6
    <2>5. h \in DOMAIN mem /\ Alone(mem, h)
      BY <1>0, <2>3, <2>4, Zenon DEF Alone
    <2>6. /\ ufree(h, s).mem = AfterFree(mem, h)
          /\ ufree(h, s).head = [next |-> head.next, prev |-> IF mem[h].next = NULL THEN head.prev ELSE h]
      BY <2>2, <2>5, UfreeNext, Zenon
    <2> HIDE DEF s
    <2> QED BY <1>5, <2>1, <2>6, Zenon DEF AfterFree
  <1>10. PICK z \in Nat : /\ z = (IF n = NULL THEN mem[h].size ELSE mem[h].size + HDR + mem[n].size)
                          /\ h + HDR + z <= brk
    <2>1. mem[h].size \in Nat /\ (n # NULL => mem[n].size \in Nat /\ End(n) <= brk /\ n \in Nat)
      BY <1>0, <1>4, <1>6 DEF Headers
    <2> QED BY <1>0, <1>6, <2>1 DEF End
  <1>11. /\ DOMAIN mem' = DOMAIN mem /\ \A d \in DOMAIN mem : d # h => mem'[d] = mem[d]
         /\ mem'[h].prev = mem[h].prev /\ mem'[h].next = NULL /\ mem'[h].size = z /\ mem'[h].free = TRUE
         /\ mem'[h] \in Headers
    <2>1. mem'[h] = [prev |-> mem[h].prev, next |-> NULL, size |-> z, free |-> TRUE]
      BY <1>0, <1>9, <1>10
    <2>2. DOMAIN mem' = DOMAIN mem /\ \A d \in DOMAIN mem : d # h => mem'[d] = mem[d]
      BY <1>9
    <2>3. mem[h].prev \in Int
      BY <1>0, <1>4 DEF Headers
    <2> QED BY <1>0, <2>1, <2>2, <2>3 DEF Headers
  <1>12. head'.next = head.next /\ head'.prev = IF n = NULL THEN head.prev ELSE h
    BY <1>9
  <1>13. /\ blocks' \in Seq(Blocks) /\ Len(blocks') = L - 1 /\ Held' = 1 .. L - 1
         /\ \A i \in 1 .. L - 1 : blocks'[i] = blocks[i] /\ Hd(i)' = Hd(i)
         /\ brk' = brk /\ want' = want
    <2>1. blocks' = RemoveAt(blocks, L) /\ blocks \in Seq(Blocks)
      BY <1>2 DEF Free, Types
    <2>2. /\ blocks' \in Seq(Blocks) /\ Len(blocks') = L - 1
          /\ \A i \in 1 .. L - 1 : blocks'[i] = blocks[i]
      BY <1>1, <1>2, <2>1, Removed
    <2> QED BY <2>2 DEF Held, Hd, Free
  <1>14. Held' = Held \ {L} /\ \A i \in Held' : i \in Held /\ i < L /\ i \in Nat
    BY <1>2, <1>13
  <1>15. \A i \in Held' : /\ Hd(i)' = Hd(i) /\ mem'[Hd(i)'] = mem[Hd(i)] /\ Hd(i) \in Nat
                          /\ End(Hd(i))' = End(Hd(i)) /\ End(Hd(i)) \in Nat
                          /\ End(Hd(i)) <= h /\ Hd(i) + HDR <= h /\ Hd(i) \in DOMAIN mem'
    <2> SUFFICES ASSUME NEW i \in Held'
                 PROVE  /\ Hd(i)' = Hd(i) /\ mem'[Hd(i)'] = mem[Hd(i)] /\ Hd(i) \in Nat
                        /\ End(Hd(i))' = End(Hd(i)) /\ End(Hd(i)) \in Nat
                        /\ End(Hd(i)) <= h /\ Hd(i) + HDR <= h /\ Hd(i) \in DOMAIN mem'
      OBVIOUS
    <2>1. Hd(i)' = Hd(i) /\ Hd(i) \in DOMAIN mem /\ End(Hd(i)) <= h /\ Hd(i) + HDR <= h
      BY <1>2, <1>3, <1>4, <1>13, <1>14
    <2>2. Hd(i) # h /\ Hd(i) \in Nat /\ End(Hd(i)) \in Nat
      BY <1>0, <1>4, <2>1
    <2> QED BY <1>11, <2>1, <2>2 DEF End
  <1>16. ASSUME NEW d, Dead(d)
         PROVE  Dead(d)' /\ mem'[d] = mem[d] /\ d \in Nat /\ d \in DOMAIN mem
    BY <1>0, <1>4, <1>11, <1>16 DEF Dead
  <1>17. Types' /\ Grown'
    <2>1. \A d \in DOMAIN mem' :
             /\ mem'[d] \in Headers
             /\ d \in Base .. brk - 1 /\ d + HDR + mem'[d].size <= brk
             /\ mem'[d].prev \in 0 .. brk - 1 /\ mem'[d].next \in 0 .. brk - 1
      <3> SUFFICES ASSUME NEW d \in DOMAIN mem'
                   PROVE  /\ mem'[d] \in Headers
                          /\ d \in Base .. brk - 1 /\ d + HDR + mem'[d].size <= brk
                          /\ mem'[d].prev \in 0 .. brk - 1 /\ mem'[d].next \in 0 .. brk - 1
        OBVIOUS
      <3>0. d \in DOMAIN mem /\ d \in Base .. brk - 1 /\ d + HDR + mem[d].size <= brk
            /\ mem[d].prev \in 0 .. brk - 1 /\ mem[d].next \in 0 .. brk - 1
        BY <1>11 DEF Types, End
      <3>1. CASE d = h
        BY <1>0, <1>10, <1>11, <3>0, <3>1
      <3>2. CASE d # h
        BY <1>4, <1>11, <3>0, <3>2
      <3> QED BY <3>1, <3>2
    <2>2. head' \in [next : 0 .. brk - 1, prev : 0 .. brk - 1]
      <3>1. head.next \in 0 .. brk - 1 /\ head.prev \in 0 .. brk - 1 /\ h \in 0 .. brk - 1
        BY <1>0, <1>4 DEF Types
      <3> QED BY <1>9, <3>1
    <2>3. mem' = [d \in DOMAIN mem' |-> mem'[d]]
      BY <1>9
    <2>4. mem' \in [DOMAIN mem' -> Headers]
      BY <2>1, <2>3
    <2> QED BY <1>13, <2>1, <2>2, <2>4 DEF Types, End, Grown
  <1>18. Laid'
    <2>1. ASSUME NEW i \in Held'
          PROVE  Hd(i)' \in DOMAIN mem' /\ ~mem'[Hd(i)'].free /\ mem'[Hd(i)'].size >= blocks'[i].len
      <3>1. mem[Hd(i)].size >= blocks[i].len
        BY <1>14 DEF Shape, Laid
      <3> QED BY <1>4, <1>13, <1>14, <1>15, <3>1
    <2>2. ASSUME NEW i \in Held', NEW k \in Held', i < k
          PROVE  End(Hd(i))' <= Hd(k)'
      BY <1>4, <1>14, <1>15, <2>2
    <2> QED BY <2>1, <2>2 DEF Laid
  <1>19. CASE L \in C
    <2>1. PICK D : D = C \ {L}
      OBVIOUS
    <2>2. (\A i \in D : i \in C /\ i \in Held' /\ i < L) /\ (\A i \in C : i = L \/ i \in D) /\ D \in SUBSET Held'
      BY <1>14, <2>1
    <2>3. Top(h)'
      BY <1>0, <1>11, <1>15 DEF Top
    <2>4. Linked(D, h)'
      <3>1. \/ D = {} /\ head'.next = h
            \/ \E l \in D : head'.next = Hd(l)' /\ \A m \in D : l <= m
        <4>1. PICK l \in C : head.next = Hd(l) /\ \A m \in C : l <= m
          BY <1>19 DEF Shape, Linked
        <4>2. CASE l = L
          <5>1. D = {}
            BY <2>2, <4>1, <4>2, <1>14
          <5> QED BY <1>3, <1>12, <4>1, <4>2, <5>1
        <4>3. CASE l # L
          BY <1>12, <1>15, <2>2, <4>1, <4>3
        <4> QED BY <4>2, <4>3
      <3>2. ASSUME NEW i \in D
            PROVE  \/ mem'[Hd(i)'].next = h /\ \A m \in D : m <= i
                   \/ \E l \in D : i < l /\ mem'[Hd(i)'].next = Hd(l)' /\ \A m \in D : i < m => l <= m
        <4>1. ~(\A m \in C : m <= i)
          BY <1>14, <1>19, <2>2
        <4>2. PICK l \in C : i < l /\ mem[Hd(i)].next = Hd(l) /\ \A m \in C : i < m => l <= m
          BY <2>2, <4>1 DEF Shape, Linked
        <4>3. mem'[Hd(i)'].next = Hd(l)
          BY <1>15, <2>2, <4>2
        <4>4. CASE l = L
          <5>1. \A m \in D : m <= i
            <6>1. \A m \in D : ~(i < m)
              BY <1>14, <2>2, <4>2, <4>4
            <6> QED BY <1>14, <2>2, <6>1
          <5> QED BY <1>3, <4>3, <4>4, <5>1
        <4>5. CASE l # L
          BY <1>15, <2>2, <4>2, <4>3, <4>5
        <4> QED BY <4>4, <4>5
      <3> QED BY <3>1, <3>2 DEF Linked
    <2>5. Backward(D, h)'
      <3>1. ASSUME NEW i \in Held'
            PROVE  mem'[Hd(i)'].prev = NULL \/ \E k \in Held' : k < i /\ mem'[Hd(i)'].prev = Hd(k)'
        <4>1. mem[Hd(i)].prev = NULL \/ \E k \in Held : k < i /\ mem[Hd(i)].prev = Hd(k)
          BY <1>14 DEF Shape, Backward
        <4>2. \A k \in Held : k < i => k \in Held'
          BY <1>2, <1>14
        <4> QED BY <1>15, <4>1, <4>2
      <3>2. ASSUME NEW i \in D
            PROVE  mem'[Hd(i)'].prev = NULL \/ \E k \in D : k < i /\ mem'[Hd(i)'].prev = Hd(k)'
        <4>1. mem[Hd(i)].prev = NULL \/ \E k \in C : k < i /\ mem[Hd(i)].prev = Hd(k)
          BY <2>2 DEF Shape, Backward
        <4>2. \A k \in C : k < i => k \in D
          BY <1>14, <2>2
        <4> QED BY <1>15, <2>2, <4>1, <4>2
      <3>3. mem'[h].prev = NULL \/ \E k \in D : mem'[h].prev = Hd(k)'
        <4>1. mem[h].prev = NULL \/ \E k \in C : k < L /\ mem[h].prev = Hd(k)
          BY <1>3, <1>19 DEF Shape, Backward
        <4>2. \A k \in C : k < L => k \in D
          BY <1>2, <2>2
        <4> QED BY <1>11, <1>15, <2>2, <4>1, <4>2
      <3> QED BY <3>1, <3>2, <3>3 DEF Backward
    <2>6. Cut(D, h)'
      <3> SUFFICES ASSUME NEW i \in Held \ C
                   PROVE  \/ mem'[Hd(i)'].next = NULL
                          \/ \E l \in Held' \ D :
                               i < l /\ mem'[Hd(i)'].next = Hd(l)' /\ \A c \in D : i < c => l < c
                          \/ /\ Dead(mem[Hd(i)].next)' /\ End(Hd(i))' <= mem'[Hd(i)'].next
                             /\ \A c \in D : i < c => mem'[Hd(i)'].next + HDR <= Hd(c)'
                             /\ h # NULL => mem'[Hd(i)'].next + HDR <= h
        <4>1. Held' \ D = Held \ C
          BY <1>14, <1>19, <2>1
        <4> QED BY <4>1 DEF Cut
      <3>0. i \in Held' /\ i < L /\ \A l \in Held \ C : l \in Held' \ D
        BY <1>14, <1>19, <2>1
      <3>1. PICK x : x = mem[Hd(i)].next /\ mem'[Hd(i)'].next = x
        BY <1>15, <3>0
      <3>2. CASE x = NULL
        BY <3>1, <3>2
      <3>3. CASE \E l \in Held \ C : i < l /\ x = Hd(l) /\ \A c \in C : i < c => l < c
        BY <1>15, <2>2, <3>0, <3>1, <3>3
      <3>4. CASE /\ Dead(x) /\ End(Hd(i)) <= x
                 /\ \A c \in C : i < c => x + HDR <= Hd(c)
        <4>1. Dead(mem[Hd(i)].next)'
          BY <1>16, <3>1, <3>4 DEF Dead
        <4>2. x + HDR <= h
          BY <1>3, <1>19, <3>0, <3>4
        <4> QED BY <1>15, <2>2, <3>0, <3>1, <3>4, <4>1, <4>2
      <3> QED BY <3>1, <3>2, <3>3, <3>4 DEF Shape, Cut
    <2>7. Stale(D, h)'
      <3>1. CASE n # NULL
        BY <1>0, <1>12, <3>1 DEF Stale
      <3>2. CASE n = NULL
        <4>0. PICK x : x = head.prev /\ head'.prev = x
          BY <1>12, <3>2
        <4>1. T = NULL /\ blocks # <<>>
          BY <1>1, <1>2, <1>7, <1>19, <3>2
        <4>2. CASE \E k \in C : x = Hd(k)
          BY <1>0, <1>3, <1>15, <2>2, <4>0, <4>2 DEF Stale
        <4>3. CASE /\ Dead(x) /\ x + HDR <= Hd(L)
                   /\ mem[x].prev = NULL \/ (mem[x].prev \in DOMAIN mem /\ mem[x].prev + HDR <= x)
          <5>1. Dead(head.prev)' /\ mem'[x] = mem[x]
            BY <1>16, <4>0, <4>3 DEF Dead
          <5> QED BY <1>0, <1>3, <1>11, <4>0, <4>3, <5>1 DEF Stale
        <4> QED BY <1>1, <4>0, <4>1, <4>2, <4>3 DEF Shape, Stale
      <3> QED BY <3>1, <3>2
    <2>8. Full(D, h)'
      BY <1>0 DEF Full
    <2>9. Shape(D, h)'
      BY <1>18, <2>3, <2>4, <2>5, <2>6, <2>7, <2>8 DEF Shape
    <2> QED BY <1>0, <1>11, <1>17, <2>2, <2>9 DEF IInv
  <1>20. CASE L \notin C
    <2>1. T # NULL /\ T \in DOMAIN mem /\ mem[T].free /\ mem[T].next = NULL /\ End(h) <= T
      <3>1. T # NULL
        BY <1>1, <1>2, <1>20 DEF Shape, Full
      <3> QED BY <1>2, <1>3, <3>1 DEF Shape, Top
    <2>2. T # h /\ T \in Nat /\ mem'[T] = mem[T] /\ h + HDR <= T
      BY <1>0, <1>4, <1>11, <2>1
    <2>3. \A i \in C : i \in Held'
      BY <1>14, <1>20
    <2>4. Top(T)'
      <3>1. \A i \in Held' : End(Hd(i)) <= T
        BY <1>14, <2>1 DEF Shape, Top
      <3> QED BY <1>11, <1>15, <2>1, <2>2, <3>1 DEF Top
    <2>5. Linked(C, T)'
      <3>1. \/ C = {} /\ head'.next = T
            \/ \E l \in C : head'.next = Hd(l)' /\ \A m \in C : l <= m
        BY <1>12, <1>15, <2>3 DEF Shape, Linked
      <3>2. ASSUME NEW i \in C
            PROVE  \/ mem'[Hd(i)'].next = T /\ \A m \in C : m <= i
                   \/ \E l \in C : i < l /\ mem'[Hd(i)'].next = Hd(l)' /\ \A m \in C : i < m => l <= m
        BY <1>15, <2>3 DEF Shape, Linked
      <3> QED BY <3>1, <3>2 DEF Linked
    <2>6. Backward(C, T)'
      <3>1. ASSUME NEW i \in Held'
            PROVE  mem'[Hd(i)'].prev = NULL \/ \E k \in Held' : k < i /\ mem'[Hd(i)'].prev = Hd(k)'
        <4>1. mem[Hd(i)].prev = NULL \/ \E k \in Held : k < i /\ mem[Hd(i)].prev = Hd(k)
          BY <1>14 DEF Shape, Backward
        <4>2. \A k \in Held : k < i => k \in Held'
          BY <1>2, <1>14
        <4> QED BY <1>15, <4>1, <4>2
      <3>2. ASSUME NEW i \in C
            PROVE  mem'[Hd(i)'].prev = NULL \/ \E k \in C : k < i /\ mem'[Hd(i)'].prev = Hd(k)'
        <4>1. mem[Hd(i)].prev = NULL \/ \E k \in C : k < i /\ mem[Hd(i)].prev = Hd(k)
          BY DEF Shape, Backward
        <4> QED BY <1>15, <2>3, <4>1
      <3>3. mem'[T].prev = NULL \/ \E k \in C : mem'[T].prev = Hd(k)'
        <4>1. mem[T].prev = NULL \/ \E k \in C : mem[T].prev = Hd(k)
          BY <2>1 DEF Shape, Backward
        <4> QED BY <1>15, <2>2, <2>3, <4>1
      <3> QED BY <3>1, <3>2, <3>3 DEF Backward
    <2>7. Cut(C, T)'
      <3> SUFFICES ASSUME NEW i \in Held' \ C
                   PROVE  \/ mem'[Hd(i)'].next = NULL
                          \/ \E l \in Held' \ C :
                               i < l /\ mem'[Hd(i)'].next = Hd(l)' /\ \A c \in C : i < c => l < c
                          \/ /\ Dead(mem[Hd(i)].next)' /\ End(Hd(i))' <= mem'[Hd(i)'].next
                             /\ \A c \in C : i < c => mem'[Hd(i)'].next + HDR <= Hd(c)'
                             /\ T # NULL => mem'[Hd(i)'].next + HDR <= T
        BY DEF Cut
      <3>0. i \in Held \ C /\ i < L
        BY <1>14
      <3>1. PICK x : x = mem[Hd(i)].next /\ mem'[Hd(i)'].next = x
        BY <1>15, <3>0
      <3>2. CASE x = NULL
        BY <3>1, <3>2
      <3>3. CASE \E l \in Held \ C : i < l /\ x = Hd(l) /\ \A c \in C : i < c => l < c
        <4>1. PICK l \in Held \ C : i < l /\ x = Hd(l) /\ \A c \in C : i < c => l < c
          BY <3>3
        <4>2. CASE l = L
          <5>1. \A c \in C : ~(i < c)
            BY <1>14, <2>3, <4>1, <4>2
          <5>2. Dead(mem[Hd(i)].next)'
            BY <1>0, <1>3, <1>11, <3>1, <4>1, <4>2 DEF Dead
          <5> QED BY <1>3, <1>15, <2>2, <3>0, <3>1, <4>1, <4>2, <5>1, <5>2
        <4>3. CASE l # L
          <5>1. l \in Held' \ C
            BY <1>14, <4>1, <4>3
          <5> QED BY <1>15, <3>1, <4>1, <5>1
        <4> QED BY <4>2, <4>3
      <3>4. CASE /\ Dead(x) /\ End(Hd(i)) <= x
                 /\ \A c \in C : i < c => x + HDR <= Hd(c)
                 /\ T # NULL => x + HDR <= T
        <4>1. Dead(mem[Hd(i)].next)'
          BY <1>16, <3>1, <3>4 DEF Dead
        <4> QED BY <1>15, <2>3, <3>0, <3>1, <3>4, <4>1
      <3> QED BY <3>0, <3>1, <3>2, <3>3, <3>4 DEF Shape, Cut
    <2>8. Stale(C, T)'
      <3>1. CASE n # NULL
        <4>1. Dead(head.prev)' /\ head'.prev = h
          BY <1>0, <1>11, <1>12, <3>1 DEF Dead
        <4>2. mem[h].prev = NULL \/ (mem[h].prev \in DOMAIN mem /\ mem[h].prev + HDR <= h)
          BY <1>2, <1>3, <1>4, <1>8
        <4> QED BY <1>11, <2>1, <2>2, <4>1, <4>2 DEF Stale
      <3>2. CASE n = NULL
        <4>0. PICK x : x = head.prev /\ head'.prev = x
          BY <1>12, <3>2
        <4>2. CASE \E k \in C : x = Hd(k)
          BY <1>15, <2>3, <4>0, <4>2 DEF Stale
        <4>3. CASE x = T
          BY <2>1, <4>0, <4>3 DEF Stale
        <4>4. CASE /\ Dead(x) /\ x + HDR <= T
                   /\ mem[x].prev = NULL \/ (mem[x].prev \in DOMAIN mem /\ mem[x].prev + HDR <= x)
          <5>1. Dead(head.prev)' /\ mem'[x] = mem[x]
            BY <1>16, <4>0, <4>4 DEF Dead
          <5> QED BY <1>11, <2>1, <4>0, <4>4, <5>1 DEF Stale
        <4> QED BY <2>1, <4>0, <4>2, <4>3, <4>4 DEF Shape, Stale
      <3> QED BY <3>1, <3>2
    <2>9. Full(C, T)'
      BY <2>1 DEF Full
    <2>10. Shape(C, T)'
      BY <1>18, <2>4, <2>5, <2>6, <2>7, <2>8, <2>9 DEF Shape
    <2> QED BY <1>11, <1>17, <2>1, <2>3, <2>10 DEF IInv
  <1> QED BY <1>19, <1>20

\* The new page's header, and the pointer to it.
Paged(old) ==
  [d \in DOMAIN mem \cup {brk} |->
     IF d = brk THEN [prev |-> old, next |-> NULL, size |-> PAGE - HDR, free |-> TRUE]
     ELSE IF d = old
     THEN [prev |-> mem[old].prev, next |-> brk, size |-> mem[old].size, free |-> mem[old].free]
     ELSE mem[d]]

\* Paged is what umorecore hands to ufree.
LEMMA PagedFacts ==
  ASSUME Types, Grown, NEW old, old = head.prev, old # NULL => old \in DOMAIN mem,
         NEW new, new = Put(mem, brk, malloc_header(old, NULL, PAGE - HDR))
  PROVE  /\ old = NULL => new = Paged(old)
         /\ old # NULL => [new EXCEPT ![old].next = brk] = Paged(old)
         /\ Paged(old) \in [DOMAIN Paged(old) -> Headers]
         /\ brk \in DOMAIN Paged(old) /\ DOMAIN Paged(old) = DOMAIN mem \cup {brk}
         /\ brk \notin DOMAIN mem /\ brk # old /\ brk \in Nat /\ brk # NULL
  <1> DEFINE r == [prev |-> old, next |-> NULL, size |-> PAGE - HDR, free |-> TRUE]
             q == [prev |-> mem[old].prev, next |-> brk, size |-> mem[old].size, free |-> mem[old].free]
  <1>1. brk \in Nat /\ brk # 0 /\ NULL = 0 /\ brk \notin DOMAIN mem /\ brk # old
        /\ PAGE - HDR \in Nat /\ old \in Int /\ 0 \notin DOMAIN mem
    <2>1. brk \in Nat /\ brk # 0 /\ NULL = 0 /\ PAGE - HDR \in Nat
      BY GrownFacts, Sizes
    <2>2. \A h \in DOMAIN mem : h \in Int /\ h < brk /\ h # 0
      BY <2>1, Sizes DEF Types
    <2>3. old \in 0 .. brk - 1
      BY DEF Types
    <2> QED BY <2>1, <2>2, <2>3
  <1>2. malloc_header(old, NULL, PAGE - HDR) = r
    BY DEF malloc_header
  <1>3. r \in Headers
    BY <1>1 DEF Headers
  <1>4. old # NULL => mem[old] \in Headers /\ q \in Headers
    <2>1. old # NULL => mem[old] \in Headers
      BY DEF Types
    <2> QED BY <1>1, <2>1 DEF Headers
  <1>5. new = [d \in DOMAIN mem \cup {brk} |-> IF d = brk THEN r ELSE mem[d]]
    BY <1>2, Zenon DEF Put
  <1>6. mem \in [DOMAIN mem -> Headers]
    BY DEF Types
  <1> HIDE DEF r
  <1>7. old = NULL => new = Paged(old)
    <2> SUFFICES ASSUME old = NULL PROVE new = Paged(old)
      OBVIOUS
    <2>1. \A d \in DOMAIN mem \cup {brk} : d # old
      BY <1>1
    <2>2. Paged(old) = [d \in DOMAIN mem \cup {brk} |-> IF d = brk THEN r ELSE IF d = old THEN q ELSE mem[d]]
      BY Zenon DEF Paged, r
    <2> HIDE DEF q
    <2> QED BY <1>5, <2>1, <2>2
  <1>8. old # NULL => [new EXCEPT ![old].next = brk] = Paged(old)
    <2> SUFFICES ASSUME old # NULL PROVE [new EXCEPT ![old].next = brk] = Paged(old)
      OBVIOUS
    <2>1. Paged(old) = [d \in DOMAIN mem \cup {brk} |-> IF d = brk THEN r ELSE IF d = old THEN q ELSE mem[d]]
      BY Zenon DEF Paged, r
    <2>2. new[old] = mem[old] /\ old \in DOMAIN new
      BY <1>1, <1>5
    <2>3. PICK x : x = [new[old] EXCEPT !.next = brk]
      OBVIOUS
    <2>4. x = q
      BY <1>4, <2>2, <2>3 DEF Headers
    <2> HIDE DEF q
    <2>5. [new EXCEPT ![old].next = brk] = [d \in DOMAIN new |-> IF d = old THEN x ELSE new[d]]
      BY <2>2, <2>3
    <2> QED BY <1>1, <1>5, <2>1, <2>4, <2>5
  <1>9. DOMAIN Paged(old) = DOMAIN mem \cup {brk} /\ brk \in DOMAIN Paged(old)
    BY DEF Paged
  <1>10. \A d \in DOMAIN mem \cup {brk} : Paged(old)[d] \in Headers
    <2>1. Paged(old) = [d \in DOMAIN mem \cup {brk} |-> IF d = brk THEN r ELSE IF d = old THEN q ELSE mem[d]]
      BY Zenon DEF Paged, r
    <2>2. ASSUME NEW d \in DOMAIN mem \cup {brk}
          PROVE  Paged(old)[d] \in Headers
      <3>1. d = old => old # NULL
        BY <1>1
      <3> HIDE DEF q
      <3> QED BY <1>3, <1>4, <1>6, <2>1, <3>1
    <2> QED BY <2>2
  <1>11. Paged(old) \in [DOMAIN Paged(old) -> Headers]
    <2>1. Paged(old) = [d \in DOMAIN Paged(old) |-> Paged(old)[d]]
      BY DEF Paged
    <2> QED BY <1>9, <1>10, <2>1
  <1> QED BY <1>1, <1>7, <1>8, <1>9, <1>11

\* What umorecore leaves, behind a used chunk or in an empty list, ...
LEMMA PageAlone ==
  ASSUME Types, Grown, NEW old, old = head.prev, umorecore,
         head.next = NULL <=> old = NULL,
         old # NULL => old \in DOMAIN mem /\ ~mem[old].free
  PROVE  /\ mem' = AfterFree(Paged(old), brk)
         /\ head' = [next |-> IF old = NULL THEN brk ELSE head.next, prev |-> brk]
  <1>1. PICK new : new = Put(mem, brk, malloc_header(old, NULL, PAGE - HDR))
    OBVIOUS
  <1>2. PICK hd : hd = [next |-> IF old = NULL THEN brk ELSE head.next, prev |-> brk]
    OBVIOUS
  <1>3. mem' = ufree(brk, [mem |-> Paged(old), head |-> hd]).mem
        /\ head' = ufree(brk, [mem |-> Paged(old), head |-> hd]).head
    <2>1. PICK s : s = [mem |-> IF old = NULL THEN new ELSE [new EXCEPT ![old].next = brk], head |-> hd]
      OBVIOUS
    <2>2. mem' = ufree(brk, s).mem /\ head' = ufree(brk, s).head
      BY <1>1, <1>2, <2>1, Zenon DEF umorecore
    <2>3. s = [mem |-> Paged(old), head |-> hd]
      BY <1>1, <2>1, PagedFacts
    <2> QED BY <2>2, <2>3
  <1>4. hd \in Heads
    <2>1. head.next \in Int /\ brk \in Int
      BY GrownFacts DEF Types
    <2> QED BY <1>2, <2>1 DEF Heads
  <1>5. PICK m : m = Paged(old)
    OBVIOUS
  <1>6. m \in [DOMAIN m -> Headers] /\ brk \in DOMAIN m
    BY <1>1, <1>5, PagedFacts
  <1>7. m[brk].next = NULL /\ m[brk].prev = old /\ brk # old
        /\ (old # NULL => old \in DOMAIN m /\ ~m[old].free)
    BY <1>1, <1>5, PagedFacts DEF Paged
  <1>8. Alone(m, brk)
    BY <1>7 DEF Alone
  <1>9. /\ ufree(brk, [mem |-> m, head |-> hd]).mem = AfterFree(m, brk)
        /\ ufree(brk, [mem |-> m, head |-> hd]).head
              = [next |-> hd.next, prev |-> IF m[brk].next = NULL THEN hd.prev ELSE brk]
    BY <1>4, <1>6, <1>8, UfreeNext
  <1>10. [next |-> hd.next, prev |-> IF m[brk].next = NULL THEN hd.prev ELSE brk] = hd
    BY <1>2, <1>7
  <1> QED BY <1>2, <1>3, <1>5, <1>9, <1>10, Zenon

\* ... and behind a free one.
LEMMA PageJoined ==
  ASSUME Types, Grown, NEW old, old = head.prev, umorecore,
         head.next # NULL, old # NULL, old \in DOMAIN mem, mem[old].free
  PROVE  /\ mem' = AfterJoin(Paged(old), old, brk)
         /\ head' = [next |-> head.next, prev |-> old]
  <1>1. PICK new : new = Put(mem, brk, malloc_header(old, NULL, PAGE - HDR))
    OBVIOUS
  <1>2. PICK hd : hd = [next |-> head.next, prev |-> brk]
    OBVIOUS
  <1>3. mem' = ufree(brk, [mem |-> Paged(old), head |-> hd]).mem
        /\ head' = ufree(brk, [mem |-> Paged(old), head |-> hd]).head
    <2>1. PICK s : s = [mem |-> [new EXCEPT ![old].next = brk], head |-> hd]
      OBVIOUS
    <2>2. mem' = ufree(brk, s).mem /\ head' = ufree(brk, s).head
      BY <1>1, <1>2, <2>1, Zenon DEF umorecore
    <2>3. s = [mem |-> Paged(old), head |-> hd]
      BY <1>1, <2>1, PagedFacts
    <2> QED BY <2>2, <2>3
  <1>4. hd \in Heads
    <2>1. head.next \in Int /\ brk \in Int
      BY GrownFacts DEF Types
    <2> QED BY <1>2, <2>1 DEF Heads
  <1>5. PICK m : m = Paged(old)
    OBVIOUS
  <1>6. m \in [DOMAIN m -> Headers] /\ brk \in DOMAIN m
    BY <1>1, <1>5, PagedFacts
  <1>7. m[brk].next = NULL /\ m[brk].prev = old /\ brk # old /\ m[brk].free
        /\ old \in DOMAIN m /\ m[old].free
    BY <1>1, <1>5, PagedFacts DEF Paged
  <1>9. /\ ufree(brk, [mem |-> m, head |-> hd]).mem = AfterJoin(m, old, brk)
        /\ ufree(brk, [mem |-> m, head |-> hd]).head = [next |-> hd.next, prev |-> old]
    BY <1>4, <1>6, <1>7, UfreePrev
  <1>10. hd.next = head.next
    BY <1>2
  <1> QED BY <1>3, <1>5, <1>9, <1>10, Zenon

\* What Paged, AfterFree and AfterJoin leave of each header.
LEMMA PageAloneFacts ==
  ASSUME Types, Grown, NEW old, old = head.prev, old # NULL => old \in DOMAIN mem,
         mem' = AfterFree(Paged(old), brk)
  PROVE  /\ DOMAIN mem' = DOMAIN mem \cup {brk} /\ mem' \in [DOMAIN mem' -> Headers]
         /\ mem'[brk].prev = old /\ mem'[brk].next = NULL /\ mem'[brk].free
         /\ mem'[brk].size = PAGE - HDR
         /\ \A d \in DOMAIN mem : /\ d # old => mem'[d] = mem[d]
                                  /\ mem'[d].prev = mem[d].prev /\ mem'[d].size = mem[d].size
                                  /\ mem'[d].free = mem[d].free
         /\ old # NULL => mem'[old].next = brk
  <1>1. PICK new : new = Put(mem, brk, malloc_header(old, NULL, PAGE - HDR))
    OBVIOUS
  <1>2. PICK m : m = Paged(old)
    OBVIOUS
  <1>3. /\ m \in [DOMAIN m -> Headers] /\ DOMAIN m = DOMAIN mem \cup {brk}
        /\ brk \notin DOMAIN mem /\ brk # old
    BY <1>1, <1>2, PagedFacts
  <1>4. m[brk] = [prev |-> old, next |-> NULL, size |-> PAGE - HDR, free |-> TRUE]
    BY <1>2 DEF Paged
  <1>5. \A d \in DOMAIN mem : d # old => m[d] = mem[d]
    BY <1>2, <1>3 DEF Paged
  <1>6. old # NULL => m[old] = [prev |-> mem[old].prev, next |-> brk, size |-> mem[old].size, free |-> mem[old].free]
    BY <1>2, <1>3 DEF Paged
  <1>7. mem' = m
    <2>1. \A d \in DOMAIN m : mem'[d] = m[d]
      BY <1>2, <1>4 DEF AfterFree
    <2>2. mem' = [d \in DOMAIN m |-> mem'[d]]
      BY <1>2 DEF AfterFree
    <2>3. m = [d \in DOMAIN m |-> m[d]]
      BY <1>3
    <2> QED BY <2>1, <2>2, <2>3
  <1>8. ASSUME NEW d \in DOMAIN mem
        PROVE  /\ d # old => mem'[d] = mem[d]
               /\ mem'[d].prev = mem[d].prev /\ mem'[d].size = mem[d].size
               /\ mem'[d].free = mem[d].free
    <2>1. CASE d = old /\ old # NULL
      BY <1>6, <1>7, <2>1
    <2>2. CASE d # old
      BY <1>5, <1>7, <2>2
    <2>3. d # NULL
      BY GrownFacts, Sizes DEF Types
    <2> QED BY <2>1, <2>2, <2>3
  <1>9. /\ mem'[brk].prev = old /\ mem'[brk].next = NULL /\ mem'[brk].free
        /\ mem'[brk].size = PAGE - HDR
    BY <1>4, <1>7
  <1>10. old # NULL => mem'[old].next = brk
    BY <1>6, <1>7
  <1> QED BY <1>3, <1>7, <1>8, <1>9, <1>10

LEMMA PageJoinedFacts ==
  ASSUME Types, Grown, NEW old, old = head.prev, old # NULL, old \in DOMAIN mem, mem[old].free,
         mem' = AfterJoin(Paged(old), old, brk)
  PROVE  /\ DOMAIN mem' = DOMAIN mem \cup {brk} /\ mem' \in [DOMAIN mem' -> Headers]
         /\ mem'[brk].prev = old /\ mem'[brk].next = NULL /\ mem'[brk].free
         /\ mem'[brk].size = PAGE - HDR
         /\ \A d \in DOMAIN mem : d # old => mem'[d] = mem[d]
         /\ mem'[old].prev = mem[old].prev /\ mem'[old].next = NULL /\ mem'[old].free
         /\ mem'[old].size = mem[old].size + PAGE
  <1>1. PICK new : new = Put(mem, brk, malloc_header(old, NULL, PAGE - HDR))
    OBVIOUS
  <1>2. PICK m : m = Paged(old)
    OBVIOUS
  <1>3. /\ m \in [DOMAIN m -> Headers] /\ DOMAIN m = DOMAIN mem \cup {brk}
        /\ brk \notin DOMAIN mem /\ brk # old
    BY <1>1, <1>2, PagedFacts
  <1>4. m[brk] = [prev |-> old, next |-> NULL, size |-> PAGE - HDR, free |-> TRUE]
    BY <1>2 DEF Paged
  <1>5. \A d \in DOMAIN mem : d # old => m[d] = mem[d]
    BY <1>2, <1>3 DEF Paged
  <1>6. m[old] = [prev |-> mem[old].prev, next |-> brk, size |-> mem[old].size, free |-> mem[old].free]
    BY <1>2, <1>3 DEF Paged
  <1>7. mem' = [d \in DOMAIN m |->
                  IF d = old THEN [prev |-> m[old].prev, next |-> NULL,
                                   size |-> m[old].size + HDR + m[brk].size, free |-> TRUE]
                  ELSE m[d]]
    BY <1>2 DEF AfterJoin
  <1>8. mem[old] \in Headers
    BY DEF Types
  <1>9. PICK x : x = [prev |-> m[old].prev, next |-> NULL,
                      size |-> m[old].size + HDR + m[brk].size, free |-> TRUE]
    OBVIOUS
  <1>10. x.prev = mem[old].prev /\ x.next = NULL /\ x.free /\ x.size = mem[old].size + PAGE /\ x \in Headers
    <2>1. mem[old].prev \in Int /\ mem[old].size \in Nat /\ HDR \in Nat /\ PAGE \in Nat /\ NULL = 0
      BY <1>8, Sizes DEF Headers
    <2>2. x.prev = mem[old].prev /\ x.next = NULL /\ x.free /\ x.size = mem[old].size + HDR + (PAGE - HDR)
      BY <1>4, <1>6, <1>9
    <2> QED BY <1>9, <2>1, <2>2 DEF Headers
  <1>11. mem' = [d \in DOMAIN m |-> IF d = old THEN x ELSE m[d]]
    BY <1>7, <1>9, Zenon
  <1>12. mem'[old] = x /\ DOMAIN mem' = DOMAIN m /\ \A d \in DOMAIN m : d # old => mem'[d] = m[d]
    BY <1>3, <1>11
  <1>13. mem' \in [DOMAIN mem' -> Headers]
    BY <1>3, <1>10, <1>11
  <1> QED BY <1>3, <1>4, <1>5, <1>10, <1>12, <1>13

\* umorecore keeps the invariant.  Behind a used chunk the new page is the free end of
\* the chain, and blocks newer than that chunk are cut off; behind a free chunk,
\* dead or not, the page is merged into it and the chain stays.
LEMMA MorecoreShape ==
  ASSUME Types, Grown, NEW C \in SUBSET Held, NEW T, Shape(C, T), umorecore
  PROVE  IInv'
  <1>1. PICK old : old = head.prev
    OBVIOUS
  <1>2. PICK b : b = brk
    OBVIOUS
  <1>3. /\ \A d \in DOMAIN mem : d \in Nat /\ d # NULL /\ d < b /\ d >= Base
                                  /\ mem[d] \in Headers /\ End(d) \in Nat /\ End(d) <= b
        /\ \A i \in Held : i \in Nat /\ Hd(i) \in DOMAIN mem /\ ~mem[Hd(i)].free
        /\ \A i, k \in Held : i < k => End(Hd(i)) <= Hd(k) /\ Hd(i) + HDR <= Hd(k)
    BY <1>2, ShapeFacts
  <1>4. HDR \in Nat \ {0} /\ NULL = 0 /\ Base \in Nat \ {0} /\ b \in Nat /\ b >= Base /\ PAGE \in Nat /\ PAGE > HDR
        /\ b # NULL /\ brk' = b + PAGE /\ b \notin DOMAIN mem
    BY <1>2, <1>3, Sizes, GrownFacts DEF umorecore
  <1>5. (head.next = NULL <=> old = NULL) /\ (old = NULL => C = {} /\ T = NULL /\ blocks = <<>>)
    <2>1. old = NULL => head.next = NULL /\ C = {} /\ T = NULL /\ blocks = <<>>
      BY <1>1, <1>3 DEF Shape, Stale, Dead
    <2>2. head.next = NULL => C = {} /\ T = NULL
      BY <1>3 DEF Shape, Linked
    <2>3. C = {} /\ T = NULL => old = NULL
      BY <1>1 DEF Shape, Stale
    <2> QED BY <2>1, <2>2, <2>3
  <1>6. old # NULL => old \in DOMAIN mem
    BY <1>1, <1>3 DEF Shape, Stale, Top, Dead
  <1>7. blocks' = blocks /\ want' = want /\ Held' = Held /\ \A i \in Held : Hd(i)' = Hd(i)
    BY DEF umorecore, Held, Hd
  <1>8. Grown'
    <2>1. brk < Base + MaxPages * PAGE
      BY DEF umorecore
    <2> QED BY <1>2, <1>4, <2>1, GrownFacts DEF Grown
  <1>9. ASSUME mem' \in [DOMAIN mem' -> Headers], DOMAIN mem' = DOMAIN mem \cup {b},
               mem'[b].prev = old, mem'[b].next = NULL, mem'[b].size = PAGE - HDR,
               \A d \in DOMAIN mem : /\ mem'[d].prev = mem[d].prev
                                     /\ mem'[d].next \in {mem[d].next, b, NULL}
                                     /\ mem'[d].size \in {mem[d].size, mem[d].size + PAGE},
               head'.next \in {head.next, b}, head'.prev \in {old, b},
               head' = [next |-> head'.next, prev |-> head'.prev]
        PROVE  Types'
    <2>1. ASSUME NEW d \in DOMAIN mem'
          PROVE  /\ d \in Base .. (b + PAGE) - 1 /\ d + HDR + mem'[d].size <= b + PAGE
                 /\ mem'[d].prev \in 0 .. (b + PAGE) - 1 /\ mem'[d].next \in 0 .. (b + PAGE) - 1
      <3>1. CASE d = b
        <4>1. old \in 0 .. b - 1
          BY <1>1, <1>2 DEF Types
        <4> QED BY <1>4, <1>9, <3>1, <4>1
      <3>2. CASE d \in DOMAIN mem
        <4>1. mem[d].prev \in 0 .. b - 1 /\ mem[d].next \in 0 .. b - 1 /\ d \in Base .. b - 1
              /\ d + HDR + mem[d].size <= b /\ mem[d].size \in Nat
          BY <1>2, <1>3, <3>2 DEF Types, End, Headers
        <4> QED BY <1>4, <1>9, <3>2, <4>1
      <3> QED BY <1>9, <3>1, <3>2
    <2>2. head' \in [next : 0 .. (b + PAGE) - 1, prev : 0 .. (b + PAGE) - 1]
      <3>1. head.next \in 0 .. b - 1 /\ head.prev \in 0 .. b - 1
        BY <1>2 DEF Types
      <3>2. head'.next \in 0 .. (b + PAGE) - 1 /\ head'.prev \in 0 .. (b + PAGE) - 1
        BY <1>1, <1>4, <1>9, <3>1
      <3> QED BY <1>9, <3>2
    <2>3. blocks' \in Seq(Blocks) /\ want' \in Requests \cup {0}
      BY <1>7 DEF Types
    <2> QED BY <1>4, <1>9, <2>1, <2>2, <2>3 DEF Types, End
  <1>10. ASSUME \A i \in Held : mem'[Hd(i)].size = mem[Hd(i)].size /\ mem'[Hd(i)].free = mem[Hd(i)].free,
                DOMAIN mem' = DOMAIN mem \cup {b}
         PROVE  /\ Laid'
                /\ \A i \in Held : End(Hd(i))' = End(Hd(i)) /\ Hd(i)' = Hd(i) /\ Hd(i) \in Nat
                                   /\ End(Hd(i)) \in Nat /\ End(Hd(i)) <= b /\ Hd(i) + HDR <= End(Hd(i))
    <2>1. ASSUME NEW i \in Held
          PROVE  End(Hd(i))' = End(Hd(i)) /\ Hd(i)' = Hd(i) /\ Hd(i) \in Nat
                 /\ End(Hd(i)) \in Nat /\ End(Hd(i)) <= b /\ Hd(i) + HDR <= End(Hd(i))
      <3>1. mem[Hd(i)].size \in Nat
        BY <1>3 DEF Headers
      <3> QED BY <1>3, <1>4, <1>7, <1>10, <3>1 DEF End
    <2>2. ASSUME NEW i \in Held
          PROVE  Hd(i)' \in DOMAIN mem' /\ ~mem'[Hd(i)'].free /\ mem'[Hd(i)'].size >= blocks'[i].len
      <3>1. mem[Hd(i)].size >= blocks[i].len
        BY DEF Shape, Laid
      <3> QED BY <1>3, <1>7, <1>10, <2>1, <3>1
    <2>3. ASSUME NEW i \in Held, NEW k \in Held, i < k
          PROVE  End(Hd(i))' <= Hd(k)'
      BY <1>3, <2>1, <2>3
    <2> QED BY <1>7, <2>1, <2>2, <2>3 DEF Laid
  <1>11. CASE old = NULL
    <2>1. mem' = AfterFree(Paged(old), brk) /\ head' = [next |-> brk, prev |-> brk]
      BY <1>1, <1>5, <1>11, PageAlone
    <2>2. /\ DOMAIN mem' = DOMAIN mem \cup {b} /\ mem' \in [DOMAIN mem' -> Headers]
          /\ mem'[b].prev = old /\ mem'[b].next = NULL /\ mem'[b].free
          /\ mem'[b].size = PAGE - HDR
          /\ \A d \in DOMAIN mem : mem'[d] = mem[d]
      <3>1. \A d \in DOMAIN mem : d # old
        BY <1>3, <1>11
      <3>2. /\ DOMAIN mem' = DOMAIN mem \cup {b} /\ mem' \in [DOMAIN mem' -> Headers]
            /\ mem'[b].prev = old /\ mem'[b].next = NULL /\ mem'[b].free
            /\ mem'[b].size = PAGE - HDR
            /\ \A d \in DOMAIN mem : d # old => mem'[d] = mem[d]
        BY <1>1, <1>2, <1>6, <2>1, PageAloneFacts
      <3> QED BY <3>1, <3>2
    <2>3. head'.next = b /\ head'.prev = b /\ head' = [next |-> head'.next, prev |-> head'.prev]
      BY <1>2, <2>1
    <2>4. Types'
      BY <1>9, <2>2, <2>3
    <2>5. Held = {} /\ C = {}
      BY <1>5, <1>11 DEF Held
    <2>6. Shape({}, b)'
      <3>1. Laid' /\ Cut({}, b)'
        BY <1>7, <2>5 DEF Laid, Cut
      <3>2. Top(b)' /\ Full({}, b)'
        BY <1>4, <1>7, <2>2, <2>5 DEF Top, Full
      <3>3. Linked({}, b)'
        BY <2>3 DEF Linked
      <3>4. Backward({}, b)'
        BY <1>7, <1>11, <2>2, <2>5 DEF Backward
      <3>5. Stale({}, b)'
        BY <1>4, <2>3 DEF Stale
      <3> QED BY <3>1, <3>2, <3>3, <3>4, <3>5 DEF Shape
    <2> QED BY <1>8, <2>2, <2>4, <2>6 DEF IInv
  <1>12. CASE old # NULL /\ ~mem[old].free
    <2>0. PICK j \in C : old = Hd(j)
      BY <1>1, <1>5, <1>12 DEF Shape, Stale, Top, Dead
    <2>1. mem' = AfterFree(Paged(old), brk) /\ head' = [next |-> head.next, prev |-> brk]
      BY <1>1, <1>5, <1>6, <1>12, PageAlone
    <2>2. /\ DOMAIN mem' = DOMAIN mem \cup {b} /\ mem' \in [DOMAIN mem' -> Headers]
          /\ mem'[b].prev = old /\ mem'[b].next = NULL /\ mem'[b].free
          /\ mem'[b].size = PAGE - HDR
          /\ \A d \in DOMAIN mem : /\ d # old => mem'[d] = mem[d]
                                   /\ mem'[d].prev = mem[d].prev /\ mem'[d].size = mem[d].size
                                   /\ mem'[d].free = mem[d].free
          /\ mem'[old].next = b
      BY <1>1, <1>2, <1>6, <1>12, <2>1, PageAloneFacts
    <2>3. head'.next = head.next /\ head'.prev = b /\ head' = [next |-> head'.next, prev |-> head'.prev]
      BY <1>2, <2>1
    <2>4. Types'
      <3>1. \A d \in DOMAIN mem : mem'[d].next \in {mem[d].next, b, NULL}
        BY <2>2
      <3> QED BY <1>9, <2>2, <2>3, <3>1
    <2>5. /\ Laid'
          /\ \A i \in Held : End(Hd(i))' = End(Hd(i)) /\ Hd(i)' = Hd(i) /\ Hd(i) \in Nat
                             /\ End(Hd(i)) \in Nat /\ End(Hd(i)) <= b /\ Hd(i) + HDR <= End(Hd(i))
      BY <1>3, <1>10, <2>2
    <2>6. \A i \in Held : /\ mem'[Hd(i)'].prev = mem[Hd(i)].prev
                          /\ i # j => mem'[Hd(i)'].next = mem[Hd(i)].next
      <3> SUFFICES ASSUME NEW i \in Held
                   PROVE  /\ mem'[Hd(i)'].prev = mem[Hd(i)].prev
                          /\ i # j => mem'[Hd(i)'].next = mem[Hd(i)].next
        OBVIOUS
      <3>1. i # j => Hd(i) # old
        BY <1>3, <1>4, <2>0, <2>5
      <3> QED BY <1>3, <2>2, <2>5, <3>1
    <2>7. PICK D : D = {i \in C : i <= j}
      OBVIOUS
    <2>8. j \in D /\ (\A i \in D : i \in C /\ i \in Held /\ i <= j) /\ D \in SUBSET Held
      BY <1>3, <2>0, <2>7
    <2>9. Top(b)' /\ Full(D, b)'
      BY <1>4, <1>7, <2>2, <2>5 DEF Top, Full
    <2>10. Linked(D, b)'
      <3>1. \E l \in D : head'.next = Hd(l)' /\ \A m \in D : l <= m
        <4>1. PICK l \in C : head.next = Hd(l) /\ \A m \in C : l <= m
          BY <2>0 DEF Shape, Linked
        <4>2. l \in D
          BY <2>0, <2>7, <4>1
        <4> QED BY <1>7, <2>3, <2>8, <4>1, <4>2
      <3>2. ASSUME NEW i \in D
            PROVE  \/ mem'[Hd(i)'].next = b /\ \A m \in D : m <= i
                   \/ \E l \in D : i < l /\ mem'[Hd(i)'].next = Hd(l)' /\ \A m \in D : i < m => l <= m
        <4>1. CASE i = j
          BY <1>7, <2>0, <2>2, <2>8, <4>1
        <4>2. CASE i # j
          <5>1. i < j
            BY <1>3, <2>0, <2>8, <4>2
          <5>2. ~(\A m \in C : m <= i)
            BY <1>3, <2>0, <2>8, <5>1
          <5>3. PICK l \in C : i < l /\ mem[Hd(i)].next = Hd(l) /\ \A m \in C : i < m => l <= m
            BY <2>8, <5>2 DEF Shape, Linked
          <5>4. l \in D
            BY <2>0, <2>7, <5>1, <5>3
          <5> QED BY <1>7, <2>6, <2>8, <4>2, <5>3, <5>4
        <4> QED BY <4>1, <4>2
      <3> QED BY <3>1, <3>2 DEF Linked
    <2>11. Backward(D, b)'
      <3>1. ASSUME NEW i \in Held
            PROVE  mem'[Hd(i)'].prev = NULL \/ \E k \in Held : k < i /\ mem'[Hd(i)'].prev = Hd(k)'
        <4>1. mem[Hd(i)].prev = NULL \/ \E k \in Held : k < i /\ mem[Hd(i)].prev = Hd(k)
          BY DEF Shape, Backward
        <4> QED BY <1>7, <2>6, <4>1
      <3>2. ASSUME NEW i \in D
            PROVE  mem'[Hd(i)'].prev = NULL \/ \E k \in D : k < i /\ mem'[Hd(i)'].prev = Hd(k)'
        <4>1. mem[Hd(i)].prev = NULL \/ \E k \in C : k < i /\ mem[Hd(i)].prev = Hd(k)
          BY <2>8 DEF Shape, Backward
        <4>2. \A k \in C : k < i => k \in D
          BY <1>3, <2>0, <2>7, <2>8
        <4> QED BY <1>7, <2>6, <2>8, <4>1, <4>2
      <3>3. \E k \in D : mem'[b].prev = Hd(k)'
        BY <1>7, <2>0, <2>2, <2>8
      <3> QED BY <1>7, <3>1, <3>2, <3>3 DEF Backward
    <2>12. ASSUME NEW x, Dead(x)
           PROVE  Dead(x)' /\ x \in Nat /\ x + HDR <= b
      <3>1. x \in DOMAIN mem /\ x # old /\ x + HDR <= b /\ x \in Nat
        <4>1. x \in DOMAIN mem /\ x # old
          BY <1>12, <2>12 DEF Dead
        <4>2. mem[x].size \in Nat /\ End(x) <= b /\ x \in Nat
          BY <1>3, <4>1 DEF Headers
        <4> QED BY <1>4, <4>1, <4>2 DEF End
      <3> QED BY <2>2, <2>12, <3>1 DEF Dead
    <2>13. Cut(D, b)'
      <3> SUFFICES ASSUME NEW i \in Held \ D
                   PROVE  \/ mem'[Hd(i)'].next = NULL
                          \/ \E l \in Held \ D :
                               i < l /\ mem'[Hd(i)'].next = Hd(l)' /\ \A c \in D : i < c => l < c
                          \/ /\ Dead(mem[Hd(i)].next)' /\ End(Hd(i))' <= mem'[Hd(i)'].next
                             /\ \A c \in D : i < c => mem'[Hd(i)'].next + HDR <= Hd(c)'
                             /\ b # NULL => mem'[Hd(i)'].next + HDR <= b
        BY <1>7 DEF Cut
      <3>0. i # j
        BY <2>8
      <3>1. PICK x : x = mem[Hd(i)].next /\ mem'[Hd(i)'].next = x
        BY <2>6, <3>0
      <3>2. CASE x = NULL
        BY <3>1, <3>2
      <3>3. ASSUME Dead(x), End(Hd(i)) <= x, \A c \in D : i < c => x + HDR <= Hd(c)
            PROVE  /\ Dead(mem[Hd(i)].next)' /\ End(Hd(i))' <= mem'[Hd(i)'].next
                   /\ \A c \in D : i < c => mem'[Hd(i)'].next + HDR <= Hd(c)'
                   /\ mem'[Hd(i)'].next + HDR <= b
        <4>1. Dead(mem[Hd(i)].next)' /\ x + HDR <= b
          BY <2>12, <3>1, <3>3 DEF Dead
        <4> QED BY <1>7, <2>5, <2>8, <3>1, <3>3, <4>1
      <3>4. CASE i \in C
        <4>1. j < i /\ \A c \in D : ~(i < c)
          BY <1>3, <2>0, <2>7, <2>8, <3>4
        <4>2. CASE x = T
          <5>1. T # NULL => Dead(T) /\ End(Hd(i)) <= T
            BY DEF Shape, Top, Dead
          <5> QED BY <3>2, <3>3, <4>1, <4>2, <5>1
        <4>3. CASE \E l \in C : i < l /\ x = Hd(l)
          <5>1. PICK l \in C : i < l /\ x = Hd(l)
            BY <4>3
          <5>2. l \in Held \ D
            BY <1>3, <2>0, <2>8, <4>1, <5>1
          <5> QED BY <1>7, <3>1, <4>1, <5>1, <5>2
        <4> QED BY <3>1, <3>4, <4>2, <4>3 DEF Shape, Linked
      <3>5. CASE i \notin C
        <4>1. CASE \E l \in Held \ C : i < l /\ x = Hd(l) /\ \A c \in C : i < c => l < c
          <5>1. PICK l \in Held \ C : i < l /\ x = Hd(l) /\ \A c \in C : i < c => l < c
            BY <4>1
          <5> QED BY <1>7, <2>8, <3>1, <5>1
        <4>2. CASE Dead(x) /\ End(Hd(i)) <= x /\ \A c \in C : i < c => x + HDR <= Hd(c)
          BY <2>8, <3>3, <4>2
        <4> QED BY <3>1, <3>2, <3>5, <4>1, <4>2 DEF Shape, Cut
      <3> QED BY <3>4, <3>5
    <2>14. Stale(D, b)'
      BY <1>4, <2>3 DEF Stale
    <2>15. Shape(D, b)'
      BY <2>5, <2>9, <2>10, <2>11, <2>13, <2>14 DEF Shape
    <2> QED BY <1>7, <1>8, <2>2, <2>4, <2>8, <2>15 DEF IInv
  <1>13. CASE old # NULL /\ mem[old].free
    <2>1. mem' = AfterJoin(Paged(old), old, brk) /\ head' = [next |-> head.next, prev |-> old]
      BY <1>1, <1>5, <1>6, <1>13, PageJoined
    <2>2. /\ DOMAIN mem' = DOMAIN mem \cup {b} /\ mem' \in [DOMAIN mem' -> Headers]
          /\ mem'[b].prev = old /\ mem'[b].next = NULL /\ mem'[b].free
          /\ mem'[b].size = PAGE - HDR
          /\ \A d \in DOMAIN mem : d # old => mem'[d] = mem[d]
          /\ mem'[old].prev = mem[old].prev /\ mem'[old].next = NULL /\ mem'[old].free
          /\ mem'[old].size = mem[old].size + PAGE
      BY <1>1, <1>2, <1>6, <1>13, <2>1, PageJoinedFacts
    <2>3. head'.next = head.next /\ head'.prev = old /\ head' = [next |-> head'.next, prev |-> head'.prev]
      BY <2>1
    <2>4. Types'
      BY <1>9, <2>2, <2>3
    <2>5. \A i \in Held : Hd(i) # old /\ mem'[Hd(i)] = mem[Hd(i)]
      BY <1>3, <1>13, <2>2
    <2>6. /\ Laid'
          /\ \A i \in Held : End(Hd(i))' = End(Hd(i)) /\ Hd(i)' = Hd(i) /\ Hd(i) \in Nat
                             /\ End(Hd(i)) \in Nat /\ End(Hd(i)) <= b /\ Hd(i) + HDR <= End(Hd(i))
      BY <1>10, <2>2, <2>5
    <2>7. ASSUME NEW x, Dead(x)
          PROVE  Dead(x)' /\ mem'[x].prev = mem[x].prev
      BY <2>2, <2>7 DEF Dead
    <2>8. T # NULL => Dead(T)
      BY DEF Shape, Top, Dead
    <2>9. Top(T)' /\ Full(C, T)'
      <3>1. T # NULL => \A i \in Held : End(Hd(i)) <= T
        BY DEF Shape, Top
      <3>2. T # NULL => Dead(T)'
        BY <2>7, <2>8
      <3> QED BY <1>7, <2>6, <3>1, <3>2 DEF Top, Full, Dead, Shape
    <2>10. Linked(C, T)'
      <3>1. \/ C = {} /\ head'.next = T
            \/ \E l \in C : head'.next = Hd(l)' /\ \A m \in C : l <= m
        BY <1>7, <2>3 DEF Shape, Linked
      <3>2. ASSUME NEW i \in C
            PROVE  \/ mem'[Hd(i)'].next = T /\ \A m \in C : m <= i
                   \/ \E l \in C : i < l /\ mem'[Hd(i)'].next = Hd(l)' /\ \A m \in C : i < m => l <= m
        BY <1>7, <2>5 DEF Shape, Linked
      <3> QED BY <3>1, <3>2 DEF Linked
    <2>11. Backward(C, T)'
      <3>1. ASSUME NEW i \in Held
            PROVE  mem'[Hd(i)'].prev = NULL \/ \E k \in Held : k < i /\ mem'[Hd(i)'].prev = Hd(k)'
        <4>1. mem[Hd(i)].prev = NULL \/ \E k \in Held : k < i /\ mem[Hd(i)].prev = Hd(k)
          BY DEF Shape, Backward
        <4> QED BY <1>7, <2>5, <4>1
      <3>2. ASSUME NEW i \in C
            PROVE  mem'[Hd(i)'].prev = NULL \/ \E k \in C : k < i /\ mem'[Hd(i)'].prev = Hd(k)'
        <4>1. mem[Hd(i)].prev = NULL \/ \E k \in C : k < i /\ mem[Hd(i)].prev = Hd(k)
          BY DEF Shape, Backward
        <4> QED BY <1>7, <2>5, <4>1
      <3>3. T # NULL => mem'[T].prev = NULL \/ \E k \in C : mem'[T].prev = Hd(k)'
        <4>1. T # NULL => mem[T].prev = NULL \/ \E k \in C : mem[T].prev = Hd(k)
          BY DEF Shape, Backward
        <4> QED BY <1>7, <2>7, <2>8, <4>1
      <3> QED BY <1>7, <3>1, <3>2, <3>3 DEF Backward
    <2>12. Cut(C, T)'
      <3> SUFFICES ASSUME NEW i \in Held \ C
                   PROVE  \/ mem'[Hd(i)'].next = NULL
                          \/ \E l \in Held \ C :
                               i < l /\ mem'[Hd(i)'].next = Hd(l)' /\ \A c \in C : i < c => l < c
                          \/ /\ Dead(mem[Hd(i)].next)' /\ End(Hd(i))' <= mem'[Hd(i)'].next
                             /\ \A c \in C : i < c => mem'[Hd(i)'].next + HDR <= Hd(c)'
                             /\ T # NULL => mem'[Hd(i)'].next + HDR <= T
        BY <1>7 DEF Cut
      <3>1. PICK x : x = mem[Hd(i)].next /\ mem'[Hd(i)'].next = x
        BY <1>7, <2>5
      <3>2. CASE x = NULL
        BY <3>1, <3>2
      <3>3. CASE \E l \in Held \ C : i < l /\ x = Hd(l) /\ \A c \in C : i < c => l < c
        BY <1>7, <3>1, <3>3
      <3>4. CASE /\ Dead(x) /\ End(Hd(i)) <= x
                 /\ \A c \in C : i < c => x + HDR <= Hd(c)
                 /\ T # NULL => x + HDR <= T
        <4>1. Dead(mem[Hd(i)].next)'
          BY <2>7, <3>1, <3>4 DEF Dead
        <4> QED BY <1>7, <2>6, <3>1, <3>4, <4>1
      <3> QED BY <3>1, <3>2, <3>3, <3>4 DEF Shape, Cut
    <2>13. Stale(C, T)'
      <3>1. CASE old = T
        BY <1>13, <2>3, <3>1 DEF Stale
      <3>2. CASE /\ Dead(old)
                 /\ IF T # NULL THEN old + HDR <= T ELSE Len(blocks) \in C /\ old + HDR <= Hd(Len(blocks))
                 /\ mem[old].prev = NULL \/ (mem[old].prev \in DOMAIN mem /\ mem[old].prev + HDR <= old)
        <4>1. Dead(head.prev)' /\ mem'[old].prev = mem[old].prev
          BY <2>3, <2>7, <3>2 DEF Dead
        <4>2. IF T # NULL THEN old + HDR <= T ELSE Len(blocks') \in C /\ old + HDR <= Hd(Len(blocks))'
          BY <1>7, <3>2
        <4> QED BY <2>2, <2>3, <3>2, <4>1, <4>2 DEF Stale
      <3> QED BY <1>1, <1>3, <1>13, <3>1, <3>2 DEF Shape, Stale
    <2>14. Shape(C, T)'
      BY <2>6, <2>9, <2>10, <2>11, <2>12, <2>13 DEF Shape
    <2>15. T \in DOMAIN mem' \cup {NULL}
      BY <2>2, <2>8 DEF Dead
    <2> QED BY <1>7, <1>8, <2>4, <2>14, <2>15 DEF IInv
  <1> QED BY <1>11, <1>12, <1>13

----------------------------------------------------------------------------
(***************************************************************************)
(* The theorems.                                                           *)
(***************************************************************************)
\* The invariant holds at the start, ...
LEMMA InitIInv == Init => IInv
  <1> SUFFICES ASSUME Init PROVE IInv
    OBVIOUS
  <1>1. mem = <<>> /\ DOMAIN mem = {} /\ blocks = <<>> /\ brk = Base /\ want = 0
        /\ head.next = NULL /\ head.prev = NULL /\ head = [next |-> NULL, prev |-> NULL]
    BY DEF Init
  <1>2. Held = {}
    BY <1>1 DEF Held
  <1>3. Types
    <2>1. mem \in [DOMAIN mem -> Headers]
      BY <1>1
    <2>2. head \in [next : 0 .. brk - 1, prev : 0 .. brk - 1]
      BY <1>1, Sizes
    <2>3. blocks \in Seq(Blocks)
      BY <1>1
    <2> QED BY <1>1, <2>1, <2>2, <2>3 DEF Types
  <1>4. Grown
    BY <1>1, Sizes DEF Grown
  <1>5. Shape({}, NULL)
    BY <1>1, <1>2 DEF Shape, Laid, Top, Linked, Backward, Cut, Stale, Full
  <1> QED BY <1>3, <1>4, <1>5 DEF IInv

LEMMA ShapeUnchanged ==
  ASSUME NEW C, NEW T, Shape(C, T), mem' = mem, head' = head, blocks' = blocks
  PROVE  Shape(C, T)'
  <1>1. Laid' /\ Top(T)' /\ Linked(C, T)'
    BY DEF Shape, Laid, Top, Linked, Held, Hd, End
  <1>2. Backward(C, T)'
    BY DEF Shape, Backward, Held, Hd
  <1>3. Cut(C, T)'
    BY DEF Shape, Cut, Dead, Held, Hd, End
  <1>4. Stale(C, T)' /\ Full(C, T)'
    BY DEF Shape, Stale, Full, Dead, Hd
  <1> QED BY <1>1, <1>2, <1>3, <1>4 DEF Shape

\* ... and every step keeps it.
LEMMA StepIInv ==
  ASSUME Frees # "any", IInv, [Next]_vars
  PROVE  IInv'
  <1>0. PICK C \in SUBSET Held, T \in DOMAIN mem \cup {NULL} : Types /\ Grown /\ Shape(C, T)
    BY DEF IInv
  <1>1. ASSUME NEW k \in Requests, Request(k)
        PROVE  IInv'
    <2>1. mem' = mem /\ head' = head /\ blocks' = blocks /\ brk' = brk /\ want' = k
      BY <1>1 DEF Request
    <2>2. Types' /\ Grown'
      BY <1>0, <2>1 DEF Types, Grown, End
    <2>3. Shape(C, T)'
      BY <1>0, <2>1, ShapeUnchanged
    <2> QED BY <2>1, <2>2, <2>3 DEF IInv, Held
  <1>2. CASE umalloc
    <2>1. PICK h \in DOMAIN mem :
            /\ FirstFit(h, want)
            /\ mem' = Overwrite(Split(h, want), h + HDR, want)
            /\ blocks' = Append(blocks, [addr |-> h + HDR, len |-> want])
      BY <1>2 DEF umalloc
    <2>2. h = T /\ T # NULL /\ Fits(T, want)
      BY <1>0, <2>1, FitIsTop
    <2>3. want \in Requests /\ head' = head /\ brk' = brk /\ want' = 0
      BY <1>0, <1>2 DEF umalloc, Types
    <2> QED BY <1>0, <2>1, <2>2, <2>3, UmallocShape
  <1>3. CASE umorecore
    BY <1>0, <1>3, MorecoreShape
  <1>4. ASSUME NEW i \in Freeable, Free(i)
        PROVE  IInv'
    BY <1>0, <1>4, FreeShape
  <1>5. CASE UNCHANGED vars
    <2>1. mem' = mem /\ head' = head /\ blocks' = blocks /\ brk' = brk /\ want' = want
      BY <1>5 DEF vars
    <2>2. Types' /\ Grown'
      BY <1>0, <2>1 DEF Types, Grown, End
    <2>3. Shape(C, T)'
      BY <1>0, <2>1, ShapeUnchanged
    <2> QED BY <2>1, <2>2, <2>3 DEF IInv, Held
  <1> QED BY <1>1, <1>2, <1>3, <1>4, <1>5 DEF Next, OutOfMemory

\* What follows from it.
LEMMA IInvTypeOK ==
  ASSUME IInv
  PROVE  TypeOK
  <1>1. PICK A \in Nat : A = Base + MaxPages * PAGE
    BY GrownFacts DEF IInv
  <1>2. brk \in Nat /\ Base <= brk /\ brk <= A /\ NULL = 0 /\ Base \in Nat
    BY <1>1, GrownFacts, Sizes DEF IInv
  <1>3. Types /\ Addresses = 0 .. A
    BY <1>1, <1>2 DEF IInv, Addresses
  <1>4. \A h \in DOMAIN mem : h \in Base .. brk - 1 /\ h + HDR + mem[h].size <= brk /\ mem[h] \in Headers
                              /\ mem[h].prev \in 0 .. brk - 1 /\ mem[h].next \in 0 .. brk - 1
    BY <1>3 DEF Types, End
  <1>5. \A h \in DOMAIN mem : mem[h].size \in Nat /\ mem[h].free \in BOOLEAN
    BY <1>4 DEF Headers
  <1>6. 0 .. brk - 1 \subseteq Addresses /\ brk \in Addresses
    BY <1>2, <1>3
  <1>7. head \in [next : Addresses, prev : Addresses]
    BY <1>3, <1>6 DEF Types
  <1>8. ASSUME NEW i \in DOMAIN blocks
        PROVE  blocks[i].addr \in Addresses /\ blocks[i].len \in Requests
    <2>1. i \in Held /\ blocks[i] \in Blocks
      BY <1>3 DEF Types, Held
    <2>2. blocks[i].addr - HDR \in DOMAIN mem
      BY <2>1 DEF IInv, Shape, Laid, Hd
    <2>3. mem[blocks[i].addr - HDR].size \in Nat
          /\ (blocks[i].addr - HDR) + HDR + mem[blocks[i].addr - HDR].size <= brk
          /\ blocks[i].addr - HDR >= Base
      BY <1>2, <1>4, <1>5, <2>2
    <2>4. blocks[i].addr \in Int /\ blocks[i].len \in Requests
      BY <2>1 DEF Blocks
    <2> QED BY <1>2, <1>3, <2>3, <2>4, Sizes
  <1>9. DOMAIN mem \subseteq Base .. brk - 1 /\ want \in Requests \cup {0}
    BY <1>3, <1>4 DEF Types
  <1> QED BY <1>4, <1>5, <1>6, <1>7, <1>8, <1>9 DEF TypeOK

LEMMA IInvHeadersIntact ==
  ASSUME IInv
  PROVE  HeadersIntact
  <1>0. PICK C \in SUBSET Held, T \in DOMAIN mem \cup {NULL} : Types /\ Grown /\ Shape(C, T)
    BY DEF IInv
  <1>1. /\ Chain \in Seq(Int) /\ Last(Chain) = NULL
        /\ \A k \in DOMAIN Chain : Chain[k] \in {Hd(i) : i \in C} \cup {T, NULL}
        /\ head.next \in {Hd(i) : i \in C} \cup {T}
    BY <1>0, ChainFacts
  <1> DEFINE Good(h) == h \in DOMAIN mem /\ {mem[h].next, mem[h].prev} \subseteq DOMAIN mem \cup {NULL}
  <1>2. ASSUME NEW i \in Held
        PROVE  Good(Hd(i))
    <2>1. Hd(i) \in DOMAIN mem /\ \A k \in Held : Hd(k) \in DOMAIN mem
      BY <1>0 DEF Shape, Laid
    <2>2. mem[Hd(i)].prev \in DOMAIN mem \cup {NULL}
      BY <1>0, <2>1 DEF Shape, Backward
    <2>3. CASE i \in C
      <3>1. mem[Hd(i)].next \in DOMAIN mem \cup {NULL}
        BY <1>0, <2>1, <2>3 DEF Shape, Linked
      <3> QED BY <2>1, <2>2, <3>1
    <2>4. CASE i \notin C
      <3>1. mem[Hd(i)].next \in DOMAIN mem \cup {NULL}
        BY <1>0, <2>1, <2>4 DEF Shape, Cut, Dead
      <3> QED BY <2>1, <2>2, <3>1
    <2> QED BY <2>3, <2>4
  <1>3. T # NULL => Good(T)
    <2> SUFFICES ASSUME T # NULL PROVE Good(T)
      OBVIOUS
    <2>1. T \in DOMAIN mem /\ mem[T].next = NULL
      BY <1>0 DEF Shape, Top
    <2>2. mem[T].prev \in DOMAIN mem \cup {NULL}
      BY <1>0, <1>2 DEF Shape, Backward
    <2> QED BY <2>1, <2>2
  <1>4. head.prev # NULL => Good(head.prev)
    <2>1. CASE Dead(head.prev) /\ (mem[head.prev].prev = NULL \/ mem[head.prev].prev \in DOMAIN mem)
      BY <2>1 DEF Dead
    <2>2. CASE \E j \in C : head.prev = Hd(j)
      BY <1>2, <2>2
    <2>3. CASE head.prev = T /\ T # NULL
      BY <1>3, <2>3
    <2> QED BY <1>0, <2>1, <2>2, <2>3 DEF Shape, Stale
  <1> HIDE DEF Good
  <1>5. DOMAIN blocks = Held
    BY <1>0 DEF Types, Held
  <1>6. ASSUME NEW h \in InUse, h # NULL
        PROVE  Good(h)
    <2>1. CASE h \in Range(Chain)
      BY <1>1, <1>2, <1>3, <1>6, <2>1 DEF Range
    <2>2. CASE h = head.next
      BY <1>1, <1>2, <1>3, <1>6, <2>2
    <2>3. CASE h = head.prev
      BY <1>4, <1>6, <2>3
    <2>4. CASE h \in {blocks[i].addr - HDR : i \in DOMAIN blocks}
      BY <1>2, <1>5, <2>4 DEF Hd
    <2> QED BY <2>1, <2>2, <2>3, <2>4 DEF InUse
  <1>7. \A i \in DOMAIN blocks : ~mem[blocks[i].addr - HDR].free /\ mem[blocks[i].addr - HDR].size >= blocks[i].len
    BY <1>0, <1>5 DEF Shape, Laid, Hd
  <1> QED BY <1>1, <1>6, <1>7 DEF HeadersIntact, Good

LEMMA IInvNoOverlap ==
  ASSUME IInv
  PROVE  NoOverlap
  <1> SUFFICES ASSUME NEW i \in DOMAIN blocks, NEW j \in 1 .. i - 1
               PROVE  blocks[j].addr + blocks[j].len <= blocks[i].addr
    BY DEF NoOverlap, H!Apart
  <1>0. PICK C \in SUBSET Held, T \in DOMAIN mem \cup {NULL} : Types /\ Grown /\ Shape(C, T)
    BY DEF IInv
  <1>1. i \in Held /\ j \in Held /\ j < i /\ blocks[i] \in Blocks /\ blocks[j] \in Blocks
    BY <1>0 DEF Types, Held
  <1>2. End(Hd(j)) <= Hd(i) /\ Hd(j) \in DOMAIN mem /\ mem[Hd(j)].size >= blocks[j].len
    BY <1>0, <1>1 DEF Shape, Laid
  <1>3. mem[Hd(j)].size \in Nat
    BY <1>0, <1>2, ShapeFacts DEF Headers
  <1>4. blocks[i].addr \in Int /\ blocks[j].addr \in Int /\ blocks[j].len \in Nat /\ HDR \in Nat
    BY <1>1, Sizes DEF Blocks
  <1> QED BY <1>2, <1>3, <1>4 DEF End, Hd

\* Every step is a step of the heap or changes nothing it can see.
LEMMA StepHeap ==
  ASSUME Frees # "any", IInv, [Next]_vars
  PROVE  [H!HeapNext]_(H!heapVars)
  <1>0. PICK C \in SUBSET Held, T \in DOMAIN mem \cup {NULL} : Types /\ Grown /\ Shape(C, T)
    BY DEF IInv
  <1>1. ASSUME NEW k \in Requests, Request(k)
        PROVE  UNCHANGED H!heapVars
    BY <1>1 DEF Request, H!heapVars
  <1>2. CASE umalloc
    <2>1. PICK h \in DOMAIN mem :
            /\ FirstFit(h, want)
            /\ blocks' = Append(blocks, [addr |-> h + HDR, len |-> want])
      BY <1>2 DEF umalloc
    <2>2. h = T /\ T # NULL /\ Fits(T, want) /\ brk' = brk
      BY <1>0, <1>2, <2>1, FitIsTop DEF umalloc
    <2>3. want \in Nat \ {0} /\ HDR \in Nat /\ Base \in Nat /\ brk \in Nat
      BY <1>0, <1>2, Sizes, GrownFacts DEF umalloc, Types
    <2>4. T \in Nat /\ T >= Base /\ mem[T].size \in Nat /\ End(T) <= brk /\ End(T) = T + HDR + mem[T].size
      <3>1. T \in DOMAIN mem
        BY <2>1, <2>2
      <3>2. T \in Nat /\ T >= Base /\ mem[T] \in Headers /\ End(T) <= brk
        BY <1>0, <3>1, ShapeFacts
      <3> QED BY <3>2 DEF Headers, End
    <2>5. mem[T].size >= want
      <3>1. aligned_bytes(want) \in Nat /\ aligned_bytes(want) >= want /\ ALIGN \in Nat
        BY <2>3, Aligned, Sizes
      <3> QED BY <2>2, <2>3, <2>4, <3>1 DEF Fits, required_bytes
    <2> DEFINE addr == T + HDR
               b == [addr |-> addr, len |-> want]
    <2>6. addr \in Base .. brk /\ want \in 1 .. brk - addr
      BY <2>3, <2>4, <2>5
    <2>7. ASSUME NEW i \in DOMAIN blocks
          PROVE  H!Apart(blocks[i], b)
      <3>1. i \in Held /\ blocks[i] \in Blocks
        BY <1>0 DEF Types, Held
      <3>2. End(Hd(i)) <= T /\ mem[Hd(i)].size >= blocks[i].len /\ Hd(i) \in DOMAIN mem
        BY <1>0, <2>2, <3>1 DEF Shape, Top, Laid
      <3>3. blocks[i].addr \in Int /\ blocks[i].len \in Nat
        BY <3>1, Sizes DEF Blocks
      <3>4. mem[Hd(i)].size \in Nat
        BY <1>0, <3>2, ShapeFacts DEF Headers
      <3>5. blocks[i].addr + blocks[i].len <= T + HDR
        BY <2>3, <2>4, <3>2, <3>3, <3>4 DEF End, Hd
      <3> QED BY <3>5 DEF H!Apart
    <2>8. H!Alloc(addr, want)
      BY <2>1, <2>2, <2>3, <2>4, <2>5, <2>7 DEF H!Alloc
    <2> HIDE DEF addr
    <2>9. H!HeapNext
      BY <2>6, <2>8 DEF H!HeapNext
    <2> QED BY <2>9
  <1>3. CASE umorecore
    <2>1. brk' = brk + PAGE /\ blocks' = blocks /\ brk \in Nat /\ PAGE \in Nat /\ PAGE > 0
      BY <1>0, <1>3, Sizes, GrownFacts DEF umorecore
    <2>2. H!Grow
      BY <2>1 DEF H!Grow
    <2> QED BY <2>2 DEF H!HeapNext
  <1>4. ASSUME NEW i \in Freeable, Free(i)
        PROVE  H!HeapNext
    <2>1. i \in DOMAIN blocks
      BY SizesAssumption DEF Freeable
    <2>2. H!Release(i)
      <3>1. blocks' = RemoveAt(blocks, i) /\ brk' = brk
        BY <1>4 DEF Free
      <3> QED BY <3>1 DEF H!Release, RemoveAt, H!RemoveAt
    <2> QED BY <2>1, <2>2 DEF H!HeapNext
  <1>5. CASE UNCHANGED vars
    BY <1>5 DEF vars, H!heapVars
  <1> QED BY <1>1, <1>2, <1>3, <1>4, <1>5 DEF Next, OutOfMemory, H!heapVars

\* The user heap's types, for all sizes and requests, when the program frees the
\* newest block first or nothing: headers lie in the pages got from usys_sbrk and no
\* chunk runs past them.
THEOREM HeapTypeCorrect == Frees # "any" => (Spec => []TypeOK)
  <1> SUFFICES ASSUME Frees # "any" PROVE Spec => []TypeOK
    OBVIOUS
  <1>1. Init => IInv
    BY InitIInv
  <1>2. IInv /\ [Next]_vars => IInv'
    BY StepIInv
  <1>3. IInv => TypeOK
    BY IInvTypeOK
  <1> QED BY <1>1, <1>2, <1>3, PTL DEF Spec

\* Under the same use, what the program writes never reaches a header that umalloc
\* or ufree will read, and the chain comes to its end.
THEOREM HeadersAlwaysIntact == Frees # "any" => (Spec => []HeadersIntact)
  <1> SUFFICES ASSUME Frees # "any" PROVE Spec => []HeadersIntact
    OBVIOUS
  <1>1. Init => IInv
    BY InitIInv
  <1>2. IInv /\ [Next]_vars => IInv'
    BY StepIInv
  <1>3. IInv => HeadersIntact
    BY IInvHeadersIntact
  <1> QED BY <1>1, <1>2, <1>3, PTL DEF Spec

\* Under the same use, no two blocks held share a byte: what goes wrong in
\* umalloc_overlap needs a block freed while a newer one is held.
THEOREM BlocksNeverOverlap == Frees # "any" => (Spec => []NoOverlap)
  <1> SUFFICES ASSUME Frees # "any" PROVE Spec => []NoOverlap
    OBVIOUS
  <1>1. Init => IInv
    BY InitIInv
  <1>2. IInv /\ [Next]_vars => IInv'
    BY StepIInv
  <1>3. IInv => NoOverlap
    BY IInvNoOverlap
  <1> QED BY <1>1, <1>2, <1>3, PTL DEF Spec

\* Under the same use, umalloc and ufree implement the heap: a block returned shares
\* no byte with a block held.
THEOREM HeapRefinement == Frees # "any" => (Spec => ImplementsHeap)
  <1> SUFFICES ASSUME Frees # "any" PROVE Spec => ImplementsHeap
    OBVIOUS
  <1>1. Init => IInv
    BY InitIInv
  <1>2. IInv /\ [Next]_vars => IInv'
    BY StepIInv
  <1>3. IInv /\ [Next]_vars => [H!HeapNext]_(H!heapVars)
    BY StepHeap
  <1>4. Init => H!HeapInit
    BY DEF Init, H!HeapInit
  <1> QED BY <1>1, <1>2, <1>3, <1>4, PTL DEF Spec, ImplementsHeap, H!HeapSpec
=============================================================================
