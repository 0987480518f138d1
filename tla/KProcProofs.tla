---------------------------- MODULE KProcProofs ----------------------------
(***************************************************************************)
(* Proofs about KProc, for every number of slots, pages and tables and for *)
(* every set of programs.                                                  *)
(***************************************************************************)
EXTENDS KProc, FiniteSetTheorems, SequenceTheorems, TLAPS

----------------------------------------------------------------------------
(***************************************************************************)
(* The free list                                                           *)
(***************************************************************************)

\* Popping m pages with kmem_alloc leaves the rest of the list in order.
LEMMA PopList ==
  ASSUME NEW S, NEW s \in Seq(S), NEW m \in Nat, m <= Len(s)
  PROVE  /\ SubSeq(s, m + 1, Len(s)) \in Seq(S)
         /\ Len(SubSeq(s, m + 1, Len(s))) = Len(s) - m
         /\ \A k \in 1 .. Len(s) - m : SubSeq(s, m + 1, Len(s))[k] = s[m + k]
  <1>1. \A k \in m + 1 .. Len(s) : s[k] \in S
    OBVIOUS
  <1>2. m + 1 \in Int /\ Len(s) \in Int
    OBVIOUS
  <1>3. /\ SubSeq(s, m + 1, Len(s)) \in Seq(S)
        /\ Len(SubSeq(s, m + 1, Len(s))) = IF m + 1 <= Len(s) THEN Len(s) - (m + 1) + 1 ELSE 0
        /\ \A k \in 1 .. Len(s) - (m + 1) + 1 : SubSeq(s, m + 1, Len(s))[k] = s[(m + 1) + k - 1]
    BY <1>1, <1>2, SubSeqProperties
  <1>4. Len(SubSeq(s, m + 1, Len(s))) = Len(s) - m
    BY <1>3
  <1>5. ASSUME NEW k \in 1 .. Len(s) - m
        PROVE  SubSeq(s, m + 1, Len(s))[k] = s[m + k]
    BY <1>3
  <1> QED BY <1>3, <1>4, <1>5

\* Three calls of kmem_free put three pages before the list.
LEMMA PushList ==
  ASSUME NEW S, NEW s \in Seq(S), NEW a \in S, NEW b \in S, NEW c \in S
  PROVE  /\ <<a, b, c>> \o s \in Seq(S)
         /\ Len(<<a, b, c>> \o s) = Len(s) + 3
         /\ (<<a, b, c>> \o s)[1] = a
         /\ (<<a, b, c>> \o s)[2] = b
         /\ (<<a, b, c>> \o s)[3] = c
         /\ \A k \in 1 .. Len(s) : (<<a, b, c>> \o s)[k + 3] = s[k]
  <1>1. <<a, b, c>> \in Seq(S) /\ Len(<<a, b, c>>) = 3
    OBVIOUS
  <1>2. /\ <<a, b, c>> \o s \in Seq(S)
        /\ Len(<<a, b, c>> \o s) = 3 + Len(s)
        /\ \A i \in 1 .. 3 + Len(s) : (<<a, b, c>> \o s)[i] =
              IF i <= 3 THEN <<a, b, c>>[i] ELSE s[i - 3]
    BY <1>1, ConcatProperties
  <1>3. Len(s) \in Nat
    OBVIOUS
  <1>4. /\ (<<a, b, c>> \o s)[1] = a
        /\ (<<a, b, c>> \o s)[2] = b
        /\ (<<a, b, c>> \o s)[3] = c
    BY <1>2, <1>3
  <1>5. ASSUME NEW k \in 1 .. Len(s)
        PROVE  (<<a, b, c>> \o s)[k + 3] = s[k]
    BY <1>2, <1>3
  <1> QED BY <1>2, <1>3, <1>4, <1>5

\* Taking m pages splits the free pages into the ones taken and the ones left.
LEMMA TakeFacts ==
  ASSUME free \in Seq(Page), FreeListDistinct,
         NEW m \in Nat, CanAlloc(m), kmem_alloc(m)
  PROVE  /\ free' \in Seq(Page)
         /\ Len(free') = Len(free) - m
         /\ FreeListDistinct'
         /\ FreePages' \subseteq FreePages
         /\ Alloced(m) \subseteq FreePages
         /\ Alloced(m) \cap FreePages' = {}
  <1> DEFINE t == SubSeq(free, m + 1, Len(free))
  <1>0. free' = t /\ m <= Len(free) /\ Len(free) \in Nat
    BY DEF CanAlloc, kmem_alloc
  <1>1. /\ t \in Seq(Page)
        /\ Len(t) = Len(free) - m
        /\ \A k \in 1 .. Len(free) - m : t[k] = free[m + k]
    BY <1>0, PopList
  <1> HIDE DEF t
  <1>2. FreeListDistinct'
    BY <1>0, <1>1 DEF FreeListDistinct
  <1>3. FreePages' \subseteq FreePages
    BY <1>0, <1>1 DEF FreePages
  <1>4. Alloced(m) \subseteq FreePages
    BY <1>0 DEF FreePages, Alloced
  <1>5. Alloced(m) \cap FreePages' = {}
    <2> SUFFICES ASSUME NEW k \in 1 .. m, NEW l \in 1 .. Len(t), free[k] = t[l]
                 PROVE  FALSE
      BY <1>0 DEF FreePages, Alloced
    <2>1. t[l] = free[m + l] /\ m + l \in 1 .. Len(free) /\ k \in 1 .. Len(free)
      BY <1>0, <1>1
    <2>2. k = m + l
      BY <2>1 DEF FreeListDistinct
    <2> QED BY <2>2
  <1> QED BY <1>0, <1>1, <1>2, <1>3, <1>4, <1>5

\* Giving back three distinct pages that were not free.
LEMMA GiveFacts ==
  ASSUME free \in Seq(Page), FreeListDistinct, NEW p \in Proc,
         Roots(p) \cap FreePages = {},
         p.pagetable # p.trapframe, p.pagetable # p.user_stack, p.trapframe # p.user_stack,
         free' = Released(p) \o free
  PROVE  /\ free' \in Seq(Page)
         /\ Len(free') = Len(free) + 3
         /\ FreeListDistinct'
         /\ FreePages' = FreePages \cup Roots(p)
  <1> DEFINE a == p.user_stack
             b == p.pagetable
             c == p.trapframe
             t == <<a, b, c>> \o free
  <1>0. free' = t /\ a \in Page /\ b \in Page /\ c \in Page /\ Len(free) \in Nat
    BY DEF Released, Proc
  <1>1. /\ t \in Seq(Page)
        /\ Len(t) = Len(free) + 3
        /\ t[1] = a /\ t[2] = b /\ t[3] = c
        /\ \A k \in 1 .. Len(free) : t[k + 3] = free[k]
    BY <1>0, PushList
  <1>2. a # b /\ a # c /\ b # c
    OBVIOUS
  <1>3. \A k \in 1 .. Len(free) : free[k] # a /\ free[k] # b /\ free[k] # c
    BY DEF FreePages, Roots
  <1>4. Roots(p) = {a, b, c}
    BY DEF Roots
  <1> HIDE DEF t, a, b, c
  <1>5. \A k \in 1 .. Len(t) : k = 1 \/ k = 2 \/ k = 3 \/ (k - 3 \in 1 .. Len(free) /\ t[k] = free[k - 3])
    <2> SUFFICES ASSUME NEW k \in 1 .. Len(t), k # 1, k # 2, k # 3
                 PROVE  k - 3 \in 1 .. Len(free) /\ t[k] = free[k - 3]
      OBVIOUS
    <2>1. k - 3 \in 1 .. Len(free) /\ k = (k - 3) + 3
      BY <1>0, <1>1
    <2> QED BY <1>1, <2>1
  <1>6. FreeListDistinct'
    <2> SUFFICES ASSUME NEW k \in 1 .. Len(t), NEW l \in 1 .. Len(t), t[k] = t[l]
                 PROVE  k = l
      BY <1>0 DEF FreeListDistinct
    <2>1. CASE k \in {1, 2, 3} /\ l \in {1, 2, 3}
      BY <1>1, <1>2, <2>1
    <2>2. CASE k \in {1, 2, 3} /\ l \notin {1, 2, 3}
      BY <1>1, <1>3, <1>5, <2>2
    <2>3. CASE k \notin {1, 2, 3} /\ l \in {1, 2, 3}
      BY <1>1, <1>3, <1>5, <2>3
    <2>4. CASE k \notin {1, 2, 3} /\ l \notin {1, 2, 3}
      <3>1. /\ k - 3 \in 1 .. Len(free) /\ l - 3 \in 1 .. Len(free)
            /\ free[k - 3] = free[l - 3]
        BY <1>5, <2>4
      <3>2. k - 3 = l - 3
        BY <3>1 DEF FreeListDistinct
      <3> QED BY <1>0, <1>1, <3>2
    <2> QED BY <2>1, <2>2, <2>3, <2>4
  <1>7. FreePages' = FreePages \cup Roots(p)
    <2>1. FreePages' = {t[k] : k \in 1 .. Len(t)}
      BY <1>0 DEF FreePages
    <2>2. {t[k] : k \in 1 .. Len(t)} \subseteq FreePages \cup {a, b, c}
      <3> SUFFICES ASSUME NEW k \in 1 .. Len(t)
                   PROVE  t[k] \in FreePages \cup {a, b, c}
        OBVIOUS
      <3>1. CASE k \in {1, 2, 3}
        BY <1>1, <3>1
      <3>2. CASE k \notin {1, 2, 3}
        BY <1>5, <3>2 DEF FreePages
      <3> QED BY <3>1, <3>2
    <2>3. {a, b, c} \subseteq {t[k] : k \in 1 .. Len(t)}
      BY <1>0, <1>1
    <2>4. FreePages \subseteq {t[k] : k \in 1 .. Len(t)}
      <3> SUFFICES ASSUME NEW k \in 1 .. Len(free)
                   PROVE  free[k] \in {t[l] : l \in 1 .. Len(t)}
        BY DEF FreePages
      <3>1. k + 3 \in 1 .. Len(t) /\ t[k + 3] = free[k]
        BY <1>0, <1>1
      <3> QED BY <3>1
    <2> QED BY <1>4, <2>1, <2>2, <2>3, <2>4
  <1> QED BY <1>0, <1>1, <1>6, <1>7

----------------------------------------------------------------------------
(***************************************************************************)
(* How many pages an address space takes, and which                        *)
(***************************************************************************)

\* The tables that cover a finite set of user pages are finitely many.
LEMMA TablesFinite ==
  ASSUME NEW S \in SUBSET Nat, IsFiniteSet(S)
  PROVE  IsFiniteSet(Tables(S)) /\ Cardinality(Tables(S)) \in Nat
  <1> DEFINE f == [va \in S |-> va \div TableSize]
  <1>1. f \in Surjection(S, Tables(S))
    BY DEF Surjection, Tables
  <1>2. IsFiniteSet(Tables(S))
    BY <1>1, FS_Surjection
  <1> QED BY <1>2, FS_CardinalityType

\* Loading a program of n pages takes at least those n pages and the three
\* that exit gives back.
LEMMA LoadSizes ==
  ASSUME NEW n \in Nat
  PROVE  /\ Image(n) \in SUBSET Nat /\ IsFiniteSet(Image(n))
         /\ VA_USER_STACK \in Image(n)
         /\ LoadPages(n) \in Nat /\ LoadPages(n) >= n + 3
  <1>1. IsFiniteSet(0 .. n - 1)
    BY FS_Interval
  <1>2. IsFiniteSet((0 .. n - 1) \cup {VA_USER_STACK})
    BY <1>1, FS_AddElement
  <1>3. Image(n) = ((0 .. n - 1) \cup {VA_USER_STACK}) \cup {VA_TRAPFRAME}
    BY DEF Image
  <1>4. IsFiniteSet(Image(n))
    BY <1>2, <1>3, FS_AddElement
  <1>5. Image(n) \in SUBSET Nat /\ VA_USER_STACK \in Image(n)
    BY SpaceAssumption, MemoryAssumption DEF Image, VA_USER_STACK, VA_TRAPFRAME
  <1>6. Cardinality(Tables(Image(n))) \in Nat
    BY <1>4, <1>5, TablesFinite
  <1> QED BY <1>4, <1>5, <1>6, MemoryAssumption DEF LoadPages

\* A fork takes a root, a trap frame and at least one frame, the stack.
LEMMA ForkSizes ==
  ASSUME NEW p \in Proc, IsFiniteSet(p.mapped), VA_USER_STACK \in p.mapped
  PROVE  ForkPages(p) \in Nat /\ ForkPages(p) >= 3
  <1> DEFINE frames == p.mapped \ {VA_TRAPFRAME}
  <1>1. p.mapped \in SUBSET Nat
    BY DEF Proc
  <1>2. Cardinality(Tables(p.mapped)) \in Nat
    BY <1>1, TablesFinite
  <1>3. IsFiniteSet(frames)
    BY FS_RemoveElement
  <1>4. VA_USER_STACK \in frames
    BY SpaceAssumption DEF VA_USER_STACK, VA_TRAPFRAME
  <1>5. Cardinality(frames) \in Nat /\ Cardinality(frames) # 0
    BY <1>3, <1>4, FS_CardinalityType, FS_EmptySet
  <1> QED BY <1>2, <1>5, MemoryAssumption DEF ForkPages

\* What an image made of the first m free pages looks like.
Fresh(q, m) ==
  /\ q \in Proc
  /\ q.state = "RUNNABLE"
  /\ q.ra = "ktrap_to_user"
  /\ Owned(q) \subseteq Alloced(m)
  /\ q.pagetable # q.trapframe
  /\ q.pagetable # q.user_stack
  /\ q.trapframe # q.user_stack
  /\ Roots(q) \cap q.pages = {}
  /\ VA_USER_STACK \in q.mapped
  /\ IsFiniteSet(q.mapped)

\* kproc_create and kproc_exec build such an image.
LEMMA LoadedFresh ==
  ASSUME free \in Seq(Page), FreeListDistinct, NEW p \in Proc, NEW n \in Nat,
         NEW how \in {"create", "exec"}, CanAlloc(LoadPages(n))
  PROVE  /\ Fresh(Loaded(p, n, how), LoadPages(n))
         /\ Loaded(p, n, how).free_heap_page = p.free_heap_page
         /\ Loaded(p, n, how).pagetable = free[1]
         /\ Loaded(p, n, how).mapped = Image(n)
         /\ Loaded(p, n, how).image = how
  <1> DEFINE m == LoadPages(n)
             q == Loaded(p, n, how)
  <1>0. LoadPages(n) \in Nat /\ LoadPages(n) >= n + 3
    BY LoadSizes
  <1>1. m \in Nat /\ m >= 3 /\ m <= Len(free) /\ Len(free) \in Nat
    BY <1>0 DEF CanAlloc
  <1>2. \A k \in 1 .. m : k \in 1 .. Len(free) /\ free[k] \in Page
    BY <1>1
  <1>3. /\ Image(n) \in SUBSET Nat /\ IsFiniteSet(Image(n)) /\ VA_USER_STACK \in Image(n)
    BY LoadSizes
  <1>4. /\ q.state = "RUNNABLE" /\ q.ra = "ktrap_to_user"
        /\ q.pagetable = free[1] /\ q.trapframe = free[2] /\ q.user_stack = free[m]
        /\ q.pages = {free[k] : k \in 3 .. m - 1}
        /\ q.mapped = Image(n) /\ q.image = how
        /\ q.free_heap_page = p.free_heap_page
    BY DEF Loaded, Proc
  <1>5. {free[k] : k \in 3 .. m - 1} \subseteq Page
    BY <1>1, <1>2
  <1>6. q \in Proc
    <2> DEFINE P == {free[k] : k \in 3 .. m - 1}
    <2>1. free[1] \in Page /\ free[2] \in Page /\ free[m] \in Page /\ P \in SUBSET Page
      BY <1>1, <1>2, <1>5
    <2>2. q = [p EXCEPT !.state = "RUNNABLE", !.pagetable = free[1], !.trapframe = free[2],
                        !.user_stack = free[m], !.pages = P, !.mapped = Image(n),
                        !.ra = "ktrap_to_user", !.image = how]
      BY DEF Loaded
    <2> HIDE DEF P, m, q
    <2> QED BY <1>3, <2>1, <2>2 DEF Proc, ResumePoints
  <1> HIDE DEF q, m
  <1>7. Owned(q) \subseteq Alloced(m)
    BY <1>1, <1>4 DEF Owned, Roots, Alloced
  <1>8. q.pagetable # q.trapframe /\ q.pagetable # q.user_stack /\ q.trapframe # q.user_stack
    BY <1>1, <1>2, <1>4 DEF FreeListDistinct
  <1>9. Roots(q) \cap q.pages = {}
    <2> SUFFICES ASSUME NEW k \in 3 .. m - 1, free[k] \in {free[1], free[2], free[m]}
                 PROVE  FALSE
      BY <1>4 DEF Roots
    <2>1. k \in 1 .. Len(free) /\ 1 \in 1 .. Len(free) /\ 2 \in 1 .. Len(free) /\ m \in 1 .. Len(free)
      BY <1>1
    <2> QED BY <1>1, <2>1 DEF FreeListDistinct
  <1>10. VA_USER_STACK \in q.mapped /\ IsFiniteSet(q.mapped)
    BY <1>3, <1>4
  <1>11. Fresh(q, m)
    BY <1>4, <1>6, <1>7, <1>8, <1>9, <1>10 DEF Fresh
  <1> QED BY <1>4, <1>11 DEF q, m

\* kproc_fork builds such an image.
LEMMA ForkedFresh ==
  ASSUME free \in Seq(Page), FreeListDistinct, NEW q0 \in Proc, NEW p \in Proc,
         IsFiniteSet(p.mapped), VA_USER_STACK \in p.mapped, CanAlloc(ForkPages(p))
  PROVE  /\ Fresh(Forked(q0, p), ForkPages(p))
         /\ Forked(q0, p).free_heap_page = q0.free_heap_page
         /\ Forked(q0, p).image = "fork"
  <1> DEFINE m == ForkPages(p)
             q == Forked(q0, p)
  <1>1. m \in Nat /\ m >= 3 /\ m <= Len(free) /\ Len(free) \in Nat
    BY ForkSizes DEF CanAlloc
  <1>2. \A k \in 1 .. m : k \in 1 .. Len(free) /\ free[k] \in Page
    BY <1>1
  <1>4. /\ q.state = "RUNNABLE" /\ q.ra = "ktrap_to_user"
        /\ q.pagetable = free[1] /\ q.user_stack = free[m - 1] /\ q.trapframe = free[m]
        /\ q.pages = {free[k] : k \in 2 .. m - 2}
        /\ q.mapped = p.mapped /\ q.image = "fork"
        /\ q.free_heap_page = q0.free_heap_page
    BY DEF Forked, Proc
  <1>5. {free[k] : k \in 2 .. m - 2} \subseteq Page
    BY <1>1, <1>2
  <1>6. q \in Proc
    <2> DEFINE P == {free[k] : k \in 2 .. m - 2}
    <2>1. free[1] \in Page /\ free[m - 1] \in Page /\ free[m] \in Page /\ P \in SUBSET Page
      BY <1>1, <1>2, <1>5
    <2>2. q = [q0 EXCEPT !.state = "RUNNABLE", !.pagetable = free[1],
                         !.user_stack = free[m - 1], !.trapframe = free[m], !.pages = P,
                         !.mapped = p.mapped, !.ra = "ktrap_to_user", !.image = "fork"]
      BY DEF Forked
    <2> HIDE DEF P, m, q
    <2> QED BY <2>1, <2>2 DEF Proc, ResumePoints
  <1> HIDE DEF q, m
  <1>7. Owned(q) \subseteq Alloced(m)
    BY <1>1, <1>4 DEF Owned, Roots, Alloced
  <1>8. q.pagetable # q.trapframe /\ q.pagetable # q.user_stack /\ q.trapframe # q.user_stack
    BY <1>1, <1>2, <1>4 DEF FreeListDistinct
  <1>9. Roots(q) \cap q.pages = {}
    <2> SUFFICES ASSUME NEW k \in 2 .. m - 2, free[k] \in {free[1], free[m - 1], free[m]}
                 PROVE  FALSE
      BY <1>4 DEF Roots
    <2>1. k \in 1 .. Len(free) /\ 1 \in 1 .. Len(free) /\ m - 1 \in 1 .. Len(free) /\ m \in 1 .. Len(free)
      BY <1>1
    <2> QED BY <1>1, <2>1 DEF FreeListDistinct
  <1>10. VA_USER_STACK \in q.mapped /\ IsFiniteSet(q.mapped)
    BY <1>4
  <1>11. Fresh(q, m)
    BY <1>4, <1>6, <1>7, <1>8, <1>9, <1>10 DEF Fresh
  <1> QED BY <1>4, <1>11 DEF q, m

----------------------------------------------------------------------------
(***************************************************************************)
(* What the steps do to page ownership                                     *)
(***************************************************************************)

\* A slot gets an image made of free pages only: create, fork and exec.
LEMMA NewImageOwnership ==
  ASSUME TypeOK, PageOwnership, NEW i \in Slots, NEW m \in Nat, NEW q,
         CanAlloc(m), kmem_alloc(m), Fresh(q, m), proc' = [proc EXCEPT ![i] = q]
  PROVE  PageOwnership'
  <1>0. free \in Seq(Page) /\ FreeListDistinct
    BY DEF TypeOK, PageOwnership
  <1>1. /\ FreeListDistinct'
        /\ FreePages' \subseteq FreePages
        /\ Alloced(m) \subseteq FreePages
        /\ Alloced(m) \cap FreePages' = {}
    BY <1>0, TakeFacts
  <1>2. \A j \in Slots : proc'[j] = IF j = i THEN q ELSE proc[j]
    BY DEF TypeOK
  <1>3. \A j \in Live' : j = i \/ (j \in Live /\ proc'[j] = proc[j])
    BY <1>2 DEF Live
  <1>4. /\ Owned(q) \subseteq FreePages
        /\ Owned(q) \cap FreePages' = {}
    BY <1>1 DEF Fresh
  <1>5. \A j \in Live : Owned(proc[j]) \cap FreePages = {}
    BY DEF PageOwnership, LivePagesNotFree
  <1>6. LivePagesNotFree'
    BY <1>1, <1>2, <1>3, <1>4, <1>5 DEF LivePagesNotFree
  <1>7. LivePagesDisjoint'
    <2> SUFFICES ASSUME NEW j \in Live', NEW l \in Live', j # l
                 PROVE  Owned(proc'[j]) \cap Owned(proc'[l]) = {}
      BY DEF LivePagesDisjoint
    <2>1. i \in Slots /\ proc'[i] = q
      BY <1>2
    <2>2. CASE j = i
      BY <1>3, <1>4, <1>5, <2>1, <2>2
    <2>3. CASE l = i
      BY <1>3, <1>4, <1>5, <2>1, <2>3
    <2>4. CASE j # i /\ l # i
      BY <1>3, <2>4 DEF PageOwnership, LivePagesDisjoint
    <2> QED BY <2>2, <2>3, <2>4
  <1>8. RootsDistinct'
    BY <1>2, <1>3 DEF RootsDistinct, PageOwnership, Fresh
  <1> QED BY <1>1, <1>6, <1>7, <1>8 DEF PageOwnership

\* A live slot is emptied and its root, trap frame and stack are freed: exit
\* and kill.
LEMMA ReleaseOwnership ==
  ASSUME TypeOK, PageOwnership, NEW i \in Live, NEW q, q.state = "UNUSED",
         free' = Released(proc[i]) \o free, proc' = [proc EXCEPT ![i] = q]
  PROVE  /\ PageOwnership'
         /\ free' \in Seq(Page)
         /\ Len(free') = Len(free) + 3
         /\ FreePages \subseteq FreePages'
  <1> DEFINE p == proc[i]
  <1>0. free \in Seq(Page) /\ FreeListDistinct /\ i \in Slots /\ p \in Proc
    BY DEF TypeOK, PageOwnership, Live
  <1>1. Roots(p) \subseteq Owned(p)
    BY DEF Owned
  <1>2. Roots(p) \cap FreePages = {}
    BY <1>1 DEF PageOwnership, LivePagesNotFree
  <1>3. p.pagetable # p.trapframe /\ p.pagetable # p.user_stack /\ p.trapframe # p.user_stack
    BY DEF PageOwnership, RootsDistinct
  <1>4. /\ free' \in Seq(Page)
        /\ Len(free') = Len(free) + 3
        /\ FreeListDistinct'
        /\ FreePages' = FreePages \cup Roots(p)
    BY <1>0, <1>2, <1>3, GiveFacts
  <1>5. \A j \in Live' : j # i /\ j \in Live /\ proc'[j] = proc[j]
    BY <1>0 DEF Live, TypeOK
  <1>6. LivePagesNotFree'
    <2> SUFFICES ASSUME NEW j \in Live'
                 PROVE  Owned(proc'[j]) \cap FreePages' = {}
      BY DEF LivePagesNotFree
    <2>1. j # i /\ j \in Live /\ proc'[j] = proc[j]
      BY <1>5
    <2>2. Owned(proc[j]) \cap FreePages = {} /\ Owned(proc[j]) \cap Owned(p) = {}
      BY <2>1 DEF PageOwnership, LivePagesNotFree, LivePagesDisjoint
    <2> QED BY <1>1, <1>4, <2>1, <2>2
  <1>7. LivePagesDisjoint'
    BY <1>5 DEF LivePagesDisjoint, PageOwnership
  <1>8. RootsDistinct'
    BY <1>5 DEF RootsDistinct, PageOwnership
  <1> QED BY <1>4, <1>6, <1>7, <1>8 DEF PageOwnership

----------------------------------------------------------------------------
(***************************************************************************)
(* The inductive invariant.  Page ownership needs to know that the running *)
(* process is live (so what it frees was its own) and that fork has a      *)
(* stack to copy (so root, stack and trap frame are three pages).          *)
(***************************************************************************)
FiniteMaps    == \A i \in Slots : IsFiniteSet(proc[i].mapped)
StackMapped   == \A i \in Live : VA_USER_STACK \in proc[i].mapped
LiveResumable == \A i \in Live : proc[i].ra # "kproc_free"
BootEmpty     == mode = "boot" => Live = {} /\ current = 0 /\ satp \notin FreePages

IInv ==
  /\ TypeOK
  /\ FiniteMaps
  /\ StackMapped
  /\ LiveResumable
  /\ BootEmpty
  /\ PageOwnership
  /\ RunsOnOwnRoot
  /\ NeverReturnsAfterFree

LEMMA InitIInv == Init => IInv
  <1> SUFFICES ASSUME Init PROVE IInv
    OBVIOUS
  <1> USE DEF Init, kmem_init, kproc_init
  <1>0. NumPages - BootPages \in Nat /\ NumPages - BootPages <= NumPages - 1
    BY MemoryAssumption DEF BootPages
  <1>1. \A i \in Slots : proc[i].state = "UNUSED"
    OBVIOUS
  <1>2. Live = {}
    BY <1>1 DEF Live
  <1>3. free \in Seq(Page) /\ Len(free) = NumPages - BootPages
    <2> DEFINE L == NumPages - BootPages
    <2>1. \A k \in 1 .. L : L - k \in Page
      BY <1>0, MemoryAssumption DEF Page
    <2>2. free \in [1 .. L -> Page]
      BY <2>1
    <2> QED BY <1>0, <2>2, MemoryAssumption
  <1>4. TypeOK
    <2>1. 0 \in Page /\ NumPages - 1 \in Page
      BY MemoryAssumption DEF Page
    <2>2. 0 \in Slots
      BY SlotsAssumption DEF Slots
    <2>3. proc \in [Slots -> Proc]
      BY <2>1 DEF Proc, ResumePoints
    <2> QED BY <1>3, <2>1, <2>2, <2>3 DEF TypeOK, Modes
  <1>5. FiniteMaps
    BY FS_EmptySet DEF FiniteMaps
  <1>6. FreeListDistinct
    BY <1>0, <1>3, MemoryAssumption DEF FreeListDistinct
  <1>7. PageOwnership
    BY <1>2, <1>6 DEF PageOwnership, LivePagesNotFree, LivePagesDisjoint, RootsDistinct
  <1>8. satp \notin FreePages
    BY <1>0, <1>3, MemoryAssumption DEF FreePages
  <1> QED BY <1>2, <1>4, <1>5, <1>7, <1>8
          DEF IInv, StackMapped, LiveResumable, BootEmpty, RunsOnOwnRoot, NeverReturnsAfterFree

\* The parts of the invariant that speak of proc and free, after a slot gets a
\* new image.
LEMMA NewImageInv ==
  ASSUME IInv, NEW i \in Slots, NEW m \in Nat, NEW q,
         CanAlloc(m), kmem_alloc(m), Fresh(q, m), proc' = [proc EXCEPT ![i] = q]
  PROVE  /\ proc' \in [Slots -> Proc]
         /\ free' \in Seq(Page)
         /\ wiped' \in BOOLEAN
         /\ FiniteMaps' /\ StackMapped' /\ LiveResumable' /\ PageOwnership'
         /\ Live' = Live \cup {i}
         /\ Len(free') = Len(free) - m
  <1>0. TypeOK /\ PageOwnership /\ free \in Seq(Page) /\ FreeListDistinct /\ proc \in [Slots -> Proc]
    BY DEF IInv, TypeOK, PageOwnership
  <1>1. PageOwnership'
    BY <1>0, NewImageOwnership
  <1>2. free' \in Seq(Page) /\ Len(free') = Len(free) - m
    BY <1>0, TakeFacts
  <1>3. proc' \in [Slots -> Proc]
    BY <1>0 DEF Fresh
  <1>4. wiped' \in BOOLEAN
    BY DEF kmem_alloc
  <1>5. \A j \in Slots : proc'[j] = IF j = i THEN q ELSE proc[j]
    BY <1>0
  <1>6. Live' = Live \cup {i}
    BY <1>5 DEF Live, Fresh
  <1>7. FiniteMaps'
    BY <1>5 DEF FiniteMaps, Fresh, IInv
  <1>8. StackMapped' /\ LiveResumable'
    <2> SUFFICES ASSUME NEW j \in Live'
                 PROVE  VA_USER_STACK \in proc'[j].mapped /\ proc'[j].ra # "kproc_free"
      BY DEF StackMapped, LiveResumable, VA_USER_STACK
    <2>1. j \in Slots
      BY DEF Live
    <2>2. CASE j = i
      BY <1>5, <2>1, <2>2 DEF Fresh
    <2>3. CASE j # i
      BY <1>5, <1>6, <2>1, <2>3 DEF IInv, StackMapped, LiveResumable
    <2> QED BY <2>2, <2>3
  <1> QED BY <1>1, <1>2, <1>3, <1>4, <1>6, <1>7, <1>8

\* The same after a live slot is emptied.
LEMMA ReleaseInv ==
  ASSUME IInv, NEW i \in Live, NEW q \in Proc, q.state = "UNUSED", q.mapped = proc[i].mapped,
         free' = Released(proc[i]) \o free, proc' = [proc EXCEPT ![i] = q]
  PROVE  /\ proc' \in [Slots -> Proc]
         /\ free' \in Seq(Page)
         /\ FiniteMaps' /\ StackMapped' /\ LiveResumable' /\ PageOwnership'
         /\ Live' = Live \ {i}
         /\ Len(free') = Len(free) + 3
  <1>0. TypeOK /\ PageOwnership /\ proc \in [Slots -> Proc] /\ i \in Slots
    BY DEF IInv, TypeOK, Live
  <1>1. /\ PageOwnership'
        /\ free' \in Seq(Page)
        /\ Len(free') = Len(free) + 3
    BY <1>0, ReleaseOwnership
  <1>2. proc' \in [Slots -> Proc]
    BY <1>0
  <1>3. \A j \in Slots : proc'[j] = IF j = i THEN q ELSE proc[j]
    BY <1>0
  <1>4. Live' = Live \ {i}
    BY <1>3 DEF Live
  <1>5. FiniteMaps'
    BY <1>0, <1>3 DEF FiniteMaps, IInv
  <1>6. \A j \in Live' : j \in Live /\ proc'[j] = proc[j]
    BY <1>3, <1>4 DEF Live
  <1>7. StackMapped' /\ LiveResumable'
    BY <1>6 DEF StackMapped, LiveResumable, IInv, VA_USER_STACK
  <1> QED BY <1>1, <1>2, <1>4, <1>5, <1>7

----------------------------------------------------------------------------
(***************************************************************************)
(* One lemma per action                                                    *)
(***************************************************************************)
LEMMA CreateStep == IInv /\ kproc_create => IInv'
  <1> SUFFICES ASSUME IInv, kproc_create PROVE IInv'
    OBVIOUS
  <1> DEFINE n == ElfPages[Shell]
  <1>1. n \in Nat
    BY FilesAssumption
  <1> HIDE DEF n
  <1>2. PICK i \in Slots :
          /\ CanAlloc(LoadPages(n)) /\ kmem_alloc(LoadPages(n))
          /\ proc' = [proc EXCEPT ![i] = Loaded(proc[i], n, "create")]
    BY DEF kproc_create, n
  <1>3. LoadPages(n) \in Nat /\ proc[i] \in Proc /\ free \in Seq(Page) /\ FreeListDistinct
    BY <1>1, LoadSizes DEF IInv, TypeOK, PageOwnership
  <1>4. Fresh(Loaded(proc[i], n, "create"), LoadPages(n))
    BY <1>1, <1>2, <1>3, LoadedFresh
  <1>5. /\ proc' \in [Slots -> Proc] /\ free' \in Seq(Page) /\ wiped' \in BOOLEAN
        /\ FiniteMaps' /\ StackMapped' /\ LiveResumable' /\ PageOwnership'
    BY <1>2, <1>3, <1>4, NewImageInv
  <1>6. /\ mode' \in {"sched", "wild"}
        /\ current' = current /\ next' = next /\ satp' = satp
    BY DEF kproc_create, SchedulerMode
  <1>7. TypeOK'
    BY <1>5, <1>6 DEF TypeOK, IInv, Modes, Stopped
  <1> QED BY <1>5, <1>6, <1>7 DEF IInv, BootEmpty, RunsOnOwnRoot, NeverReturnsAfterFree

\* Steps that leave proc and free alone leave the parts about them alone.
LEMMA SameProcAndFree ==
  ASSUME IInv, proc' = proc, free' = free
  PROVE  FiniteMaps' /\ StackMapped' /\ LiveResumable' /\ PageOwnership'
  <1>1. Live' = Live /\ FreePages' = FreePages
    BY DEF Live, FreePages
  <1>2. FiniteMaps' /\ LiveResumable'
    BY <1>1 DEF IInv, FiniteMaps, LiveResumable
  <1>3. StackMapped'
    BY <1>1 DEF IInv, StackMapped, VA_USER_STACK
  <1>4. FreeListDistinct' /\ LivePagesNotFree'
    BY <1>1 DEF IInv, PageOwnership, FreeListDistinct, LivePagesNotFree
  <1>5. LivePagesDisjoint' /\ RootsDistinct'
    BY <1>1 DEF IInv, PageOwnership, LivePagesDisjoint, RootsDistinct
  <1> QED BY <1>2, <1>3, <1>4, <1>5 DEF PageOwnership

LEMMA SchedulerStep == IInv /\ kproc_scheduler => IInv'
  <1> SUFFICES ASSUME IInv, kproc_scheduler PROVE IInv'
    OBVIOUS
  <1>0. /\ mode = "sched"
        /\ next' = (next + 1) % NUM_PROCESSES
        /\ proc' = proc /\ free' = free /\ wiped' = wiped
        /\ next \in Slots /\ proc[next] \in Proc
    BY DEF kproc_scheduler, ktrap_to_user, IInv, TypeOK
  <1>1. next' \in Slots
    BY <1>0, SlotsAssumption DEF Slots
  <1>2. FiniteMaps' /\ StackMapped' /\ LiveResumable' /\ PageOwnership'
    BY <1>0, SameProcAndFree
  <1>3. CASE proc[next].state = "RUNNABLE"
    <2>1. next \in Live
      BY <1>0, <1>3 DEF Live
    <2>2. proc[next].ra # "kproc_free"
      BY <2>1 DEF IInv, LiveResumable
    <2>3. current' = next /\ mode' = "user" /\ satp' = proc[next].pagetable
      BY <1>3, <2>2 DEF kproc_scheduler, ktrap_to_user
    <2>4. TypeOK'
      BY <1>0, <1>1, <2>3 DEF TypeOK, IInv, Modes, Proc
    <2> QED BY <1>0, <1>2, <1>3, <2>3, <2>4
            DEF IInv, BootEmpty, RunsOnOwnRoot, NeverReturnsAfterFree
  <1>4. CASE proc[next].state # "RUNNABLE"
    <2>1. current' = current /\ mode' = mode /\ satp' = satp
      BY <1>4 DEF kproc_scheduler, ktrap_to_user
    <2>2. TypeOK'
      BY <1>0, <1>1, <2>1 DEF TypeOK, IInv
    <2> QED BY <1>0, <1>2, <2>1, <2>2
            DEF IInv, BootEmpty, RunsOnOwnRoot, NeverReturnsAfterFree
  <1> QED BY <1>3, <1>4

LEMMA ForkStep == IInv /\ kproc_fork => IInv'
  <1> SUFFICES ASSUME IInv, kproc_fork PROVE IInv'
    OBVIOUS
  <1> DEFINE p == proc[current]
  <1>1. mode = "user" /\ current \in Live /\ satp = p.pagetable /\ p \in Proc
    BY DEF IInv, TypeOK, RunsOnOwnRoot, kproc_fork, Live
  <1>2. IsFiniteSet(p.mapped) /\ VA_USER_STACK \in p.mapped
    BY <1>1 DEF IInv, TypeOK, FiniteMaps, StackMapped
  <1>3. PICK i \in Slots :
          /\ FirstUnused(i)
          /\ CanAlloc(ForkPages(p)) /\ kmem_alloc(ForkPages(p))
          /\ proc' = [proc EXCEPT ![i] = Forked(proc[i], p)]
    BY DEF kproc_fork
  <1> HIDE DEF p
  <1>4. proc[i] \in Proc /\ free \in Seq(Page) /\ FreeListDistinct
    BY DEF IInv, TypeOK, PageOwnership
  <1>5. ForkPages(p) \in Nat
    BY <1>1, <1>2, ForkSizes
  <1>6. Fresh(Forked(proc[i], p), ForkPages(p))
    BY <1>1, <1>2, <1>3, <1>4, ForkedFresh
  <1>7. /\ proc' \in [Slots -> Proc] /\ free' \in Seq(Page) /\ wiped' \in BOOLEAN
        /\ FiniteMaps' /\ StackMapped' /\ LiveResumable' /\ PageOwnership'
    BY <1>3, <1>5, <1>6, NewImageInv
  <1>8. current' = current /\ next' = next /\ satp' = satp /\ mode' = mode
    BY DEF kproc_fork
  <1>9. TypeOK'
    BY <1>7, <1>8 DEF TypeOK, IInv
  <1>10. current # i
    BY <1>1, <1>3 DEF FirstUnused, Live
  <1>11. proc'[current] = proc[current]
    BY <1>3, <1>10 DEF IInv, TypeOK
  <1>12. RunsOnOwnRoot'
    BY <1>1, <1>8, <1>11 DEF RunsOnOwnRoot, Live, p
  <1> QED BY <1>1, <1>7, <1>8, <1>9, <1>12 DEF IInv, BootEmpty, NeverReturnsAfterFree

LEMMA ExecStep ==
  ASSUME IInv, NEW n \in Nat, kproc_exec(n)
  PROVE  IInv'
  <1> DEFINE q0 == Loaded(proc[current], n, "exec")
             q  == [q0 EXCEPT !.free_heap_page = proc[current].free_heap_page + n]
  <1>1. mode = "user" /\ current \in Slots /\ proc[current] \in Proc /\ free \in Seq(Page) /\ FreeListDistinct
    BY DEF IInv, TypeOK, PageOwnership, kproc_exec
  <1>2. /\ CanAlloc(LoadPages(n)) /\ kmem_alloc(LoadPages(n))
        /\ proc' = [proc EXCEPT ![current] = q]
        /\ satp' = free[1]
        /\ current' = current /\ next' = next /\ mode' = mode
    BY DEF kproc_exec
  <1>3. LoadPages(n) \in Nat
    BY LoadSizes
  <1>4. /\ Fresh(q0, LoadPages(n)) /\ q0.pagetable = free[1]
        /\ q0.free_heap_page = proc[current].free_heap_page
    BY <1>1, <1>2, LoadedFresh
  <1> HIDE DEF q0
  <1>5. Fresh(q, LoadPages(n)) /\ q.pagetable = free[1] /\ q.state = "RUNNABLE"
    <2>1. q0 \in Proc /\ proc[current].free_heap_page \in Nat
      BY <1>1, <1>4 DEF Fresh, Proc
    <2>2. q \in Proc
      BY <2>1 DEF Proc
    <2>3. /\ q.state = q0.state /\ q.ra = q0.ra /\ q.pagetable = q0.pagetable
          /\ q.trapframe = q0.trapframe /\ q.user_stack = q0.user_stack
          /\ q.pages = q0.pages /\ q.mapped = q0.mapped
      BY <2>1 DEF Proc
    <2> QED BY <1>4, <2>2, <2>3 DEF Fresh, Owned, Roots
  <1> HIDE DEF q
  <1>6. /\ proc' \in [Slots -> Proc] /\ free' \in Seq(Page) /\ wiped' \in BOOLEAN
        /\ FiniteMaps' /\ StackMapped' /\ LiveResumable' /\ PageOwnership'
    BY <1>1, <1>2, <1>3, <1>5, NewImageInv
  <1>7. proc'[current] = q
    BY <1>1, <1>2 DEF IInv, TypeOK
  <1>8. free[1] \in Page
    BY <1>5 DEF Fresh, Proc
  <1>9. TypeOK'
    BY <1>2, <1>6, <1>8 DEF TypeOK, IInv
  <1>10. RunsOnOwnRoot'
    BY <1>2, <1>5, <1>7 DEF RunsOnOwnRoot
  <1> QED BY <1>1, <1>2, <1>6, <1>9, <1>10 DEF IInv, BootEmpty, NeverReturnsAfterFree

LEMMA AddPageStep == IInv /\ kproc_add_page => IInv'
  <1> SUFFICES ASSUME IInv, kproc_add_page PROVE IInv'
    OBVIOUS
  <1> DEFINE p == proc[current]
             m == HeapPages(p)
             q == [p EXCEPT !.pages = p.pages \cup Alloced(m),
                            !.mapped = p.mapped \cup {p.free_heap_page},
                            !.free_heap_page = p.free_heap_page + 1]
  <1>1. /\ mode = "user" /\ current \in Slots /\ current \in Live /\ p \in Proc
        /\ satp = p.pagetable /\ free \in Seq(Page) /\ FreeListDistinct
        /\ proc \in [Slots -> Proc]
    BY DEF IInv, TypeOK, PageOwnership, RunsOnOwnRoot, kproc_add_page, Live
  <1>2. m \in Nat
    BY DEF HeapPages
  <1>3. /\ CanAlloc(m) /\ kmem_alloc(m)
        /\ proc' = [proc EXCEPT ![current] = q]
        /\ current' = current /\ next' = next /\ satp' = satp /\ mode' = mode
    BY DEF kproc_add_page
  <1> HIDE DEF m
  <1>4. /\ free' \in Seq(Page) /\ FreeListDistinct'
        /\ FreePages' \subseteq FreePages
        /\ Alloced(m) \subseteq FreePages
        /\ Alloced(m) \cap FreePages' = {}
    BY <1>1, <1>2, <1>3, TakeFacts
  <1>5. FreePages \subseteq Page
    BY <1>1 DEF FreePages
  <1>6. /\ q \in Proc
        /\ q.state = p.state /\ q.ra = p.ra /\ q.pagetable = p.pagetable
        /\ q.trapframe = p.trapframe /\ q.user_stack = p.user_stack
        /\ q.pages = p.pages \cup Alloced(m)
        /\ q.mapped = p.mapped \cup {p.free_heap_page}
    <2>1. /\ p.pages \cup Alloced(m) \in SUBSET Page
          /\ p.free_heap_page \in Nat
          /\ p.mapped \cup {p.free_heap_page} \in SUBSET Nat
      BY <1>1, <1>4, <1>5 DEF Proc
    <2> DEFINE P == p.pages \cup Alloced(m)
               M == p.mapped \cup {p.free_heap_page}
               h == p.free_heap_page + 1
    <2>2. q = [p EXCEPT !.pages = P, !.mapped = M, !.free_heap_page = h]
      OBVIOUS
    <2>3. P \in SUBSET Page /\ M \in SUBSET Nat /\ h \in Nat
      BY <2>1
    <2> HIDE DEF P, M, h, q
    <2>4. /\ q \in Proc /\ q.state = p.state /\ q.ra = p.ra /\ q.pagetable = p.pagetable
          /\ q.trapframe = p.trapframe /\ q.user_stack = p.user_stack
          /\ q.pages = P /\ q.mapped = M
      BY <1>1, <2>2, <2>3 DEF Proc
    <2> QED BY <2>4 DEF P, M
  <1> HIDE DEF q
  <1>7. /\ proc' \in [Slots -> Proc]
        /\ \A j \in Slots : proc'[j] = IF j = current THEN q ELSE proc[j]
    BY <1>1, <1>3, <1>6
  <1>8. Live' = Live
    BY <1>6, <1>7 DEF Live
  <1>9. wiped' \in BOOLEAN
    BY <1>3 DEF kmem_alloc
  <1>10. TypeOK'
    BY <1>3, <1>4, <1>7, <1>9 DEF TypeOK, IInv
  <1>11. FiniteMaps'
    <2>1. IsFiniteSet(p.mapped)
      BY <1>1 DEF IInv, FiniteMaps
    <2>2. IsFiniteSet(q.mapped)
      BY <1>6, <2>1, FS_AddElement
    <2> QED BY <1>7, <2>2 DEF FiniteMaps, IInv
  <1>12. StackMapped' /\ LiveResumable'
    <2> SUFFICES ASSUME NEW j \in Live
                 PROVE  VA_USER_STACK \in proc'[j].mapped /\ proc'[j].ra # "kproc_free"
      BY <1>8 DEF StackMapped, LiveResumable, VA_USER_STACK
    <2>1. j \in Slots /\ VA_USER_STACK \in proc[j].mapped /\ proc[j].ra # "kproc_free"
      BY DEF Live, IInv, StackMapped, LiveResumable
    <2> QED BY <1>6, <1>7, <2>1
  <1>13. Owned(q) = Owned(p) \cup Alloced(m) /\ Roots(q) = Roots(p)
    BY <1>6 DEF Owned, Roots
  <1>14. \A j \in Live : Owned(proc[j]) \cap FreePages = {}
    BY DEF IInv, PageOwnership, LivePagesNotFree
  <1>15. \A j \in Live : j \in Slots /\ proc'[j] = IF j = current THEN q ELSE proc[j]
    BY <1>7 DEF Live
  <1>16. LivePagesNotFree'
    <2> SUFFICES ASSUME NEW j \in Live PROVE Owned(proc'[j]) \cap FreePages' = {}
      BY <1>8 DEF LivePagesNotFree
    <2> QED BY <1>4, <1>13, <1>14, <1>15
  <1>17. LivePagesDisjoint'
    <2> SUFFICES ASSUME NEW j \in Live, NEW l \in Live, j # l
                 PROVE  Owned(proc'[j]) \cap Owned(proc'[l]) = {}
      BY <1>8 DEF LivePagesDisjoint
    <2>1. Owned(proc[j]) \cap Owned(proc[l]) = {}
      BY DEF IInv, PageOwnership, LivePagesDisjoint
    <2>2. Owned(proc[j]) \cap Alloced(m) = {} /\ Owned(proc[l]) \cap Alloced(m) = {}
      BY <1>4, <1>14
    <2> QED BY <1>13, <1>15, <2>1, <2>2
  <1>18. RootsDistinct'
    <2> SUFFICES ASSUME NEW j \in Live
                 PROVE  /\ proc'[j].pagetable # proc'[j].trapframe
                        /\ proc'[j].pagetable # proc'[j].user_stack
                        /\ proc'[j].trapframe # proc'[j].user_stack
                        /\ Roots(proc'[j]) \cap proc'[j].pages = {}
      BY <1>8 DEF RootsDistinct
    <2>1. /\ proc[j].pagetable # proc[j].trapframe
          /\ proc[j].pagetable # proc[j].user_stack
          /\ proc[j].trapframe # proc[j].user_stack
          /\ Roots(proc[j]) \cap proc[j].pages = {}
      BY DEF IInv, PageOwnership, RootsDistinct
    <2>2. Roots(p) \cap Alloced(m) = {}
      BY <1>1, <1>4, <1>14 DEF Owned
    <2> QED BY <1>6, <1>13, <1>15, <2>1, <2>2
  <1>19. PageOwnership'
    BY <1>4, <1>16, <1>17, <1>18 DEF PageOwnership
  <1>20. RunsOnOwnRoot'
    BY <1>1, <1>3, <1>6, <1>7 DEF RunsOnOwnRoot, Live
  <1> QED BY <1>1, <1>3, <1>10, <1>11, <1>12, <1>19, <1>20
          DEF IInv, BootEmpty, NeverReturnsAfterFree

LEMMA FreeStep == IInv /\ kproc_free => IInv'
  <1> SUFFICES ASSUME IInv, kproc_free PROVE IInv'
    OBVIOUS
  <1> DEFINE p == proc[current]
             q == [p EXCEPT !.state = "UNUSED", !.ra = "kproc_free"]
  <1>1. current \in Live /\ current \in Slots /\ p \in Proc /\ proc \in [Slots -> Proc]
    BY DEF IInv, TypeOK, RunsOnOwnRoot, kproc_free, Live
  <1>2. /\ free' = Released(p) \o free
        /\ proc' = [proc EXCEPT ![current] = q]
        /\ mode' \in {"sched", "wild"}
        /\ current' = current /\ next' = next /\ satp' = satp /\ wiped' = wiped
    BY <1>1 DEF kproc_free, SchedulerMode, Proc
  <1>3. q \in Proc /\ q.state = "UNUSED" /\ q.mapped = p.mapped
    BY <1>1 DEF Proc, ResumePoints
  <1> HIDE DEF q
  <1>4. /\ proc' \in [Slots -> Proc] /\ free' \in Seq(Page)
        /\ FiniteMaps' /\ StackMapped' /\ LiveResumable' /\ PageOwnership'
    BY <1>1, <1>2, <1>3, ReleaseInv
  <1>5. TypeOK'
    BY <1>2, <1>4 DEF TypeOK, IInv, Modes, Stopped
  <1> QED BY <1>2, <1>4, <1>5 DEF IInv, BootEmpty, RunsOnOwnRoot, NeverReturnsAfterFree

LEMMA KillStep ==
  ASSUME IInv, NEW i \in Slots, kproc_kill(i)
  PROVE  IInv'
  <1> DEFINE p == proc[i]
             q == [p EXCEPT !.state = "UNUSED"]
  <1>1. /\ p \in Proc /\ proc \in [Slots -> Proc] /\ current \in Slots /\ i # current
        /\ proc[current].state = "RUNNABLE" /\ satp = proc[current].pagetable
    BY DEF IInv, TypeOK, RunsOnOwnRoot, kproc_kill
  <1>2. i \in Live
    BY <1>1 DEF kproc_kill, Live, Proc
  <1>3. /\ free' = Released(p) \o free
        /\ proc' = [proc EXCEPT ![i] = q]
        /\ mode = "user" /\ mode' = mode
        /\ current' = current /\ next' = next /\ satp' = satp /\ wiped' = wiped
    BY DEF kproc_kill
  <1>4. q \in Proc /\ q.state = "UNUSED" /\ q.mapped = p.mapped
    BY <1>1 DEF Proc
  <1> HIDE DEF q
  <1>5. /\ proc' \in [Slots -> Proc] /\ free' \in Seq(Page)
        /\ FiniteMaps' /\ StackMapped' /\ LiveResumable' /\ PageOwnership'
    BY <1>2, <1>3, <1>4, ReleaseInv
  <1>6. TypeOK'
    BY <1>3, <1>5 DEF TypeOK, IInv
  <1>7. proc'[current] = proc[current]
    BY <1>1, <1>3
  <1> QED BY <1>1, <1>3, <1>5, <1>6, <1>7
          DEF IInv, BootEmpty, RunsOnOwnRoot, NeverReturnsAfterFree

LEMMA SleepStep == IInv /\ ksys_sleep => IInv'
  <1> SUFFICES ASSUME IInv, ksys_sleep PROVE IInv'
    OBVIOUS
  <1> DEFINE q == [proc[current] EXCEPT !.ra = "ksys_sleep"]
  <1>1. current \in Slots /\ proc[current] \in Proc /\ proc \in [Slots -> Proc]
    BY DEF IInv, TypeOK
  <1>2. /\ proc' = [proc EXCEPT ![current] = q]
        /\ mode' \in {"sched", "wild"}
        /\ free' = free /\ current' = current /\ next' = next /\ satp' = satp /\ wiped' = wiped
    BY <1>1 DEF ksys_sleep, SchedulerMode
  <1>3. /\ q \in Proc
        /\ q.state = proc[current].state /\ q.mapped = proc[current].mapped
        /\ Owned(q) = Owned(proc[current]) /\ Roots(q) = Roots(proc[current])
        /\ q.pages = proc[current].pages
        /\ q.pagetable = proc[current].pagetable /\ q.trapframe = proc[current].trapframe
        /\ q.user_stack = proc[current].user_stack
        /\ q.ra # "kproc_free"
    BY <1>1 DEF Proc, ResumePoints, Owned, Roots
  <1> HIDE DEF q
  <1>4. /\ proc' \in [Slots -> Proc]
        /\ \A j \in Slots : proc'[j] = IF j = current THEN q ELSE proc[j]
    BY <1>1, <1>2, <1>3
  <1>5. /\ Live' = Live /\ FreePages' = FreePages
        /\ \A j \in Live : j \in Slots
    BY <1>2, <1>3, <1>4 DEF Live, FreePages
  <1>6. \A j \in Slots : /\ Owned(proc'[j]) = Owned(proc[j]) /\ Roots(proc'[j]) = Roots(proc[j])
                         /\ proc'[j].pages = proc[j].pages
                         /\ proc'[j].pagetable = proc[j].pagetable
                         /\ proc'[j].trapframe = proc[j].trapframe
                         /\ proc'[j].user_stack = proc[j].user_stack
                         /\ proc'[j].mapped = proc[j].mapped
    BY <1>3, <1>4
  <1>7. FiniteMaps'
    BY <1>6 DEF IInv, FiniteMaps
  <1>8. StackMapped'
    BY <1>5, <1>6 DEF IInv, StackMapped, VA_USER_STACK
  <1>9. LiveResumable'
    BY <1>3, <1>4, <1>5 DEF IInv, LiveResumable
  <1>10. FreeListDistinct' /\ LivePagesNotFree'
    BY <1>2, <1>5, <1>6 DEF IInv, PageOwnership, FreeListDistinct, LivePagesNotFree
  <1>11. LivePagesDisjoint'
    BY <1>5, <1>6 DEF IInv, PageOwnership, LivePagesDisjoint
  <1>12. RootsDistinct'
    BY <1>5, <1>6 DEF IInv, PageOwnership, RootsDistinct
  <1>13. TypeOK'
    BY <1>2, <1>4 DEF TypeOK, IInv, Modes, Stopped
  <1> QED BY <1>2, <1>7, <1>8, <1>9, <1>10, <1>11, <1>12, <1>13
          DEF IInv, PageOwnership, BootEmpty, RunsOnOwnRoot, NeverReturnsAfterFree

\* The three ways to stop, and stuttering.
LEMMA StopStep ==
  ASSUME IInv, NEW why \in {"oom", "nopcb", "fault"}, Stop(why)
  PROVE  IInv'
  <1>1. /\ mode' = why
        /\ proc' = proc /\ free' = free /\ current' = current /\ next' = next
        /\ satp' = satp /\ wiped' = wiped
    BY DEF Stop
  <1>2. FiniteMaps' /\ StackMapped' /\ LiveResumable' /\ PageOwnership'
    BY <1>1, SameProcAndFree
  <1>3. TypeOK'
    BY <1>1 DEF TypeOK, IInv, Modes, Stopped
  <1> QED BY <1>1, <1>2, <1>3 DEF IInv, BootEmpty, RunsOnOwnRoot, NeverReturnsAfterFree

LEMMA StutterStep == IInv /\ UNCHANGED vars => IInv'
  <1> SUFFICES ASSUME IInv, UNCHANGED vars PROVE IInv'
    OBVIOUS
  <1>1. /\ mode' = mode
        /\ proc' = proc /\ free' = free /\ current' = current /\ next' = next
        /\ satp' = satp /\ wiped' = wiped
    BY DEF vars
  <1>2. FiniteMaps' /\ StackMapped' /\ LiveResumable' /\ PageOwnership'
    BY <1>1, SameProcAndFree
  <1>3. TypeOK' /\ BootEmpty' /\ RunsOnOwnRoot' /\ NeverReturnsAfterFree'
    BY <1>1 DEF TypeOK, IInv, BootEmpty, RunsOnOwnRoot, NeverReturnsAfterFree, Live, FreePages
  <1> QED BY <1>2, <1>3 DEF IInv

\* The invariant is inductive.
LEMMA NextIInv == IInv /\ [Next]_vars => IInv'
  <1> SUFFICES ASSUME IInv, [Next]_vars PROVE IInv'
    OBVIOUS
  <1>1. CASE kproc_create
    BY <1>1, CreateStep
  <1>2. CASE kproc_scheduler
    BY <1>2, SchedulerStep
  <1>3. CASE kproc_fork
    BY <1>3, ForkStep
  <1>4. CASE \E f \in Files : kproc_exec(ElfPages[f])
    <2>1. PICK f \in Files : kproc_exec(ElfPages[f])
      BY <1>4
    <2>2. ElfPages[f] \in Nat
      BY FilesAssumption
    <2> QED BY <2>1, <2>2, ExecStep
  <1>5. CASE kproc_add_page
    BY <1>5, AddPageStep
  <1>6. CASE kproc_free
    BY <1>6, FreeStep
  <1>7. CASE \E i \in Slots : kproc_kill(i)
    BY <1>7, KillStep
  <1>8. CASE ksys_sleep
    BY <1>8, SleepStep
  <1>9. CASE OutOfMemory
    BY <1>9, StopStep DEF OutOfMemory
  <1>10. CASE NoFreePCB
    BY <1>10, StopStep DEF NoFreePCB
  <1>11. CASE UserFault
    BY <1>11, StopStep DEF UserFault
  <1>12. CASE kpanic
    BY <1>12, StutterStep DEF kpanic
  <1>13. CASE UNCHANGED vars
    BY <1>13, StutterStep
  <1> QED BY <1>1, <1>2, <1>3, <1>4, <1>5, <1>6, <1>7, <1>8, <1>9, <1>10, <1>11, <1>12, <1>13
          DEF Next

----------------------------------------------------------------------------
(***************************************************************************)
(* Theorems                                                                *)
(***************************************************************************)
THEOREM Invariance == Spec => []IInv
  <1>1. Init => IInv
    BY InitIInv
  <1>2. IInv /\ [Next]_vars => IInv'
    BY NextIInv
  <1> QED BY <1>1, <1>2, PTL DEF Spec

\* The variables of the process table and the allocator keep their types; the
\* scheduler never indexes outside proc_array.
THEOREM TypeCorrect == Spec => []TypeOK
  <1>1. IInv => TypeOK
    BY DEF IInv
  <1> QED BY <1>1, Invariance, PTL

\* However processes are created, forked, replaced, grown, ended and killed,
\* no page of memory has two owners and none is freed twice.
THEOREM PagesHaveOneOwner == Spec => []PageOwnership
  <1>1. IInv => PageOwnership
    BY DEF IInv
  <1> QED BY <1>1, Invariance, PTL

\* User mode is only ever entered on the page table of a live process.
THEOREM OwnRoot == Spec => []RunsOnOwnRoot
  <1>1. IInv => RunsOnOwnRoot
    BY DEF IInv
  <1> QED BY <1>1, Invariance, PTL

\* The kpanic at the end of kproc_free is unreachable.
THEOREM FreeNeverReturns == Spec => []NeverReturnsAfterFree
  <1>1. IInv => NeverReturnsAfterFree
    BY DEF IInv
  <1> QED BY <1>1, Invariance, PTL

----------------------------------------------------------------------------
(***************************************************************************)
(* The root in satp                                                        *)
(***************************************************************************)

\* Pages are handed out only in user mode and at boot, when satp holds a root
\* that is not free; so a root freed by kproc_free stays untouched until
\* another one is loaded.
LEMMA RootStep ==
  ASSUME IInv, [Next]_vars, satp \in FreePages
  PROVE  satp \in FreePages'
  <1>1. mode # "user"
    <2> SUFFICES ASSUME mode = "user" PROVE FALSE
      OBVIOUS
    <2>1. current \in Live /\ satp = proc[current].pagetable
      BY DEF IInv, TypeOK, RunsOnOwnRoot, Live
    <2>2. satp \in Owned(proc[current])
      BY <2>1 DEF Owned, Roots
    <2> QED BY <2>1, <2>2 DEF IInv, PageOwnership, LivePagesNotFree
  <1>2. mode # "boot"
    BY DEF IInv, BootEmpty
  <1>3. free' = free
    BY <1>1, <1>2 DEF Next, kproc_create, kproc_scheduler, ktrap_to_user, kproc_fork, kproc_exec,
       kproc_add_page, kproc_free, kproc_kill, ksys_sleep, OutOfMemory, NoFreePCB,
       UserFault, kpanic, Stop, vars
  <1> QED BY <1>3 DEF FreePages

\* The page-table root the hart is using is never handed out again, although
\* kproc_free gives it to the allocator before the switch.
THEOREM RootNotRecycled == Spec => LoadedRootNotRecycled
  <1>1. IInv /\ [Next]_vars => [(satp \in FreePages) => (satp \in FreePages')]_vars
    BY RootStep
  <1> QED BY <1>1, Invariance, PTL DEF Spec, LoadedRootNotRecycled

----------------------------------------------------------------------------
(***************************************************************************)
(* The heap budget                                                         *)
(***************************************************************************)
LEMMA LiveCount ==
  /\ IsFiniteSet(Live) /\ Cardinality(Live) \in Nat
  /\ \A i : i \notin Live => Cardinality(Live \cup {i}) = Cardinality(Live) + 1
  /\ \A i : i \in Live => Cardinality(Live \ {i}) = Cardinality(Live) - 1
  <1>1. IsFiniteSet(Slots)
    BY SlotsAssumption, FS_Interval DEF Slots
  <1>2. Live \in SUBSET Slots
    BY DEF Live
  <1>3. IsFiniteSet(Live)
    BY <1>1, <1>2, FS_Subset
  <1> QED BY <1>3, FS_CardinalityType, FS_AddElement, FS_RemoveElement

\* The sum in HeapBudget when the heap moves by at most d, m pages are taken and
\* at most one slot becomes live.
LEMMA BudgetLoad ==
  ASSUME NEW h \in Nat, NEW h1 \in Nat, NEW L \in Nat, NEW L1, NEW C \in Nat, NEW C1 \in Nat,
         NEW B \in Nat, NEW M \in Nat, NEW d \in Nat, NEW m \in Nat,
         h + L + 3 * C + B <= M, h1 <= h + d, L1 = L - m, C1 <= C + 1, m >= d + 3
  PROVE  h1 + L1 + 3 * C1 + B <= M
  OBVIOUS

\* The sum when one page of heap is added and m pages are taken.
LEMMA BudgetGrow ==
  ASSUME NEW h \in Nat, NEW h1 \in Nat, NEW L \in Nat, NEW L1, NEW C \in Nat,
         NEW B \in Nat, NEW M \in Nat, NEW m \in Nat,
         h + L + 3 * C + B <= M, h1 <= h + 1, L1 = L - m, m >= 1
  PROVE  h1 + L1 + 3 * C + B <= M
  OBVIOUS

\* The sum when three pages come back for one slot.
LEMMA BudgetBack ==
  ASSUME NEW h \in Nat, NEW L \in Nat, NEW L1, NEW C \in Nat, NEW C1, NEW B \in Nat, NEW M \in Nat,
         h + L + 3 * C + B <= M, L1 = L + 3, C1 = C - 1
  PROVE  h + L1 + 3 * C1 + B <= M
  OBVIOUS

\* A new image in slot i costs at least d + 3 pages if it moves the heap by d,
\* and 3 of them are counted as coming back if the slot was empty.
LEMMA NewImageBudget ==
  ASSUME IInv, HeapBudget, NEW i \in Slots, NEW m \in Nat, NEW q, NEW d \in Nat,
         CanAlloc(m), kmem_alloc(m), Fresh(q, m), proc' = [proc EXCEPT ![i] = q],
         m >= d + 3, q.free_heap_page = proc[i].free_heap_page + d
  PROVE  HeapBudget'
  <1>1. Live' = Live \cup {i} /\ Len(free') = Len(free) - m /\ free' \in Seq(Page)
    BY NewImageInv
  <1>2. Cardinality(Live) \in Nat /\ Cardinality(Live') \in Nat /\ Cardinality(Live') <= Cardinality(Live) + 1
    <2>1. CASE i \in Live
      <3>1. Live' = Live
        BY <1>1, <2>1
      <3> QED BY <3>1, LiveCount
    <2>2. CASE i \notin Live
      BY <1>1, <2>2, LiveCount
    <2> QED BY <2>1, <2>2
  <1>3. \A j \in Slots : /\ proc[j].free_heap_page \in Nat
                         /\ proc'[j].free_heap_page <= proc[j].free_heap_page + d
                         /\ proc'[j].free_heap_page \in Nat
    <2> SUFFICES ASSUME NEW j \in Slots
                 PROVE  /\ proc[j].free_heap_page \in Nat
                        /\ proc'[j].free_heap_page <= proc[j].free_heap_page + d
                        /\ proc'[j].free_heap_page \in Nat
      OBVIOUS
    <2>1. proc[j].free_heap_page \in Nat /\ proc[i].free_heap_page \in Nat
      BY DEF IInv, TypeOK, Proc
    <2>2. proc'[j] = IF j = i THEN q ELSE proc[j]
      BY DEF IInv, TypeOK
    <2> QED BY <2>1, <2>2
  <1>4. BootPages \in Nat /\ NumPages \in Nat /\ BootPages' = BootPages /\ Len(free) \in Nat
    BY MemoryAssumption DEF BootPages, IInv, TypeOK
  <1> SUFFICES ASSUME NEW j \in Slots
               PROVE  proc'[j].free_heap_page + Len(free') + 3 * Cardinality(Live') + BootPages <= NumPages
    BY <1>4 DEF HeapBudget
  <1>5. proc[j].free_heap_page + Len(free) + 3 * Cardinality(Live) + BootPages <= NumPages
    BY DEF HeapBudget
  <1>7. /\ proc[j].free_heap_page \in Nat /\ proc'[j].free_heap_page \in Nat
        /\ proc'[j].free_heap_page <= proc[j].free_heap_page + d
    BY <1>3
  <1> QED BY <1>1, <1>2, <1>4, <1>5, <1>7, BudgetLoad

\* Emptying a live slot gives back the 3 pages counted for it.
LEMMA ReleaseBudget ==
  ASSUME IInv, HeapBudget, NEW i \in Live, NEW q \in Proc, q.state = "UNUSED",
         q.mapped = proc[i].mapped, q.free_heap_page = proc[i].free_heap_page,
         free' = Released(proc[i]) \o free, proc' = [proc EXCEPT ![i] = q]
  PROVE  HeapBudget'
  <1>1. Live' = Live \ {i} /\ Len(free') = Len(free) + 3
    BY ReleaseInv
  <1>2. Cardinality(Live) \in Nat /\ Cardinality(Live') = Cardinality(Live) - 1
    BY <1>1, LiveCount
  <1>3. \A j \in Slots : /\ proc[j].free_heap_page \in Nat
                         /\ proc'[j].free_heap_page = proc[j].free_heap_page
    BY DEF IInv, TypeOK, Proc
  <1>4. BootPages \in Nat /\ NumPages \in Nat /\ BootPages' = BootPages /\ Len(free) \in Nat
    BY MemoryAssumption DEF BootPages, IInv, TypeOK
  <1> SUFFICES ASSUME NEW j \in Slots
               PROVE  proc'[j].free_heap_page + Len(free') + 3 * Cardinality(Live') + BootPages <= NumPages
    BY <1>4 DEF HeapBudget
  <1>5. proc[j].free_heap_page + Len(free) + 3 * Cardinality(Live) + BootPages <= NumPages
    BY DEF HeapBudget
  <1>6. proc[j].free_heap_page \in Nat /\ proc'[j].free_heap_page = proc[j].free_heap_page
    BY <1>3
  <1> QED BY <1>1, <1>2, <1>4, <1>5, <1>6, BudgetBack

LEMMA NextBudget == IInv /\ HeapBudget /\ [Next]_vars => HeapBudget'
  <1> SUFFICES ASSUME IInv, HeapBudget, [Next]_vars PROVE HeapBudget'
    OBVIOUS
  <1>0. /\ free \in Seq(Page) /\ FreeListDistinct /\ proc \in [Slots -> Proc]
        /\ current \in Slots /\ Len(free) \in Nat
    BY DEF IInv, TypeOK, PageOwnership
  <1>1. CASE kproc_create
    <2> DEFINE n == ElfPages[Shell]
    <2>1. n \in Nat
      BY FilesAssumption
    <2> HIDE DEF n
    <2>2. PICK i \in Slots :
            /\ CanAlloc(LoadPages(n)) /\ kmem_alloc(LoadPages(n))
            /\ proc' = [proc EXCEPT ![i] = Loaded(proc[i], n, "create")]
      BY <1>1 DEF kproc_create, n
    <2>3. LoadPages(n) \in Nat /\ LoadPages(n) >= n + 3
      BY <2>1, LoadSizes
    <2>4. LoadPages(n) >= 0 + 3 /\ proc[i] \in Proc /\ proc[i].free_heap_page \in Nat
      BY <1>0, <2>1, <2>3 DEF Proc
    <2>5. /\ Fresh(Loaded(proc[i], n, "create"), LoadPages(n))
          /\ Loaded(proc[i], n, "create").free_heap_page = proc[i].free_heap_page
      BY <1>0, <2>1, <2>2, <2>4, LoadedFresh
    <2>6. Loaded(proc[i], n, "create").free_heap_page = proc[i].free_heap_page + 0
      BY <2>4, <2>5
    <2> QED BY <2>2, <2>3, <2>4, <2>5, <2>6, NewImageBudget
  <1>2. CASE kproc_fork
    <2> DEFINE p == proc[current]
    <2>1. current \in Live /\ p \in Proc
      BY <1>0, <1>2 DEF IInv, RunsOnOwnRoot, kproc_fork, Live
    <2>2. IsFiniteSet(p.mapped) /\ VA_USER_STACK \in p.mapped
      BY <1>0, <2>1 DEF IInv, FiniteMaps, StackMapped
    <2>3. PICK i \in Slots :
            /\ CanAlloc(ForkPages(p)) /\ kmem_alloc(ForkPages(p))
            /\ proc' = [proc EXCEPT ![i] = Forked(proc[i], p)]
      BY <1>2 DEF kproc_fork
    <2> HIDE DEF p
    <2>4. ForkPages(p) \in Nat /\ ForkPages(p) >= 0 + 3
      BY <2>1, <2>2, ForkSizes
    <2>5. proc[i] \in Proc /\ proc[i].free_heap_page \in Nat
      BY <1>0 DEF Proc
    <2>6. /\ Fresh(Forked(proc[i], p), ForkPages(p))
          /\ Forked(proc[i], p).free_heap_page = proc[i].free_heap_page
      BY <1>0, <2>1, <2>2, <2>3, <2>5, ForkedFresh
    <2>7. Forked(proc[i], p).free_heap_page = proc[i].free_heap_page + 0
      BY <2>5, <2>6
    <2> QED BY <2>3, <2>4, <2>6, <2>7, NewImageBudget
  <1>3. CASE \E f \in Files : kproc_exec(ElfPages[f])
    <2>1. PICK n \in Nat : kproc_exec(n)
      BY <1>3, FilesAssumption
    <2> DEFINE q0 == Loaded(proc[current], n, "exec")
               q  == [q0 EXCEPT !.free_heap_page = proc[current].free_heap_page + n]
    <2>2. /\ CanAlloc(LoadPages(n)) /\ kmem_alloc(LoadPages(n))
          /\ proc' = [proc EXCEPT ![current] = q]
      BY <2>1 DEF kproc_exec
    <2>3. LoadPages(n) \in Nat /\ LoadPages(n) >= n + 3
      BY LoadSizes
    <2>4. proc[current] \in Proc /\ proc[current].free_heap_page \in Nat
      BY <1>0 DEF Proc
    <2>5. Fresh(q0, LoadPages(n))
      BY <1>0, <2>2, <2>4, LoadedFresh
    <2> HIDE DEF q0
    <2>6. Fresh(q, LoadPages(n)) /\ q.free_heap_page = proc[current].free_heap_page + n
      <3>1. q0 \in Proc
        BY <2>5 DEF Fresh
      <3>2. q \in Proc /\ q.free_heap_page = proc[current].free_heap_page + n
        BY <2>4, <3>1 DEF Proc
      <3>3. /\ q.state = q0.state /\ q.ra = q0.ra /\ q.pagetable = q0.pagetable
            /\ q.trapframe = q0.trapframe /\ q.user_stack = q0.user_stack
            /\ q.pages = q0.pages /\ q.mapped = q0.mapped
        BY <3>1 DEF Proc
      <3> QED BY <2>5, <3>2, <3>3 DEF Fresh, Owned, Roots
    <2> HIDE DEF q
    <2> QED BY <1>0, <2>2, <2>3, <2>6, NewImageBudget
  <1>4. CASE kproc_free
    <2> DEFINE q == [proc[current] EXCEPT !.state = "UNUSED", !.ra = "kproc_free"]
    <2>1. current \in Live /\ proc[current] \in Proc
      BY <1>0, <1>4 DEF IInv, RunsOnOwnRoot, kproc_free, Live
    <2>2. free' = Released(proc[current]) \o free /\ proc' = [proc EXCEPT ![current] = q]
      BY <1>0, <1>4 DEF kproc_free, Proc
    <2>3. /\ q \in Proc /\ q.state = "UNUSED" /\ q.mapped = proc[current].mapped
          /\ q.free_heap_page = proc[current].free_heap_page
      BY <2>1 DEF Proc, ResumePoints
    <2> HIDE DEF q
    <2> QED BY <2>1, <2>2, <2>3, ReleaseBudget
  <1>5. CASE \E i \in Slots : kproc_kill(i)
    <2>1. PICK i \in Slots : kproc_kill(i)
      BY <1>5
    <2> DEFINE q == [proc[i] EXCEPT !.state = "UNUSED"]
    <2>2. i \in Live /\ proc[i] \in Proc
      BY <1>0, <2>1 DEF kproc_kill, Live, Proc
    <2>3. free' = Released(proc[i]) \o free /\ proc' = [proc EXCEPT ![i] = q]
      BY <2>1 DEF kproc_kill
    <2>4. /\ q \in Proc /\ q.state = "UNUSED" /\ q.mapped = proc[i].mapped
          /\ q.free_heap_page = proc[i].free_heap_page
      BY <2>2 DEF Proc
    <2> HIDE DEF q
    <2> QED BY <2>2, <2>3, <2>4, ReleaseBudget
  <1>6. CASE kproc_add_page
    <2> DEFINE p == proc[current]
               m == HeapPages(p)
    <2>1. m \in Nat /\ m >= 1
      BY DEF HeapPages
    <2>2. CanAlloc(m) /\ kmem_alloc(m)
      BY <1>6 DEF kproc_add_page
    <2>3. Len(free') = Len(free) - m
      BY <1>0, <2>1, <2>2, TakeFacts
    <2>4. \A j \in Slots : /\ proc'[j].state = proc[j].state
                           /\ proc[j].free_heap_page \in Nat
                           /\ proc'[j].free_heap_page =
                                IF j = current THEN proc[j].free_heap_page + 1
                                ELSE proc[j].free_heap_page
      BY <1>0, <1>6 DEF kproc_add_page, Proc
    <2>5. Live' = Live /\ Cardinality(Live) \in Nat
      BY <2>4, LiveCount DEF Live
    <2>6. BootPages \in Nat /\ NumPages \in Nat /\ BootPages' = BootPages
      BY MemoryAssumption DEF BootPages
    <2> HIDE DEF m
    <2> SUFFICES ASSUME NEW j \in Slots
                 PROVE  proc'[j].free_heap_page + Len(free') + 3 * Cardinality(Live') + BootPages <= NumPages
      BY <2>6 DEF HeapBudget
    <2>7. proc[j].free_heap_page + Len(free) + 3 * Cardinality(Live) + BootPages <= NumPages
      BY DEF HeapBudget
    <2>9. /\ proc[j].free_heap_page \in Nat /\ proc'[j].free_heap_page \in Nat
          /\ proc'[j].free_heap_page <= proc[j].free_heap_page + 1
      BY <2>4
    <2> QED BY <1>0, <2>1, <2>3, <2>5, <2>6, <2>7, <2>9, BudgetGrow
  <1>7. CASE ksys_sleep
    <2>1. /\ free' = free
          /\ \A j \in Slots : proc'[j].state = proc[j].state /\ proc'[j].free_heap_page = proc[j].free_heap_page
      BY <1>0, <1>7 DEF ksys_sleep, Proc
    <2>2. Live' = Live
      BY <2>1 DEF Live
    <2> QED BY <2>1, <2>2 DEF HeapBudget, BootPages
  <1>8. CASE proc' = proc /\ free' = free
    BY <1>8 DEF HeapBudget, Live, BootPages
  <1> QED BY <1>1, <1>2, <1>3, <1>4, <1>5, <1>6, <1>7, <1>8
          DEF Next, kproc_scheduler, ktrap_to_user, OutOfMemory, NoFreePCB, UserFault, kpanic, Stop, vars

\* Every step of a slot's free_heap_page is paid for with memory that never
\* comes back.
THEOREM HeapIsPaidFor == Spec => []HeapBudget
  <1>1. Init => HeapBudget
    <2> SUFFICES ASSUME Init PROVE HeapBudget
      OBVIOUS
    <2>1. Live = {} /\ \A i \in Slots : proc[i].free_heap_page = 0
      BY DEF Init, kmem_init, kproc_init, Live
    <2>2. NumPages - BootPages \in Nat /\ BootPages \in Nat /\ NumPages \in Nat
      BY MemoryAssumption DEF BootPages
    <2>3. Len(free) = NumPages - BootPages
      BY <2>2 DEF Init, kmem_init, kproc_init
    <2>4. Cardinality(Live) = 0
      BY <2>1, FS_EmptySet
    <2> QED BY <2>1, <2>2, <2>3, <2>4 DEF HeapBudget
  <1>2. IInv /\ HeapBudget /\ [Next]_vars => HeapBudget'
    BY NextBudget
  <1> QED BY <1>1, <1>2, Invariance, PTL DEF Spec

\* So sbrk never maps a heap page over the user stack or the trap frame, on any
\* machine whose memory is smaller than the user half of the address space.
THEOREM HeapStaysBelowStack == Spec => [](\A i \in Slots : proc[i].free_heap_page < VA_USER_STACK)
  <1>1. IInv /\ HeapBudget => \A i \in Slots : proc[i].free_heap_page < VA_USER_STACK
    <2> SUFFICES ASSUME IInv, HeapBudget, NEW i \in Slots
                 PROVE  proc[i].free_heap_page < VA_USER_STACK
      OBVIOUS
    <2>1. proc[i].free_heap_page \in Nat /\ Len(free) \in Nat
      BY DEF IInv, TypeOK, Proc
    <2>2. Cardinality(Live) \in Nat
      BY LiveCount
    <2>3. proc[i].free_heap_page + Len(free) + 3 * Cardinality(Live) + BootPages <= NumPages
      BY DEF HeapBudget
    <2> QED BY <2>1, <2>2, <2>3, MemoryAssumption, SpaceAssumption DEF BootPages, VA_USER_STACK
  <1> QED BY <1>1, Invariance, HeapIsPaidFor, PTL

----------------------------------------------------------------------------
(***************************************************************************)
(* The process table implements the life cycle of ProcLife, and the life   *)
(* cycle keeps its promise                                                 *)
(***************************************************************************)

\* The life cycle's own view of who runs, as steps of Live, current and mode.
LEMMA CpuFacts ==
  /\ CpuOf("boot") = "boot" /\ CpuOf("user") = "user"
  /\ CpuOf("sched") = "kernel" /\ CpuOf("wild") = "kernel"
  /\ CpuOf("oom") = "stopped" /\ CpuOf("nopcb") = "stopped" /\ CpuOf("fault") = "stopped"
  BY DEF CpuOf

LEMMA LifeInitStep == Init => Life!LifeInit
  <1> SUFFICES ASSUME Init PROVE Live = {} /\ current = 0 /\ CpuOf(mode) = "boot"
    BY DEF Life!LifeInit
  <1> QED BY CpuFacts DEF Init, kmem_init, kproc_init, Live

\* Every step is a step of the life cycle or changes nothing it can see.
LEMMA LifeNextStep ==
  ASSUME IInv, [Next]_vars
  PROVE  [Life!LifeNext]_(Life!lifeVars)
  <1> USE DEF Life!LifeNext, Life!lifeVars
  <1>0. /\ proc \in [Slots -> Proc] /\ current \in Slots /\ Life!Slots = Slots
        /\ free \in Seq(Page) /\ FreeListDistinct
    BY DEF IInv, TypeOK, PageOwnership, Life!Slots, Slots
  <1>1. CASE kproc_create
    <2>1. mode = "boot" /\ Live = {} /\ mode' \in {"sched", "wild"} /\ current' = current
      BY <1>1 DEF IInv, BootEmpty, kproc_create, SchedulerMode
    <2>2. PICK i \in Slots : /\ FirstUnused(i)
                             /\ proc' = [proc EXCEPT ![i] = Loaded(proc[i], ElfPages[Shell], "create")]
      BY <1>1 DEF kproc_create
    <2>3. \A j \in Slots : proc[j].state = "UNUSED"
      BY <1>0, <2>1 DEF Live, Proc
    <2>4. i = 0
      BY <2>2, <2>3, SlotsAssumption DEF FirstUnused, Slots
    <2>5. Loaded(proc[i], ElfPages[Shell], "create").state = "RUNNABLE"
      BY <1>0 DEF Loaded, Proc
    <2>6. Live' = {0}
      BY <1>0, <2>2, <2>3, <2>4, <2>5 DEF Live
    <2>7. Life!Create
      BY <2>1, <2>6, CpuFacts DEF Life!Create
    <2> QED BY <2>7
  <1>2. CASE kproc_scheduler
    <2>1. mode = "sched" /\ proc' = proc /\ next \in Slots
      BY <1>2 DEF kproc_scheduler, ktrap_to_user, IInv, TypeOK
    <2>2. Live' = Live
      BY <2>1 DEF Live
    <2>3. CASE proc[next].state = "RUNNABLE"
      <3>1. next \in Live
        BY <2>1, <2>3 DEF Live
      <3>2. proc[next].ra # "kproc_free"
        BY <3>1 DEF IInv, LiveResumable
      <3>3. current' = next /\ mode' = "user"
        BY <1>2, <2>3, <3>2 DEF kproc_scheduler, ktrap_to_user
      <3>4. Life!Dispatch(next)
        BY <2>1, <2>2, <3>1, <3>3, CpuFacts DEF Life!Dispatch
      <3> QED BY <1>0, <2>1, <3>4
    <2>4. CASE proc[next].state # "RUNNABLE"
      <3>1. current' = current /\ mode' = mode
        BY <1>2, <2>4 DEF kproc_scheduler, ktrap_to_user
      <3> QED BY <2>2, <3>1
    <2> QED BY <2>3, <2>4
  <1>3. CASE kproc_fork
    <2>1. mode = "user" /\ mode' = mode /\ current' = current
      BY <1>3 DEF kproc_fork
    <2>2. PICK i \in Slots : /\ FirstUnused(i)
                             /\ proc' = [proc EXCEPT ![i] = Forked(proc[i], proc[current])]
      BY <1>3 DEF kproc_fork
    <2>3. Forked(proc[i], proc[current]).state = "RUNNABLE"
      BY <1>0 DEF Forked, Proc
    <2>4. Live' = Live \cup {i}
      BY <1>0, <2>2, <2>3 DEF Live
    <2>5. i \in Slots \ Live /\ \A j \in Slots : j < i => j \in Live
      BY <1>0, <2>2 DEF FirstUnused, Live, Proc
    <2>6. Life!Fork(i)
      BY <1>0, <2>1, <2>4, <2>5, CpuFacts DEF Life!Fork
    <2> QED BY <1>0, <2>6
  <1>4. CASE \E f \in Files : kproc_exec(ElfPages[f])
    <2>1. PICK n : kproc_exec(n)
      BY <1>4
    <2>2. mode' = mode /\ current' = current /\ mode = "user"
      BY <2>1 DEF kproc_exec
    <2>3. current \in Live
      BY <1>0, <2>2 DEF IInv, RunsOnOwnRoot, Live
    <2>4. /\ \A j \in Slots : j # current => proc'[j] = proc[j]
          /\ proc'[current].state = "RUNNABLE"
      BY <1>0, <2>1 DEF kproc_exec, Loaded, Proc
    <2>5. Live' = Live
      BY <2>3, <2>4 DEF Live
    <2> QED BY <2>2, <2>5
  <1>5. CASE kproc_add_page
    <2>1. /\ mode' = mode /\ current' = current
          /\ \A j \in Slots : proc'[j].state = proc[j].state
      BY <1>0, <1>5 DEF kproc_add_page, Proc
    <2>2. Live' = Live
      BY <2>1 DEF Live
    <2> QED BY <2>1, <2>2
  <1>6. CASE kproc_free
    <2>1. /\ mode = "user" /\ mode' \in {"sched", "wild"} /\ current' = current
          /\ \A j \in Slots : j # current => proc'[j] = proc[j]
          /\ proc'[current].state = "UNUSED"
      BY <1>0, <1>6 DEF kproc_free, SchedulerMode, Proc
    <2>2. Live' = Live \ {current}
      BY <2>1 DEF Live
    <2>3. Life!Exit
      BY <2>1, <2>2, CpuFacts DEF Life!Exit
    <2> QED BY <2>3
  <1>7. CASE \E i \in Slots : kproc_kill(i)
    <2>1. PICK i \in Slots : kproc_kill(i)
      BY <1>7
    <2>2. /\ mode = "user" /\ mode' = mode /\ current' = current /\ i # current
          /\ \A j \in Slots : j # i => proc'[j] = proc[j]
          /\ proc'[i].state = "UNUSED"
          /\ i \in Live
      BY <1>0, <2>1 DEF kproc_kill, Proc, Live
    <2>3. Live' = Live \ {i}
      BY <2>2 DEF Live
    <2>4. Life!Kill(i)
      BY <2>2, <2>3, CpuFacts DEF Life!Kill
    <2> QED BY <1>0, <2>1, <2>4
  <1>8. CASE ksys_sleep
    <2>1. /\ mode = "user" /\ mode' \in {"sched", "wild"} /\ current' = current
          /\ \A j \in Slots : proc'[j].state = proc[j].state
      BY <1>0, <1>8 DEF ksys_sleep, SchedulerMode, Proc
    <2>2. Live' = Live
      BY <2>1 DEF Live
    <2>3. Life!Yield
      BY <2>1, <2>2, CpuFacts DEF Life!Yield
    <2> QED BY <2>3
  <1>9. CASE OutOfMemory \/ NoFreePCB \/ UserFault
    <2>1. /\ mode \in {"boot", "user"} /\ mode' \in {"oom", "nopcb", "fault"}
          /\ proc' = proc /\ current' = current
      BY <1>9 DEF OutOfMemory, NoFreePCB, UserFault, Stop
    <2>2. Live' = Live
      BY <2>1 DEF Live
    <2>3. Life!Halt
      BY <2>1, <2>2, CpuFacts DEF Life!Halt
    <2> QED BY <2>3
  <1>10. CASE kpanic \/ UNCHANGED vars
    <2>1. mode' = mode /\ current' = current /\ proc' = proc
      BY <1>10 DEF kpanic, vars
    <2> QED BY <2>1 DEF Live
  <1> QED BY <1>1, <1>2, <1>3, <1>4, <1>5, <1>6, <1>7, <1>8, <1>9, <1>10 DEF Next

\* The kernel's process table, page tables, allocator and all, behaves as the
\* life cycle says, for every number of slots and pages.
THEOREM Refinement == Spec => ImplementsLife
  <1>1. Init => Life!LifeInit
    BY LifeInitStep
  <1>2. IInv /\ [Next]_vars => [Life!LifeNext]_(Life!lifeVars)
    BY LifeNextStep
  <1> QED BY <1>1, <1>2, Invariance, PTL DEF Spec, ImplementsLife, Life!LifeSpec

----------------------------------------------------------------------------
\* An exec moves free_heap_page past the pages it maps, and sbrk keeps it there.
LEMMA NextExecHeap == IInv /\ ExecHeapFresh /\ [Next]_vars => ExecHeapFresh'
  <1> SUFFICES ASSUME IInv, ExecHeapFresh, [Next]_vars, NEW i \in Live', proc'[i].image = "exec"
               PROVE  proc'[i].mapped \subseteq
                        (0 .. proc'[i].free_heap_page - 1) \cup {VA_USER_STACK, VA_TRAPFRAME}
    BY DEF ExecHeapFresh, VA_USER_STACK, VA_TRAPFRAME
  <1>0. /\ proc \in [Slots -> Proc] /\ current \in Slots /\ i \in Slots
        /\ proc[i] \in Proc /\ proc[current] \in Proc
        /\ proc[i].free_heap_page \in Nat /\ proc[current].free_heap_page \in Nat
        /\ free \in Seq(Page) /\ FreeListDistinct
    BY DEF IInv, TypeOK, PageOwnership, Live, Proc
  <1>1. CASE proc'[i].mapped = proc[i].mapped /\ proc'[i].free_heap_page = proc[i].free_heap_page
             /\ proc[i].image = "exec" /\ i \in Live
    BY <1>1 DEF ExecHeapFresh
  <1>2. CASE kproc_create
    <2>1. PICK j \in Slots :
            proc' = [proc EXCEPT ![j] = Loaded(proc[j], ElfPages[Shell], "create")]
      BY <1>2 DEF kproc_create
    <2>2. Loaded(proc[j], ElfPages[Shell], "create").image = "create"
      BY <1>0 DEF Loaded, Proc
    <2>3. i # j
      BY <1>0, <2>1, <2>2
    <2>4. proc'[i] = proc[i]
      BY <1>0, <2>1, <2>3
    <2> QED BY <1>1, <2>4 DEF Live
  <1>3. CASE kproc_fork
    <2>1. PICK j \in Slots : proc' = [proc EXCEPT ![j] = Forked(proc[j], proc[current])]
      BY <1>3 DEF kproc_fork
    <2>2. Forked(proc[j], proc[current]).image = "fork"
      BY <1>0 DEF Forked, Proc
    <2>3. i # j
      BY <1>0, <2>1, <2>2
    <2>4. proc'[i] = proc[i]
      BY <1>0, <2>1, <2>3
    <2> QED BY <1>1, <2>4 DEF Live
  <1>4. CASE \E f \in Files : kproc_exec(ElfPages[f])
    <2>1. PICK n \in Nat : kproc_exec(n)
      BY <1>4, FilesAssumption
    <2>2. CASE i = current
      <3> DEFINE q0 == Loaded(proc[current], n, "exec")
      <3>1. q0.mapped = Image(n) /\ q0 \in Proc
        BY <1>0, <2>1, LoadedFresh DEF kproc_exec, Fresh
      <3>2. proc'[i] = [q0 EXCEPT !.free_heap_page = proc[current].free_heap_page + n]
        BY <1>0, <2>1, <2>2 DEF kproc_exec
      <3> HIDE DEF q0
      <3>3. proc'[i].mapped = Image(n) /\ proc'[i].free_heap_page = proc[current].free_heap_page + n
        BY <3>1, <3>2 DEF Proc
      <3> QED BY <1>0, <3>3 DEF Image
    <2>3. CASE i # current
      <3>1. proc'[i] = proc[i]
        BY <1>0, <2>1, <2>3 DEF kproc_exec
      <3> QED BY <1>1, <3>1 DEF Live
    <2> QED BY <2>2, <2>3
  <1>5. CASE kproc_add_page
    <2>1. CASE i = current
      <3>1. /\ proc'[i].mapped = proc[i].mapped \cup {proc[i].free_heap_page}
            /\ proc'[i].free_heap_page = proc[i].free_heap_page + 1
            /\ proc'[i].image = proc[i].image /\ proc'[i].state = proc[i].state
        BY <1>0, <1>5, <2>1 DEF kproc_add_page, Proc
      <3>2. proc[i].mapped \subseteq (0 .. proc[i].free_heap_page - 1) \cup {VA_USER_STACK, VA_TRAPFRAME}
        BY <3>1 DEF Live, ExecHeapFresh
      <3> QED BY <1>0, <3>1, <3>2
    <2>2. CASE i # current
      <3>1. proc'[i] = proc[i]
        BY <1>0, <1>5, <2>2 DEF kproc_add_page
      <3> QED BY <1>1, <3>1 DEF Live
    <2> QED BY <2>1, <2>2
  <1>6. CASE kproc_free \/ ksys_sleep \/ \E j \in Slots : kproc_kill(j)
    <2>1. /\ proc'[i].mapped = proc[i].mapped
          /\ proc'[i].free_heap_page = proc[i].free_heap_page
          /\ proc'[i].image = proc[i].image
          /\ proc'[i].state \in {proc[i].state, "UNUSED"}
      BY <1>0, <1>6 DEF kproc_free, ksys_sleep, kproc_kill, Proc
    <2> QED BY <1>1, <2>1 DEF Live
  <1>7. CASE proc' = proc
    BY <1>1, <1>7 DEF Live
  <1> QED BY <1>2, <1>3, <1>4, <1>5, <1>6, <1>7
          DEF Next, kproc_scheduler, ktrap_to_user, OutOfMemory, NoFreePCB, UserFault, kpanic, Stop, vars

\* A program started by exec never has a page of its image replaced by sbrk.
THEOREM ExecHeap == Spec => []ExecHeapFresh
  <1>1. Init => ExecHeapFresh
    BY DEF Init, kmem_init, kproc_init, ExecHeapFresh, Live
  <1>2. IInv /\ ExecHeapFresh /\ [Next]_vars => ExecHeapFresh'
    BY NextExecHeap
  <1> QED BY <1>1, <1>2, Invariance, PTL DEF Spec
=============================================================================
