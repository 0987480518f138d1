----------------------------- MODULE TtyProofs -----------------------------
(***************************************************************************)
(* Proofs about the terminal ring of Tty, for every size of the ring.      *)
(***************************************************************************)
EXTENDS Tty, SequenceTheorems, TLAPS

(***************************************************************************)
(* Arithmetic on the ring, without the modulus: the index k places after   *)
(* a, and how many places b is after a.                                    *)
(***************************************************************************)
Forward(a, k)  == IF a + k < N THEN a + k ELSE a + k - N
Distance(a, b) == IF a <= b THEN b - a ELSE b - a + N

\* Reduction modulo N of a number below 2 * N, which is all the code needs.
LEMMA WrapOnce ==
  ASSUME NEW a \in 0 .. 2 * N - 1
  PROVE  a % N = IF a < N THEN a ELSE a - N
<1>1. N \in Nat \ {0}
  BY SizeAssumption DEF N
<1> HIDE DEF N
<1>2. CASE a < N
  BY <1>1, <1>2
<1>3. CASE a >= N
  BY <1>1, <1>3
<1> QED
  BY <1>1, <1>2, <1>3

LEMMA SizeFacts == N \in Nat /\ N > 0 /\ Index = 0 .. N - 1
BY SizeAssumption DEF N, Index

LEMMA WrapForward ==
  ASSUME NEW a \in Index, NEW k \in 0 .. N
  PROVE  (a + k) % N = Forward(a, k) /\ Forward(a, k) \in Index
<1> USE SizeFacts
<1> HIDE DEF N, Index
<1>1. a + k \in 0 .. 2 * N - 1
  OBVIOUS
<1> QED
  BY <1>1, WrapOnce DEF Forward

LEMMA WrapDistance ==
  ASSUME NEW a \in Index, NEW b \in Index
  PROVE  (b - a + N) % N = Distance(a, b) /\ Distance(a, b) \in Index
<1> USE SizeFacts
<1> HIDE DEF N, Index
<1>1. b - a + N \in 0 .. 2 * N - 1
  OBVIOUS
<1> QED
  BY <1>1, WrapOnce DEF Distance

\* After and Before are one step forward and N - 1 steps forward.
LEMMA WrapStep ==
  ASSUME NEW a \in Index
  PROVE  /\ After(a) = Forward(a, 1) /\ After(a) \in Index
         /\ Before(a) = Forward(a, N - 1) /\ Before(a) \in Index
         /\ After(Before(a)) = a /\ Before(After(a)) = a
<1> USE SizeFacts
<1> HIDE DEF N, Index
<1>1. \A b \in Index : After(b) = Forward(b, 1) /\ After(b) \in Index
  BY WrapForward DEF After
<1>2. \A b \in Index : Before(b) = Forward(b, N - 1) /\ Before(b) \in Index
  <2> SUFFICES ASSUME NEW b \in Index
               PROVE  Before(b) = Forward(b, N - 1) /\ Before(b) \in Index
    OBVIOUS
  <2>1. b + N - 1 = b + (N - 1) /\ N - 1 \in 0 .. N
    OBVIOUS
  <2>2. (b + (N - 1)) % N = Forward(b, N - 1) /\ Forward(b, N - 1) \in Index
    BY <2>1, WrapForward
  <2> QED
    BY <2>1, <2>2 DEF Before
<1>3. Forward(Forward(a, N - 1), 1) = a /\ Forward(Forward(a, 1), N - 1) = a
  BY DEF Forward
<1> QED
  BY <1>1, <1>2, <1>3

----------------------------------------------------------------------------
(***************************************************************************)
(* Types                                                                   *)
(***************************************************************************)
Stored == Letters \cup {NL, NUL}

LEMMA ReadableRange ==
  ASSUME TypeOK
  PROVE  /\ Readable = Distance(r, w) /\ Readable \in Index
         /\ \A k \in 1 .. Readable : /\ (r + k - 1) % N = Forward(r, k - 1)
                                     /\ Forward(r, k - 1) \in Index
                                     /\ Waiting(k) \in Stored
<1> USE SizeFacts
<1> HIDE DEF N, Index
<1>1. r \in Index /\ w \in Index /\ ttyBuffer \in [Index -> Stored]
  BY DEF TypeOK, Stored
<1>2. Readable = Distance(r, w) /\ Readable \in Index
  BY <1>1, WrapDistance DEF Readable
<1>3. ASSUME NEW k \in 1 .. Readable
      PROVE  /\ (r + k - 1) % N = Forward(r, k - 1)
             /\ Forward(r, k - 1) \in Index
             /\ Waiting(k) \in Stored
  <2>1. k - 1 \in 0 .. N /\ r + k - 1 = r + (k - 1)
    BY <1>1, <1>2
  <2>2. (r + k - 1) % N = Forward(r, k - 1) /\ Forward(r, k - 1) \in Index
    BY <1>1, <2>1, WrapForward
  <2> QED
    BY <1>1, <2>2 DEF Waiting
<1> QED
  BY <1>2, <1>3

\* A key leaves the types alone.
LEMMA TypeInsert ==
  ASSUME TypeOK, NEW c \in Keys, TtyBufferInsert(c)
  PROVE  TypeOK'
<1> USE SizeFacts
<1> HIDE DEF N, Index
<1>1. CASE c = BACKSPACE
  <2>1. InsertBackspace
    BY <1>1 DEF TtyBufferInsert
  <2> QED
    BY <2>1, WrapStep DEF InsertBackspace, TypeOK
<1>2. CASE c # BACKSPACE
  <2>1. InsertChar(c)
    BY <1>2 DEF TtyBufferInsert
  <2>2. After(insert) \in Index
    BY WrapStep DEF TypeOK
  <2>3. (IF c = CR THEN NL ELSE c) \in Letters \cup {NL, NUL}
    BY <1>2 DEF Keys
  <2> QED
    BY <2>1, <2>2, <2>3 DEF InsertChar, TypeOK
<1> QED
  BY <1>1, <1>2

\* A read leaves the types alone: what it returns are stored characters.
LEMMA TypeRead ==
  ASSUME TypeOK, NEW n \in ReadSizes, TtyRead(n)
  PROVE  TypeOK'
<1> USE SizeFacts
<1> HIDE DEF N, Index
<1>1. CASE isEmpty
  <2>1. dest' = <<>> /\ UNCHANGED <<ttyBuffer, isEmpty, isFull, r, w, insert>>
    BY <1>1 DEF TtyRead
  <2> QED
    BY <2>1 DEF TypeOK
<1>2. CASE ~isEmpty
  <2>1. PICK k \in 0 .. Readable :
          /\ dest' = [j \in 1 .. k |-> Waiting(j)]
          /\ r' = (r + k) % N
          /\ isFull' = (isFull /\ k = 0)
          /\ isEmpty' = ((r + k) % N = insert)
    BY <1>2 DEF TtyRead
  <2>2. UNCHANGED <<ttyBuffer, w, insert>>
    BY <1>2 DEF TtyRead
  <2>3. Readable \in Index /\ \A j \in 1 .. Readable : Waiting(j) \in Stored
    BY ReadableRange
  <2>4. k \in Nat /\ \A j \in 1 .. k : Waiting(j) \in Stored
    BY <2>3
  <2>5. [j \in 1 .. k |-> Waiting(j)] \in Seq(Stored)
    BY <2>4
  <2>6. r' \in Index
    BY <2>1, <2>3, WrapForward DEF TypeOK
  <2> QED
    BY <2>1, <2>2, <2>5, <2>6 DEF TypeOK, Stored
<1> QED
  BY <1>1, <1>2

LEMMA TypeInit == Init => TypeOK
<1> SUFFICES ASSUME Init PROVE TypeOK
  OBVIOUS
<1>1. 0 \in Index
  BY SizeFacts
<1> HIDE DEF Index
<1> QED
  BY <1>1 DEF Init, TypeOK

\* The indices stay inside the ring, and the ring and every read hold only
\* characters that were stored.
THEOREM TypeCorrect == Spec => []TypeOK
<1>1. TypeOK /\ [Next]_vars => TypeOK'
  <2> SUFFICES ASSUME TypeOK, [Next]_vars PROVE TypeOK'
    OBVIOUS
  <2>1. ASSUME NEW c \in Keys, TtyBufferInsert(c) PROVE TypeOK'
    BY <2>1, TypeInsert
  <2>2. ASSUME NEW n \in ReadSizes, TtyRead(n) PROVE TypeOK'
    BY <2>2, TypeRead
  <2>3. CASE UNCHANGED vars
    BY <2>3 DEF vars, TypeOK
  <2> QED
    BY <2>1, <2>2, <2>3 DEF Next
<1> QED
  BY TypeInit, <1>1, PTL DEF Spec

----------------------------------------------------------------------------
(***************************************************************************)
(* The invariant.  That backspace cannot push insert behind w, so that the *)
(* indices stay in order, needs the newline before w; that the newline is  *)
(* not overwritten needs the order of the indices.                         *)
(***************************************************************************)
Inv == TypeOK /\ IndicesAgree /\ LinesTerminated

\* The same with distances, and what it says of each position of the ring.
LEMMA InvFacts ==
  ASSUME TypeOK
  PROVE  /\ Readable = Distance(r, w)
         /\ Held = IF isFull THEN N ELSE Distance(r, insert)
         /\ \A k \in Index : (r + k) % N = Forward(r, k)
<1> USE SizeFacts
<1> HIDE DEF N, Index
<1>1. r \in Index /\ w \in Index /\ insert \in Index
  BY DEF TypeOK
<1>2. \A k \in Index : k \in 0 .. N
  OBVIOUS
<1> QED
  BY <1>1, <1>2, WrapDistance, WrapForward DEF Readable, Held

LEMMA InitInv == Init => Inv
<1> SUFFICES ASSUME Init PROVE Inv
  OBVIOUS
<1> USE SizeFacts
<1> HIDE DEF N, Index
<1>1. TypeOK
  BY TypeInit
<1>2. Readable = 0 /\ Held = 0
  BY <1>1, InvFacts DEF Init, Distance
<1> QED
  BY <1>1, <1>2 DEF Init, Inv, IndicesAgree, LinesTerminated

\* Backspace takes one character off the unfinished line, and there is one.
LEMMA BackspaceFacts ==
  ASSUME Inv, InsertBackspace
  PROVE  /\ Readable < Held
         /\ ~isFull /\ ~isFull'
         /\ insert' = Before(insert) /\ insert' \in Index
         /\ Distance(r, insert') = Distance(r, insert) - 1
         /\ isEmpty' <=> insert' = r
         /\ UNCHANGED <<ttyBuffer, isFull, r, w, dest>>
<1> USE SizeFacts
<1> HIDE DEF N, Index
<1>1. r \in Index /\ w \in Index /\ insert \in Index
  BY DEF Inv, TypeOK
<1>2. Readable = Distance(r, w) /\ Held = Distance(r, insert) /\ Readable <= Held
  BY InvFacts DEF Inv, IndicesAgree, InsertBackspace
<1>3. insert # r
  BY DEF Inv, IndicesAgree, InsertBackspace
<1>4. insert # w
  BY <1>3 DEF Inv, LinesTerminated, InsertBackspace
<1>5. Readable < Held
  BY <1>1, <1>2, <1>3, <1>4 DEF Distance
<1>6. Before(insert) = Forward(insert, N - 1) /\ Before(insert) \in Index
  BY <1>1, WrapStep
<1>7. Distance(r, Before(insert)) = Distance(r, insert) - 1
  BY <1>1, <1>3, <1>6 DEF Distance, Forward
<1> QED
  BY <1>5, <1>6, <1>7 DEF InsertBackspace

LEMMA InvBackspace ==
  ASSUME Inv, InsertBackspace
  PROVE  IndicesAgree' /\ LinesTerminated'
<1> USE SizeFacts
<1> HIDE DEF N, Index
<1>1. r \in Index /\ w \in Index /\ insert \in Index
  BY DEF Inv, TypeOK
<1>2. Readable = Distance(r, w) /\ Held = Distance(r, insert) /\ Readable < Held
  BY InvFacts, BackspaceFacts DEF Inv
<1>3. Readable' = Readable
  BY BackspaceFacts DEF Readable
<1>4. Held' = Held - 1
  BY <1>1, <1>2, BackspaceFacts, WrapDistance DEF Held
<1>5. IndicesAgree'
  <2>1. isEmpty' => w' = r'
    BY <1>1, <1>2, BackspaceFacts DEF Distance
  <2> QED
    BY <1>2, <1>3, <1>4, <1>1, <2>1, BackspaceFacts DEF IndicesAgree, Distance
<1>6. LinesTerminated'
  <2>1. (w # r => ttyBuffer[Before(w)] = NL)'
    BY BackspaceFacts DEF Inv, LinesTerminated, Before
  <2>2. ASSUME NEW k \in Index, Readable' <= k, k < Held'
        PROVE  (ttyBuffer[(r + k) % N] # NL)'
    <3>1. Readable <= k /\ k < Held
      BY <1>1, <1>2, <1>3, <1>4, <2>2 DEF Distance
    <3> QED
      BY <3>1, BackspaceFacts DEF Inv, LinesTerminated
  <2> QED
    BY <2>1, <2>2 DEF LinesTerminated
<1> QED
  BY <1>5, <1>6

\* Any other key adds one character after the unfinished line.
LEMMA CharFacts ==
  ASSUME Inv, NEW c \in Keys, c # BACKSPACE, InsertChar(c)
  PROVE  /\ ~isFull
         /\ Held = Distance(r, insert) /\ Held \in Index
         /\ Readable = Distance(r, w) /\ Readable <= Held /\ Readable \in Index
         /\ Forward(r, Held) = insert
         /\ Held' = Held + 1
         /\ insert' = After(insert) /\ insert' = Forward(insert, 1)
         /\ insert' \in Index
         /\ isFull' <=> Held + 1 = N
         /\ isFull' <=> insert' = r
<1> USE SizeFacts
<1> HIDE DEF N, Index
<1>1. r \in Index /\ w \in Index /\ insert \in Index
  BY DEF Inv, TypeOK
<1>2. ~isFull /\ Held = Distance(r, insert) /\ Readable = Distance(r, w)
  BY InvFacts DEF Inv, InsertChar
<1>3. Readable \in Index /\ Held \in Index
  BY <1>1, <1>2, WrapDistance
<1>4. Readable <= Held
  BY DEF Inv, IndicesAgree
<1>5. Forward(r, Held) = insert
  BY <1>1, <1>2 DEF Forward, Distance
<1>6. After(insert) = Forward(insert, 1) /\ After(insert) \in Index
  BY <1>1, WrapStep
<1>7. insert' = After(insert) /\ r' = r /\ isFull' = (After(insert) = r)
  BY DEF InsertChar
<1>8. After(insert) = r <=> Held + 1 = N
  BY <1>1, <1>2, <1>6 DEF Forward, Distance
<1>9. (isFull' <=> Held + 1 = N) /\ (isFull' <=> insert' = r)
  BY <1>7, <1>8
<1>10. Held' = Held + 1
  <2>1. CASE After(insert) = r
    <3>1. isFull'
      BY <1>7, <2>1
    <3> QED
      BY <3>1, <2>1, <1>8 DEF Held
  <2>2. CASE After(insert) # r
    <3>1. ~isFull'
      BY <1>7, <2>2
    <3>2. Held' = Distance(r, After(insert))
      BY <1>1, <1>6, <1>7, <3>1, WrapDistance DEF Held
    <3>3. Distance(r, After(insert)) = Distance(r, insert) + 1
      BY <1>1, <1>6, <2>2 DEF Forward, Distance
    <3> QED
      BY <3>2, <3>3, <1>2
  <2> QED
    BY <2>1, <2>2
<1> QED
  BY <1>2, <1>3, <1>4, <1>5, <1>6, <1>7, <1>9, <1>10

LEMMA InvChar ==
  ASSUME Inv, NEW c \in Keys, c # BACKSPACE, InsertChar(c)
  PROVE  IndicesAgree' /\ LinesTerminated'
<1> DEFINE stored == IF c = CR THEN NL ELSE c
<1> USE SizeFacts
<1> HIDE DEF N, Index
<1>1. r \in Index /\ w \in Index /\ insert \in Index
  BY DEF Inv, TypeOK
<1>2. /\ ttyBuffer' = [ttyBuffer EXCEPT ![insert] = stored]
      /\ w' = IF stored = NL THEN After(insert) ELSE w
      /\ r' = r
      /\ isEmpty' = FALSE
  BY DEF InsertChar
<1>3. ttyBuffer \in [Index -> Letters \cup {NL, NUL}]
  BY DEF Inv, TypeOK
<1> HIDE DEF stored
<1>4. \A k \in Index : k < Held => Forward(r, k) # insert
  BY <1>1, CharFacts DEF Forward
<1>5. CASE stored = NL
  <2>1. w' = insert'
    BY <1>2, <1>5, CharFacts
  <2>2. Readable' = Distance(r, insert')
    <3>1. insert' \in Index
      BY CharFacts
    <3>2. (insert' - r + N) % N = Distance(r, insert')
      BY <1>1, <3>1, WrapDistance
    <3> QED
      BY <1>2, <2>1, <3>2 DEF Readable
  <2>3. ~isFull' => Readable' = Held'
    BY <1>1, <1>2, <2>2, CharFacts, WrapDistance DEF Held
  <2>4. isFull' => Readable' = 0 /\ w' = r'
    BY <1>1, <1>2, <2>1, <2>2, CharFacts DEF Distance
  <2>5. Held' \in Nat
    BY CharFacts
  <2>6. IndicesAgree'
    BY <2>3, <2>4, <2>5, <1>2, CharFacts DEF IndicesAgree
  <2>7. ttyBuffer'[Before(w')] = NL
    <3>1. Before(w') = insert
      BY <1>1, <2>1, CharFacts, WrapStep
    <3> QED
      BY <3>1, <1>1, <1>2, <1>3, <1>5
  <2>8. LinesTerminated'
    <3>1. ASSUME ~isFull' \/ w' # r', NEW k \in Index, Readable' <= k, k < Held'
          PROVE  FALSE
      BY <3>1, <2>3, <2>4, <2>5
    <3> QED
      BY <3>1, <2>7 DEF LinesTerminated, Before
  <2> QED
    BY <2>6, <2>8
<1>6. CASE stored # NL
  <2>1. w' = w /\ Readable' = Readable
    BY <1>2, <1>6 DEF Readable
  <2>2. IndicesAgree'
    BY <2>1, <1>2, CharFacts DEF IndicesAgree
  <2>3. w # r => ttyBuffer'[Before(w)] = NL
    <3> SUFFICES ASSUME w # r PROVE ttyBuffer'[Before(w)] = NL
      OBVIOUS
    <3>1. Before(w) = Forward(w, N - 1) /\ Before(w) \in Index
      BY <1>1, WrapStep
    <3>2. Before(w) # insert
      BY <1>1, <3>1, CharFacts DEF Forward, Distance
    <3>3. ttyBuffer[Before(w)] = NL
      BY DEF Inv, LinesTerminated
    <3> QED
      BY <3>1, <3>2, <3>3, <1>2, <1>3
  <2>4. ASSUME NEW k \in Index, Readable <= k, k < Held + 1
        PROVE  ttyBuffer'[(r + k) % N] # NL
    <3>1. (r + k) % N = Forward(r, k) /\ Forward(r, k) \in Index
      <4>1. k \in 0 .. N
        OBVIOUS
      <4> QED
        BY <4>1, <1>1, WrapForward
    <3>2. CASE k < Held
      <4>1. ttyBuffer[(r + k) % N] # NL
        BY <2>4, <3>2, CharFacts DEF Inv, LinesTerminated
      <4> QED
        BY <4>1, <3>1, <3>2, <1>2, <1>3, <1>4
    <3>3. CASE k = Held
      BY <3>1, <3>3, <1>1, <1>2, <1>3, <1>6, CharFacts
    <3> QED
      BY <3>2, <3>3, <2>4, CharFacts
  <2>5. LinesTerminated'
    <3>1. (w # r => ttyBuffer[Before(w)] = NL)'
      BY <2>1, <2>3, <1>2 DEF Before
    <3>2. ASSUME NEW k \in Index, Readable' <= k, k < Held'
          PROVE  ttyBuffer'[(r' + k) % N] # NL
      BY <3>2, <2>1, <2>4, <1>2, CharFacts
    <3> QED
      BY <3>1, <3>2 DEF LinesTerminated
  <2> QED
    BY <2>2, <2>5
<1> QED
  BY <1>5, <1>6


\* A read that takes k characters moves r, and only r, k places towards w.
ReadTakes(k, n) ==
  /\ ~isEmpty
  /\ LoopStops(k, n)
  /\ dest' = [j \in 1 .. k |-> Waiting(j)]
  /\ r' = (r + k) % N
  /\ isFull' = (isFull /\ k = 0)
  /\ isEmpty' = ((r + k) % N = insert)
  /\ UNCHANGED <<ttyBuffer, w, insert>>

LEMMA ReadFacts ==
  ASSUME Inv, NEW n \in ReadSizes, NEW k \in 0 .. Readable, ReadTakes(k, n)
  PROVE  /\ Readable = Distance(r, w) /\ Readable \in Index
         /\ Readable <= Held /\ Held \in 0 .. N
         /\ r' = Forward(r, k) /\ r' \in Index
         /\ Readable' = Readable - k
         /\ Held' = Held - k
         /\ isFull' <=> isFull /\ k = 0
         /\ isEmpty' <=> r' = insert
         /\ k = 0 => r' = r
         /\ k > 0 => w # r
<1> USE SizeFacts
<1> HIDE DEF N, Index
<1>1. r \in Index /\ w \in Index /\ insert \in Index
  BY DEF Inv, TypeOK
<1>2. Readable = Distance(r, w) /\ Readable \in Index /\ Readable <= Held
  BY <1>1, InvFacts, WrapDistance DEF Inv, IndicesAgree
<1>3. Held = (IF isFull THEN N ELSE Distance(r, insert)) /\ Held \in 0 .. N
  <2>1. Held = IF isFull THEN N ELSE Distance(r, insert)
    BY InvFacts DEF Inv
  <2>2. Distance(r, insert) \in Index
    BY <1>1, WrapDistance
  <2> QED
    BY <2>1, <2>2
<1>4. k \in 0 .. N
  BY <1>2
<1>5. r' = Forward(r, k) /\ r' \in Index
  <2>1. (r + k) % N = Forward(r, k) /\ Forward(r, k) \in Index
    BY <1>1, <1>4, WrapForward
  <2> QED
    BY <2>1 DEF ReadTakes
<1>6. Readable' = Distance(r', w) /\ Held' = IF isFull' THEN N ELSE Distance(r', insert)
  <2>1. (w - r' + N) % N = Distance(r', w) /\ (insert - r' + N) % N = Distance(r', insert)
    BY <1>1, <1>5, WrapDistance
  <2>2. w' = w /\ insert' = insert
    BY DEF ReadTakes
  <2> QED
    BY <2>1, <2>2 DEF Readable, Held
<1>7. Readable' = Readable - k
  BY <1>1, <1>2, <1>5, <1>6 DEF Distance, Forward
<1>8. isFull' <=> isFull /\ k = 0
  BY DEF ReadTakes
<1>9. Held' = Held - k
  <2>1. CASE k = 0
    BY <1>1, <1>3, <1>5, <1>6, <1>8, <2>1 DEF Forward
  <2>2. CASE k > 0 /\ isFull
    <3>1. insert = r
      BY <2>2 DEF Inv, IndicesAgree
    <3>2. Distance(Forward(r, k), r) = N - k
      BY <1>1, <1>2, <2>2 DEF Distance, Forward
    <3> QED
      BY <1>3, <1>5, <1>6, <1>8, <2>2, <3>1, <3>2
  <2>3. CASE k > 0 /\ ~isFull
    <3>1. k <= Distance(r, insert)
      BY <1>2, <1>3, <2>3
    <3>2. Distance(Forward(r, k), insert) = Distance(r, insert) - k
      BY <1>1, <2>3, <3>1 DEF Distance, Forward
    <3> QED
      BY <1>3, <1>5, <1>6, <1>8, <2>3, <3>2
  <2> QED
    BY <1>4, <2>1, <2>2, <2>3
<1>10. isEmpty' <=> r' = insert
  BY DEF ReadTakes
<1>11. (k = 0 => r' = r) /\ (k > 0 => w # r)
  BY <1>1, <1>2, <1>5 DEF Distance, Forward
<1> QED
  BY <1>2, <1>3, <1>5, <1>7, <1>8, <1>9, <1>10, <1>11

LEMMA InvReadTakes ==
  ASSUME Inv, NEW n \in ReadSizes, NEW k \in 0 .. Readable, ReadTakes(k, n)
  PROVE  IndicesAgree' /\ LinesTerminated'
<1> USE SizeFacts
<1> HIDE DEF N, Index
<1>1. r \in Index /\ w \in Index /\ insert \in Index
  BY DEF Inv, TypeOK
<1>2. UNCHANGED <<ttyBuffer, w, insert>> /\ ~isEmpty
  BY DEF ReadTakes
<1>3. IndicesAgree'
  <2>1. isFull' => insert' = r'
    BY <1>2, ReadFacts DEF Inv, IndicesAgree
  <2>2. isEmpty' /\ ~isFull' => w' = r'
    <3> SUFFICES ASSUME isEmpty', ~isFull' PROVE w = r'
      BY <1>2
    <3>1. r' = insert
      BY ReadFacts
    <3>2. Held' = 0
      BY <1>1, <1>2, <3>1, InvFacts, ReadFacts, WrapDistance DEF Held, Distance
    <3>3. Readable' = 0 /\ Readable' = Distance(r', w)
      <4>1. Readable' = Distance(r', w)
        BY <1>1, <1>2, ReadFacts, WrapDistance DEF Readable
      <4> QED
        BY <3>2, <4>1, ReadFacts
    <3> QED
      BY <1>1, <3>3, ReadFacts DEF Distance
  <2> QED
    BY <1>2, <2>1, <2>2, ReadFacts DEF IndicesAgree
<1>4. LinesTerminated'
  <2>1. (w # r => ttyBuffer[Before(w)] = NL)'
    <3> SUFFICES ASSUME w # r' PROVE ttyBuffer[Before(w)] = NL
      BY <1>2 DEF Before
    <3>1. w # r
      BY ReadFacts
    <3> QED
      BY <3>1 DEF Inv, LinesTerminated
  <2>2. ASSUME ~isFull' \/ w' # r', NEW j \in Index, Readable' <= j, j < Held'
        PROVE  ttyBuffer'[(r' + j) % N] # NL
    <3>1. ~isFull \/ w # r
      BY <1>2, <2>2, ReadFacts
    <3>2. j + k \in Index /\ Readable <= j + k /\ j + k < Held
      BY <2>2, ReadFacts
    <3>3. ttyBuffer[(r + (j + k)) % N] # NL
      BY <3>1, <3>2 DEF Inv, LinesTerminated
    <3>4. (r + (j + k)) % N = Forward(r, j + k) /\ (r' + j) % N = Forward(r', j)
      <4>1. j + k \in 0 .. N /\ j \in 0 .. N
        BY <3>2
      <4> QED
        BY <1>1, <4>1, ReadFacts, WrapForward
    <3>5. Forward(r', j) = Forward(r, j + k)
      BY <1>1, <3>2, ReadFacts DEF Forward
    <3> QED
      BY <1>2, <3>3, <3>4, <3>5
  <2> QED
    BY <2>1, <2>2 DEF LinesTerminated
<1> QED
  BY <1>3, <1>4

LEMMA InvRead ==
  ASSUME Inv, NEW n \in ReadSizes, TtyRead(n)
  PROVE  IndicesAgree' /\ LinesTerminated'
<1>1. CASE isEmpty
  <2>1. UNCHANGED <<ttyBuffer, isEmpty, isFull, r, w, insert>>
    BY <1>1 DEF TtyRead
  <2> QED
    BY <2>1 DEF Inv, IndicesAgree, LinesTerminated, Readable, Held, Before
<1>2. CASE ~isEmpty
  <2>1. PICK k \in 0 .. Readable : ReadTakes(k, n)
    BY <1>2 DEF TtyRead, ReadTakes
  <2> QED
    BY <2>1, InvReadTakes
<1> QED
  BY <1>1, <1>2

LEMMA NextInv == Inv /\ [Next]_vars => Inv'
<1> SUFFICES ASSUME Inv, [Next]_vars PROVE Inv'
  OBVIOUS
<1>1. ASSUME NEW c \in Keys, TtyBufferInsert(c) PROVE Inv'
  <2>1. TypeOK'
    BY <1>1, TypeInsert DEF Inv
  <2>2. IndicesAgree' /\ LinesTerminated'
    BY <1>1, InvBackspace, InvChar DEF TtyBufferInsert
  <2> QED
    BY <2>1, <2>2 DEF Inv
<1>2. ASSUME NEW n \in ReadSizes, TtyRead(n) PROVE Inv'
  BY <1>2, TypeRead, InvRead DEF Inv
<1>3. CASE UNCHANGED vars
  BY <1>3 DEF vars, Inv, TypeOK, IndicesAgree, LinesTerminated, Readable, Held, Before
<1> QED
  BY <1>1, <1>2, <1>3 DEF Next

LEMMA InvHolds == Spec => []Inv
BY InitInv, NextInv, PTL DEF Spec

\* The flags and the three indices never contradict each other, and w never
\* leaves the stretch from r to insert: TtyRead cannot run into the unfinished
\* line, whatever the size of the ring.
THEOREM IndicesAlwaysAgree == Spec => []IndicesAgree
<1>1. Inv => IndicesAgree
  BY DEF Inv
<1> QED
  BY <1>1, InvHolds, PTL

\* The character before w is a newline as long as there is something to read,
\* and no newline follows it: TtyBufferInsert's backspace never erases a part
\* of a finished line.
THEOREM LinesAlwaysTerminated == Spec => []LinesTerminated
<1>1. Inv => LinesTerminated
  BY DEF Inv
<1> QED
  BY <1>1, InvHolds, PTL

----------------------------------------------------------------------------
(***************************************************************************)
(* The ring implements the queue of lines.                                 *)
(***************************************************************************)
Committed == Stretch(r, CommittedLength)
Edit      == Stretch(r + CommittedLength, Held - CommittedLength)

\* A stretch of the ring as a sequence, for any contents b and start a.
RingStretch(b, from, length) == [k \in 1 .. length |-> b[(from + k - 1) % N]]

\* s holds the length characters of b that start skip places after a.
IsStretch(s, b, a, skip, length) ==
  /\ s \in Seq(Stored)
  /\ Len(s) = length
  /\ \A j \in 1 .. length : s[j] = b[Forward(a, skip + j - 1)]

LEMMA StretchFacts ==
  ASSUME NEW b \in [Index -> Stored], NEW a \in Index,
         NEW skip \in Nat, NEW length \in Nat, skip + length <= N
  PROVE  IsStretch(RingStretch(b, a + skip, length), b, a, skip, length)
<1> DEFINE s == RingStretch(b, a + skip, length)
<1> USE SizeFacts
<1> HIDE DEF N, Index, Stored
<1>1. ASSUME NEW j \in 1 .. length
      PROVE  /\ (a + skip + j - 1) % N = Forward(a, skip + j - 1)
             /\ Forward(a, skip + j - 1) \in Index
  <2>1. skip + j - 1 \in 0 .. N /\ a + skip + j - 1 = a + (skip + j - 1)
    OBVIOUS
  <2>2. /\ (a + (skip + j - 1)) % N = Forward(a, skip + j - 1)
        /\ Forward(a, skip + j - 1) \in Index
    BY <2>1, WrapForward
  <2> QED
    BY <2>1, <2>2
<1>2. \A j \in 1 .. length : b[(a + skip + j - 1) % N] \in Stored
  BY <1>1
<1>3. s = [j \in 1 .. length |-> b[(a + skip + j - 1) % N]]
  BY DEF RingStretch
<1> HIDE DEF s
<1>4. s \in Seq(Stored) /\ Len(s) = length
  BY <1>2, <1>3
<1>5. \A j \in 1 .. length : s[j] = b[Forward(a, skip + j - 1)]
  BY <1>1, <1>3
<1>6. IsStretch(s, b, a, skip, length)
  BY <1>4, <1>5 DEF IsStretch
<1> QED
  BY <1>6 DEF s

LEMMA StretchFromStart ==
  ASSUME NEW b \in [Index -> Stored], NEW a \in Index, NEW length \in Nat, length <= N
  PROVE  IsStretch(RingStretch(b, a, length), b, a, 0, length)
<1>1. a + 0 = a /\ 0 + length <= N /\ 0 \in Nat
  BY SizeFacts
<1>2. IsStretch(RingStretch(b, a + 0, length), b, a, 0, length)
  BY <1>1, StretchFacts
<1> QED
  BY <1>1, <1>2

\* How many characters are finished lines.
LEMMA LengthFacts ==
  ASSUME Inv
  PROVE  /\ Held \in 0 .. N /\ (isFull <=> Held = N)
         /\ CommittedLength \in 0 .. Held
         /\ Readable \in Index /\ Readable = Distance(r, w)
         /\ ~isFull \/ w # r => CommittedLength = Readable
         /\ w = r => Readable = 0 /\ CommittedLength \in {0, N}
<1> USE SizeFacts
<1> HIDE DEF N, Index
<1>1. r \in Index /\ w \in Index /\ insert \in Index
  BY DEF Inv, TypeOK
<1>2. Readable = Distance(r, w) /\ Readable \in Index
  BY <1>1, InvFacts, WrapDistance DEF Inv
<1>3. Distance(r, insert) \in Index
  BY <1>1, WrapDistance
<1>4. Held = IF isFull THEN N ELSE Distance(r, insert)
  BY InvFacts DEF Inv
<1>5. Held \in 0 .. N /\ (isFull <=> Held = N)
  BY <1>3, <1>4
<1>6. w = r => Readable = 0
  BY <1>1, <1>2 DEF Distance
<1>7. Readable <= Held
  BY DEF Inv, IndicesAgree
<1> QED
  BY <1>2, <1>5, <1>6, <1>7 DEF CommittedLength

\* The two sequences of the mapping, position by position.
LEMMA QueueFacts ==
  ASSUME Inv
  PROVE  /\ IsStretch(Committed, ttyBuffer, r, 0, CommittedLength)
         /\ IsStretch(Edit, ttyBuffer, r, CommittedLength, Held - CommittedLength)
<1> USE SizeFacts
<1> HIDE DEF N, Index, Stored
<1>1. r \in Index /\ ttyBuffer \in [Index -> Stored]
  BY DEF Inv, TypeOK, Stored
<1>2. CommittedLength \in Nat /\ CommittedLength <= N
  BY LengthFacts
<1>3. /\ Held - CommittedLength \in Nat
      /\ CommittedLength + (Held - CommittedLength) <= N
  BY LengthFacts
<1>4. /\ Committed = RingStretch(ttyBuffer, r, CommittedLength)
      /\ Edit = RingStretch(ttyBuffer, r + CommittedLength, Held - CommittedLength)
  BY DEF Committed, Edit, Stretch, RingStretch
<1>5. IsStretch(Committed, ttyBuffer, r, 0, CommittedLength)
  BY <1>1, <1>2, <1>4, StretchFromStart
<1>6. IsStretch(Edit, ttyBuffer, r, CommittedLength, Held - CommittedLength)
  BY <1>1, <1>2, <1>3, <1>4, StretchFacts
<1> QED
  BY <1>5, <1>6

\* The same for the state a step ends in, given the two lengths.
LEMMA QueueFactsNext ==
  ASSUME TypeOK', NEW fin \in Nat, NEW rest \in Nat, fin + rest <= N,
         CommittedLength' = fin, Held' - CommittedLength' = rest
  PROVE  /\ IsStretch(Committed', ttyBuffer', r', 0, fin)
         /\ IsStretch(Edit', ttyBuffer', r', fin, rest)
<1> USE SizeFacts
<1> HIDE DEF N, Index, Stored
<1>1. r' \in Index /\ ttyBuffer' \in [Index -> Stored]
  BY DEF TypeOK, Stored
<1>2. /\ Committed' = RingStretch(ttyBuffer', r', fin)
      /\ Edit' = RingStretch(ttyBuffer', r' + fin, rest)
  BY DEF Committed, Edit, Stretch, RingStretch
<1>3. fin <= N
  OBVIOUS
<1> QED
  BY <1>1, <1>2, <1>3, StretchFacts, StretchFromStart

\* Two stretches with the same characters are the same sequence.
LEMMA StretchEqual ==
  ASSUME NEW s, NEW b, NEW a, NEW i, NEW t, NEW b2, NEW a2, NEW i2, NEW n \in Nat,
         IsStretch(s, b, a, i, n), IsStretch(t, b2, a2, i2, n),
         \A j \in 1 .. n : b[Forward(a, i + j - 1)] = b2[Forward(a2, i2 + j - 1)]
  PROVE  s = t
<1>1. /\ s \in Seq(Stored) /\ t \in Seq(Stored) /\ Len(s) = Len(t)
      /\ \A j \in 1 .. Len(s) : s[j] = t[j]
  BY DEF IsStretch
<1> QED
  BY <1>1, SeqEqual

LEMMA FullFacts == ASSUME Inv PROVE Q!Full <=> isFull
<1>1. Len(Committed) = CommittedLength /\ Len(Edit) = Held - CommittedLength
  BY QueueFacts DEF IsStretch
<1>2. /\ Held \in Nat /\ CommittedLength \in Nat /\ N \in Nat
      /\ (isFull <=> Held = N)
  BY LengthFacts, SizeFacts
<1>3. Len(Committed) + Len(Edit) = Held
  BY <1>1, <1>2
<1> QED
  BY <1>2, <1>3 DEF Q!Full, Committed, Edit

\* Backspace is Erase.
LEMMA StepErase ==
  ASSUME Inv, Inv', InsertBackspace
  PROVE  Q!Erase
<1> USE SizeFacts
<1> HIDE DEF N, Index
<1>1. /\ ~isFull /\ ~isFull' /\ Readable < Held
      /\ UNCHANGED <<ttyBuffer, isFull, r, w, dest>>
  BY BackspaceFacts
<1>2. Readable' = Readable /\ Held' = Held - 1
  <2>1. r \in Index /\ insert \in Index /\ insert' \in Index
    BY BackspaceFacts DEF Inv, TypeOK
  <2>2. Held = Distance(r, insert)
    BY <1>1, InvFacts DEF Inv
  <2>3. (insert' - r + N) % N = Distance(r, insert')
    BY <2>1, WrapDistance
  <2>4. Held' = Distance(r, insert')
    BY <1>1, <2>3 DEF Held
  <2> QED
    BY <1>1, <2>2, <2>4, BackspaceFacts DEF Readable
<1>3. CommittedLength = Readable /\ CommittedLength' = Readable
  <2>1. CommittedLength = Readable
    BY <1>1, LengthFacts
  <2> QED
    BY <2>1, <1>1, <1>2 DEF CommittedLength
<1>4. Readable \in Nat /\ Held \in Nat /\ Held <= N
  BY LengthFacts
<1> DEFINE fin == Readable
           rest == Held - Readable
<1>5. fin \in Nat /\ rest \in Nat /\ rest - 1 \in Nat /\ fin + rest <= N
  BY <1>1, <1>4
<1>6. IsStretch(Committed, ttyBuffer, r, 0, fin) /\ IsStretch(Edit, ttyBuffer, r, fin, rest)
  BY <1>3, QueueFacts
<1>7. Held' - CommittedLength' = rest - 1
  BY <1>2, <1>3, <1>4
<1>8. /\ IsStretch(Committed', ttyBuffer, r, 0, fin)
      /\ IsStretch(Edit', ttyBuffer, r, fin, rest - 1)
  BY <1>1, <1>3, <1>5, <1>7, QueueFactsNext DEF Inv
<1> HIDE DEF fin, rest
<1>9. Committed' = Committed
  BY <1>5, <1>6, <1>8, StretchEqual
<1>10. Edit # <<>>
  BY <1>5, <1>6, <1>1 DEF IsStretch
<1>11. Edit' = SubSeq(Edit, 1, Len(Edit) - 1)
  <2>1. Edit \in Seq(Stored) /\ Len(Edit) = rest
    BY <1>6 DEF IsStretch
  <2>2. Edit' \in Seq(Stored) /\ Len(Edit') = rest - 1
    BY <1>8 DEF IsStretch
  <2>3. ASSUME NEW j \in 1 .. rest - 1 PROVE Edit'[j] = Edit[j]
    <3>1. j \in 1 .. rest
      BY <1>5
    <3>2. Edit[j] = ttyBuffer[Forward(r, fin + j - 1)]
      BY <1>6, <3>1 DEF IsStretch
    <3>3. Edit'[j] = ttyBuffer[Forward(r, fin + j - 1)]
      BY <1>8, <2>3 DEF IsStretch
    <3> QED
      BY <3>2, <3>3
  <2>4. /\ SubSeq(Edit, 1, rest - 1) \in Seq(Stored)
        /\ Len(SubSeq(Edit, 1, rest - 1)) = rest - 1
        /\ \A j \in 1 .. rest - 1 : SubSeq(Edit, 1, rest - 1)[j] = Edit[j]
    BY <1>5, <2>1
  <2> QED
    BY <2>1, <2>2, <2>3, <2>4, SeqEqual
<1>12. (isEmpty /\ isFull)' = (isEmpty /\ isFull)
  BY <1>1
<1> QED
  BY <1>1, <1>9, <1>10, <1>11, <1>12, FullFacts DEF Q!Erase, Committed, Edit

\* A key adds its character after all that the ring holds, and changes no
\* other.
LEMMA CharStored ==
  ASSUME Inv, NEW c \in Keys, c # BACKSPACE, InsertChar(c)
  PROVE  /\ ttyBuffer'[Forward(r, Held)] = IF c = CR THEN NL ELSE c
         /\ \A k \in Index : k < Held => ttyBuffer'[Forward(r, k)] = ttyBuffer[Forward(r, k)]
         /\ ttyBuffer'[Before(insert')] = IF c = CR THEN NL ELSE c
         /\ Held = Distance(r, insert)
<1> DEFINE stored == IF c = CR THEN NL ELSE c
<1> USE SizeFacts
<1> HIDE DEF N, Index
<1>1. /\ r \in Index /\ insert \in Index
      /\ ttyBuffer \in [Index -> Letters \cup {NL, NUL}]
  BY DEF Inv, TypeOK
<1>2. ttyBuffer' = [ttyBuffer EXCEPT ![insert] = stored]
  BY DEF InsertChar
<1> HIDE DEF stored
<1>3. ttyBuffer'[insert] = stored
  BY <1>1, <1>2
<1>4. Forward(r, Held) = insert /\ insert' = After(insert) /\ Held = Distance(r, insert)
  BY CharFacts
<1>5. Before(insert') = insert
  BY <1>1, <1>4, WrapStep
<1>6. ASSUME NEW k \in Index, k < Held
      PROVE  ttyBuffer'[Forward(r, k)] = ttyBuffer[Forward(r, k)]
  <2>1. Forward(r, k) \in Index
    BY <1>1 DEF Forward
  <2>2. Forward(r, k) # insert
    BY <1>1, <1>4, <1>6, CharFacts DEF Forward
  <2> QED
    BY <1>1, <1>2, <2>1, <2>2
<1> QED
  BY <1>3, <1>4, <1>5, <1>6 DEF stored

\* A letter is Type.
LEMMA StepType ==
  ASSUME Inv, Inv', NEW c \in Letters, InsertChar(c)
  PROVE  Q!Type(c)
<1> USE SizeFacts
<1> HIDE DEF N, Index
<1>1. c # BACKSPACE /\ c # CR /\ c # NL /\ c \in Keys
  BY CharAssumption DEF Keys
<1>2. UNCHANGED <<r, w, dest>> /\ isEmpty' = FALSE
  BY <1>1 DEF InsertChar
<1> DEFINE fin == Readable
           rest == Held - Readable
<1>3. /\ ~isFull /\ Held' = Held + 1 /\ Held \in Nat /\ Held < N
      /\ Readable \in Nat /\ Readable <= Held
  BY <1>1, CharFacts
<1>4. CommittedLength = fin /\ CommittedLength' = fin
  <2>1. CommittedLength = fin
    BY <1>3, LengthFacts
  <2>2. Readable' = Readable
    BY <1>2 DEF Readable
  <2>3. ttyBuffer'[Before(insert')] # NL
    BY <1>1, CharStored
  <2>4. w = r => Readable = 0
    BY LengthFacts
  <2>5. CommittedLength' = IF r' # w' THEN Readable' ELSE IF isFull' /\ ttyBuffer'[Before(insert')] = NL THEN N ELSE 0
    BY DEF CommittedLength, Before
  <2> QED
    BY <2>1, <2>2, <2>3, <2>4, <2>5, <1>2
<1>5. fin \in Nat /\ rest \in Nat /\ rest + 1 \in Nat /\ fin + rest + 1 <= N /\ fin + rest = Held
  BY <1>3
<1>6. IsStretch(Committed, ttyBuffer, r, 0, fin) /\ IsStretch(Edit, ttyBuffer, r, fin, rest)
  BY <1>4, QueueFacts
<1>7. Held' - CommittedLength' = rest + 1 /\ fin + (rest + 1) <= N
  BY <1>3, <1>4
<1>8. /\ IsStretch(Committed', ttyBuffer', r, 0, fin)
      /\ IsStretch(Edit', ttyBuffer', r, fin, rest + 1)
  BY <1>2, <1>4, <1>5, <1>7, QueueFactsNext DEF Inv
<1> HIDE DEF fin, rest
<1>9. \A k \in Index : k < Held => ttyBuffer'[Forward(r, k)] = ttyBuffer[Forward(r, k)]
  BY <1>1, CharStored
<1>10. Committed' = Committed
  <2>1. ASSUME NEW j \in 1 .. fin
        PROVE  ttyBuffer'[Forward(r, 0 + j - 1)] = ttyBuffer[Forward(r, 0 + j - 1)]
    <3>1. 0 + j - 1 \in Index /\ 0 + j - 1 < Held
      BY <1>3, <1>5
    <3> QED
      BY <1>9, <3>1
  <2> QED
    BY <1>5, <1>6, <1>8, <2>1, StretchEqual
<1>11. Edit' = Append(Edit, c)
  <2>1. Edit \in Seq(Stored) /\ Len(Edit) = rest /\ c \in Stored
    BY <1>6 DEF IsStretch, Stored
  <2>2. Edit' \in Seq(Stored) /\ Len(Edit') = rest + 1
    BY <1>8 DEF IsStretch
  <2>3. ASSUME NEW j \in 1 .. rest PROVE Edit'[j] = Edit[j]
    <3>1. j \in 1 .. rest + 1 /\ fin + j - 1 \in Index /\ fin + j - 1 < Held
      BY <1>3, <1>5
    <3>2. Edit[j] = ttyBuffer[Forward(r, fin + j - 1)]
      BY <1>6, <2>3 DEF IsStretch
    <3>3. Edit'[j] = ttyBuffer'[Forward(r, fin + j - 1)]
      BY <1>8, <3>1 DEF IsStretch
    <3> QED
      BY <1>9, <3>1, <3>2, <3>3
  <2>4. Edit'[rest + 1] = c
    <3>1. rest + 1 \in 1 .. rest + 1 /\ fin + (rest + 1) - 1 = Held
      BY <1>3, <1>5
    <3>2. Edit'[rest + 1] = ttyBuffer'[Forward(r, fin + (rest + 1) - 1)]
      BY <1>8, <3>1 DEF IsStretch
    <3> QED
      BY <1>1, <3>1, <3>2, CharStored
  <2>5. /\ Append(Edit, c) \in Seq(Stored) /\ Len(Append(Edit, c)) = rest + 1
        /\ \A j \in 1 .. rest : Append(Edit, c)[j] = Edit[j]
        /\ Append(Edit, c)[rest + 1] = c
    BY <2>1, AppendProperties
  <2>6. \A j \in 1 .. rest + 1 : Edit'[j] = Append(Edit, c)[j]
    BY <1>5, <2>3, <2>4, <2>5
  <2> QED
    BY <2>2, <2>5, <2>6, SeqEqual
<1>12. (isEmpty /\ isFull)' = (isEmpty /\ isFull)
  BY <1>2, <1>3
<1> QED
  BY <1>2, <1>3, <1>10, <1>11, <1>12, FullFacts DEF Q!Type, Committed, Edit

\* A newline or a carriage return is Commit.
LEMMA StepCommit ==
  ASSUME Inv, Inv', NEW c \in {NL, CR}, InsertChar(c)
  PROVE  Q!Commit
<1> USE SizeFacts
<1> HIDE DEF N, Index
<1>1. c # BACKSPACE /\ c \in Keys /\ (IF c = CR THEN NL ELSE c) = NL
  BY CharAssumption DEF Keys
<1>2. UNCHANGED <<r, dest>> /\ isEmpty' = FALSE /\ w' = insert'
  BY <1>1 DEF InsertChar
<1> DEFINE fin == Readable
           rest == Held - Readable
<1>3. /\ ~isFull /\ Held' = Held + 1 /\ Held \in Nat /\ Held < N
      /\ Readable \in Nat /\ Readable <= Held
      /\ isFull' <=> Held + 1 = N
      /\ isFull' <=> insert' = r
  BY <1>1, CharFacts
<1>4. CommittedLength = fin
  BY <1>3, LengthFacts
<1>5. CommittedLength' = Held + 1
  <2>1. ttyBuffer'[Before(insert')] = NL
    BY <1>1, CharStored
  <2>2. CommittedLength' = IF r' # w' THEN Readable' ELSE IF isFull' /\ ttyBuffer'[Before(insert')] = NL THEN N ELSE 0
    BY DEF CommittedLength, Before
  <2>3. ~isFull' => Readable' = Held'
    BY <1>2 DEF Readable, Held
  <2> QED
    BY <1>2, <1>3, <2>1, <2>2, <2>3
<1>6. fin \in Nat /\ rest \in Nat /\ fin + rest = Held /\ Held + 1 \in Nat
  BY <1>3
<1>7. IsStretch(Committed, ttyBuffer, r, 0, fin) /\ IsStretch(Edit, ttyBuffer, r, fin, rest)
  BY <1>4, QueueFacts
<1>8. Held' - CommittedLength' = 0 /\ (Held + 1) + 0 <= N /\ 0 \in Nat
  BY <1>3, <1>5
<1>9. /\ IsStretch(Committed', ttyBuffer', r, 0, Held + 1)
      /\ IsStretch(Edit', ttyBuffer', r, Held + 1, 0)
  BY <1>2, <1>5, <1>6, <1>8, QueueFactsNext DEF Inv
<1> HIDE DEF fin, rest
<1>10. \A k \in Index : k < Held => ttyBuffer'[Forward(r, k)] = ttyBuffer[Forward(r, k)]
  BY <1>1, CharStored
<1>11. Edit' = <<>>
  BY <1>9 DEF IsStretch
<1>12. Committed' = Committed \o Append(Edit, NL)
  <2>1. Committed \in Seq(Stored) /\ Len(Committed) = fin
    BY <1>7 DEF IsStretch
  <2>2. Edit \in Seq(Stored) /\ Len(Edit) = rest /\ NL \in Stored
    BY <1>7 DEF IsStretch, Stored
  <2>3. Committed' \in Seq(Stored) /\ Len(Committed') = Held + 1
    BY <1>9 DEF IsStretch
  <2> DEFINE line == Append(Edit, NL)
             all == Committed \o line
  <2>4. /\ line \in Seq(Stored) /\ Len(line) = rest + 1
        /\ \A j \in 1 .. rest : line[j] = Edit[j]
        /\ line[rest + 1] = NL
    BY <2>2, AppendProperties
  <2> HIDE DEF line
  <2>5. /\ all \in Seq(Stored) /\ Len(all) = fin + (rest + 1)
        /\ \A j \in 1 .. fin + (rest + 1) :
             all[j] = IF j <= fin THEN Committed[j] ELSE line[j - fin]
    <3>1. /\ all \in Seq(Stored) /\ Len(all) = Len(Committed) + Len(line)
          /\ \A j \in 1 .. Len(Committed) + Len(line) :
               all[j] = IF j <= Len(Committed) THEN Committed[j]
                        ELSE line[j - Len(Committed)]
      BY <2>1, <2>4, ConcatProperties
    <3> HIDE DEF all
    <3> QED
      BY <2>1, <2>4, <3>1
  <2> HIDE DEF all
  <2>6. ASSUME NEW j \in 1 .. Held + 1 PROVE Committed'[j] = all[j]
    <3>1. Committed'[j] = ttyBuffer'[Forward(r, 0 + j - 1)]
      BY <1>9 DEF IsStretch
    <3>2. all[j] = IF j <= fin THEN Committed[j] ELSE line[j - fin]
      BY <1>6, <2>5
    <3>3. CASE j <= fin
      <4>1. j \in 1 .. fin /\ 0 + j - 1 \in Index /\ 0 + j - 1 < Held
        BY <1>3, <1>6, <3>3
      <4>2. Committed[j] = ttyBuffer[Forward(r, 0 + j - 1)]
        BY <1>7, <4>1 DEF IsStretch
      <4> QED
        BY <1>10, <3>1, <3>2, <3>3, <4>1, <4>2
    <3>4. CASE j > fin /\ j <= Held
      <4>1. /\ j - fin \in 1 .. rest /\ 0 + j - 1 \in Index /\ 0 + j - 1 < Held
            /\ fin + (j - fin) - 1 = 0 + j - 1 /\ ~(j <= fin)
        BY <1>3, <1>6, <3>4
      <4>2. Edit[j - fin] = ttyBuffer[Forward(r, fin + (j - fin) - 1)]
        BY <1>7, <4>1 DEF IsStretch
      <4>3. line[j - fin] = Edit[j - fin]
        BY <2>4, <4>1
      <4> QED
        BY <1>10, <3>1, <3>2, <4>1, <4>2, <4>3
    <3>5. CASE j = Held + 1
      <4>1. j - fin = rest + 1 /\ ~(j <= fin) /\ 0 + j - 1 = Held
        BY <1>3, <1>6, <3>5
      <4>2. ttyBuffer'[Forward(r, Held)] = NL
        BY <1>1, CharStored
      <4> QED
        BY <3>1, <3>2, <4>1, <4>2, <2>4
    <3> QED
      BY <1>3, <1>6, <3>3, <3>4, <3>5
  <2>7. all \in Seq(Stored) /\ Len(all) = Len(Committed')
    BY <1>6, <2>3, <2>5
  <2>8. \A j \in 1 .. Len(Committed') : Committed'[j] = all[j]
    BY <2>3, <2>6
  <2>9. Committed' = all
    BY <2>3, <2>7, <2>8, SeqEqual
  <2> QED
    BY <2>9 DEF all, line
<1>13. (isEmpty /\ isFull)' = (isEmpty /\ isFull)
  BY <1>2, <1>3
<1> QED
  BY <1>2, <1>3, <1>11, <1>12, <1>13, FullFacts DEF Q!Commit, Committed, Edit

\* The sequences depend on the ring and its indices only.
LEMMA QueueUnchanged ==
  ASSUME UNCHANGED <<ttyBuffer, isFull, r, w, insert>>
  PROVE  UNCHANGED <<Committed, Edit>>
BY DEF Committed, Edit, Stretch, CommittedLength, Held, Readable, Before

\* A read of a terminal that says it is empty returns nothing.
LEMMA StepReadEmpty ==
  ASSUME Inv, NEW n \in ReadSizes, isEmpty, TtyRead(n)
  PROVE  Q!Nothing(n)
<1>1. dest' = <<>> /\ UNCHANGED <<ttyBuffer, isEmpty, isFull, r, w, insert>>
  BY DEF TtyRead
<1>2. UNCHANGED <<Committed, Edit>>
  BY <1>1, QueueUnchanged
<1>3. Len(Committed) = CommittedLength
  BY QueueFacts DEF IsStretch
<1>4. isFull \/ CommittedLength = 0
  BY LengthFacts DEF Inv, IndicesAgree
<1>5. (isEmpty /\ isFull)' = ((isEmpty /\ isFull) \/ Q!Full)
  BY <1>1, FullFacts
<1> QED
  BY <1>1, <1>2, <1>3, <1>4, <1>5 DEF Q!Nothing, Committed, Edit

\* A read that takes no character returns nothing, and jams a full ring.
LEMMA StepReadNone ==
  ASSUME Inv, NEW n \in ReadSizes, ReadTakes(0, n)
  PROVE  Q!Nothing(n)
<1> USE SizeFacts
<1> HIDE DEF N, Index
<1>1. Readable \in Index /\ 0 \in 0 .. Readable
  BY LengthFacts
<1>2. r' = r /\ (isFull' <=> isFull) /\ (isEmpty' <=> r = insert)
  BY <1>1, ReadFacts
<1>3. isFull' = isFull
  BY DEF ReadTakes, Inv, TypeOK
<1>4. UNCHANGED <<ttyBuffer, w, insert>> /\ ~isEmpty
  BY DEF ReadTakes
<1>5. UNCHANGED <<Committed, Edit>>
  BY <1>2, <1>3, <1>4, QueueUnchanged
<1>6. dest' = <<>>
  BY DEF ReadTakes
<1>7. n = 0 \/ Readable = 0
  BY <1>1, ReadAssumption DEF ReadTakes, LoopStops
<1>8. Len(Committed) = CommittedLength
  BY QueueFacts DEF IsStretch
<1>9. Readable = 0 => CommittedLength \in {0, N}
  BY LengthFacts
<1>10. (isEmpty /\ isFull)' = ((isEmpty /\ isFull) \/ Q!Full)
  <2>1. insert = r <=> isFull
    BY <1>4 DEF Inv, IndicesAgree
  <2> QED
    BY <1>2, <1>4, <2>1, FullFacts
<1> QED
  BY <1>5, <1>6, <1>7, <1>8, <1>9, <1>10 DEF Q!Nothing, Committed, Edit

\* A read that takes k characters delivers the first k of the oldest line.
LEMMA StepDeliver ==
  ASSUME Inv, Inv', NEW n \in ReadSizes, NEW k \in 1 .. Readable, ReadTakes(k, n)
  PROVE  Q!Deliver(n)
<1> USE SizeFacts
<1> HIDE DEF N, Index
<1>1. /\ Readable \in Index /\ Readable = Distance(r, w) /\ Held \in Nat /\ Held <= N
      /\ Readable <= Held
  BY LengthFacts DEF Inv, IndicesAgree
<1>2. k \in 0 .. Readable
  BY <1>1
<1>3. /\ r' = Forward(r, k) /\ r' \in Index
      /\ Readable' = Readable - k /\ Held' = Held - k
      /\ ~isFull' /\ w # r
  BY <1>2, ReadFacts
<1>4. /\ UNCHANGED <<ttyBuffer, w, insert>> /\ ~isEmpty
      /\ dest' = [j \in 1 .. k |-> Waiting(j)]
      /\ LoopStops(k, n)
  BY DEF ReadTakes
<1>5. r \in Index /\ w \in Index /\ insert \in Index /\ ttyBuffer \in [Index -> Stored]
  BY DEF Inv, TypeOK, Stored
<1> DEFINE fin == Readable
           rest == Held - Readable
<1>6. CommittedLength = fin
  BY <1>3, LengthFacts
<1>7. CommittedLength' = fin - k
  <2>1. CommittedLength' = IF r' # w' THEN Readable' ELSE IF isFull' /\ ttyBuffer'[Before(insert')] = NL THEN N ELSE 0
    BY DEF CommittedLength, Before
  <2>2. w' = r' => Readable' = 0
    <3>1. w' = r' => Distance(r, w) = k
      BY <1>2, <1>3, <1>4, <1>5, <1>1 DEF Forward, Distance
    <3> QED
      BY <1>1, <1>3, <3>1
  <2> QED
    BY <1>3, <2>1, <2>2
<1>8. fin \in Nat /\ rest \in Nat /\ fin - k \in Nat /\ fin + rest = Held
  BY <1>1, <1>2
<1>9. IsStretch(Committed, ttyBuffer, r, 0, fin) /\ IsStretch(Edit, ttyBuffer, r, fin, rest)
  BY <1>6, QueueFacts
<1>10. Held' - CommittedLength' = rest /\ (fin - k) + rest <= N
  BY <1>1, <1>2, <1>3, <1>7
<1>11. /\ IsStretch(Committed', ttyBuffer, r', 0, fin - k)
       /\ IsStretch(Edit', ttyBuffer, r', fin - k, rest)
  BY <1>4, <1>7, <1>8, <1>10, QueueFactsNext DEF Inv
<1>12. fin < N /\ k \in 1 .. fin /\ fin + rest <= N
  BY <1>1
<1>13. \A j \in 1 .. fin : Waiting(j) = Committed[j]
  <2> SUFFICES ASSUME NEW j \in 1 .. fin PROVE Waiting(j) = Committed[j]
    OBVIOUS
  <2>1. Committed[j] = ttyBuffer[Forward(r, 0 + j - 1)] /\ 0 + j - 1 = j - 1
    BY <1>9 DEF IsStretch
  <2>2. (r + j - 1) % N = Forward(r, j - 1)
    BY ReadableRange DEF Inv
  <2> QED
    BY <2>1, <2>2 DEF Waiting
<1>14. k = n \/ Committed[k] = NL
  <2>1. CASE k = Readable
    <3>1. Committed[k] = ttyBuffer[Forward(r, 0 + k - 1)]
      BY <1>9, <1>12 DEF IsStretch
    <3>2. Before(w) = Forward(w, N - 1)
      BY <1>5, WrapStep
    <3>3. Forward(r, 0 + k - 1) = Forward(w, N - 1)
      BY <1>1, <1>3, <1>5, <2>1 DEF Forward, Distance
    <3>4. ttyBuffer[Before(w)] = NL
      BY <1>3 DEF Inv, LinesTerminated
    <3> QED
      BY <3>1, <3>2, <3>3, <3>4
  <2>2. CASE k # Readable
    BY <1>4, <1>12, <1>13, <2>2 DEF LoopStops
  <2> QED
    BY <2>1, <2>2
<1>15. k <= n /\ \A j \in 1 .. k - 1 : Committed[j] # NL
  <2>1. \A j \in 1 .. k - 1 : j \in 1 .. fin
    BY <1>8, <1>12
  <2> QED
    BY <1>4, <1>13, <2>1 DEF LoopStops
<1> HIDE DEF fin, rest
<1>16. Committed \in Seq(Stored) /\ Len(Committed) = fin
  BY <1>9 DEF IsStretch
<1>17. dest' = SubSeq(Committed, 1, k)
  <2>1. /\ SubSeq(Committed, 1, k) \in Seq(Stored)
        /\ Len(SubSeq(Committed, 1, k)) = k
        /\ \A j \in 1 .. k : SubSeq(Committed, 1, k)[j] = Committed[j]
    BY <1>8, <1>12, <1>16
  <2>2. \A j \in 1 .. k : j \in 1 .. fin
    BY <1>8, <1>12
  <2>3. /\ dest' \in Seq(Stored) /\ Len(dest') = k
        /\ \A j \in 1 .. k : dest'[j] = Committed[j]
    BY <1>4, <1>12, <1>13, <2>2 DEF Inv, TypeOK, Stored
  <2> QED
    BY <2>1, <2>3, SeqEqual
<1>18. Committed' = SubSeq(Committed, k + 1, Len(Committed))
  <2> DEFINE tail == SubSeq(Committed, k + 1, fin)
  <2>1. /\ tail \in Seq(Stored)
        /\ Len(tail) = fin - k
        /\ \A j \in 1 .. fin - k : tail[j] = Committed[k + j]
    BY <1>8, <1>12, <1>16
  <2>2. Committed' \in Seq(Stored) /\ Len(Committed') = fin - k
    BY <1>11 DEF IsStretch
  <2> HIDE DEF tail
  <2>3. ASSUME NEW j \in 1 .. fin - k PROVE Committed'[j] = tail[j]
    <3>1. Committed'[j] = ttyBuffer[Forward(r', 0 + j - 1)]
      BY <1>11 DEF IsStretch
    <3>2. k + j \in 1 .. fin
      BY <1>8, <1>12
    <3>3. Committed[k + j] = ttyBuffer[Forward(r, 0 + (k + j) - 1)]
      BY <1>9, <3>2 DEF IsStretch
    <3>4. Forward(r', 0 + j - 1) = Forward(r, 0 + (k + j) - 1)
      BY <1>3, <1>5, <1>8, <1>12, <3>2 DEF Forward
    <3> QED
      BY <2>1, <3>1, <3>3, <3>4
  <2>4. Committed' = tail
    BY <2>1, <2>2, <2>3, SeqEqual
  <2> QED
    BY <1>16, <2>4 DEF tail
<1>19. Edit' = Edit
  <2>1. ASSUME NEW j \in 1 .. rest
        PROVE  ttyBuffer[Forward(r', (fin - k) + j - 1)] = ttyBuffer[Forward(r, fin + j - 1)]
    <3>1. Forward(r', (fin - k) + j - 1) = Forward(r, fin + j - 1)
      BY <1>3, <1>5, <1>8, <1>12 DEF Forward
    <3> QED
      BY <3>1
  <2> QED
    BY <1>8, <1>9, <1>11, <2>1, StretchEqual
<1>20. ~(isEmpty /\ isFull) /\ (isEmpty /\ isFull)' = (isEmpty /\ isFull)
  BY <1>3, <1>4
<1>21. k \in 1 .. Len(Committed) /\ Len(Committed) < N
  BY <1>12, <1>16
<1> QED
  BY <1>14, <1>15, <1>17, <1>18, <1>19, <1>20, <1>21 DEF Q!Deliver, Committed, Edit

LEMMA StepRefines == Inv /\ Inv' /\ [Next]_vars => [Q!QNext]_Q!qvars
<1> SUFFICES ASSUME Inv, Inv', [Next]_vars PROVE [Q!QNext]_Q!qvars
  OBVIOUS
<1>1. ASSUME NEW c \in Keys, TtyBufferInsert(c) PROVE Q!QNext
  <2>1. CASE c = BACKSPACE
    BY <1>1, <2>1, StepErase DEF TtyBufferInsert, Q!QNext
  <2>2. CASE c \in Letters
    <3>1. c # BACKSPACE
      BY <2>2, CharAssumption
    <3>2. Q!Type(c)
      BY <1>1, <2>2, <3>1, StepType DEF TtyBufferInsert
    <3> QED
      BY <2>2, <3>2 DEF Q!QNext
  <2>3. CASE c \in {NL, CR}
    <3>1. c # BACKSPACE
      BY <2>3, CharAssumption
    <3> QED
      BY <1>1, <2>3, <3>1, StepCommit DEF TtyBufferInsert, Q!QNext
  <2> QED
    BY <2>1, <2>2, <2>3 DEF Keys
<1>2. ASSUME NEW n \in ReadSizes, TtyRead(n) PROVE Q!QNext
  <2>1. CASE isEmpty
    <3>1. Q!Nothing(n)
      BY <1>2, <2>1, StepReadEmpty
    <3> QED
      BY <3>1 DEF Q!QNext
  <2>2. CASE ~isEmpty
    <3>1. PICK k \in 0 .. Readable : ReadTakes(k, n)
      BY <1>2, <2>2 DEF TtyRead, ReadTakes
    <3>2. Readable \in Nat
      BY LengthFacts, SizeFacts
    <3>3. CASE k = 0
      <4>1. Q!Nothing(n)
        BY <3>1, <3>3, StepReadNone
      <4> QED
        BY <4>1 DEF Q!QNext
    <3>4. CASE k # 0
      <4>1. k \in 1 .. Readable
        BY <3>2, <3>4
      <4>2. Q!Deliver(n)
        BY <3>1, <4>1, StepDeliver
      <4> QED
        BY <4>2 DEF Q!QNext
    <3> QED
      BY <3>3, <3>4
  <2> QED
    BY <2>1, <2>2
<1>3. CASE UNCHANGED vars
  <2>1. UNCHANGED <<ttyBuffer, isFull, r, w, insert>> /\ isEmpty' = isEmpty /\ dest' = dest
    BY <1>3 DEF vars
  <2>2. UNCHANGED <<Committed, Edit>>
    BY <2>1, QueueUnchanged
  <2> QED
    BY <2>1, <2>2 DEF Q!qvars, Committed, Edit
<1> QED
  BY <1>1, <1>2, <1>3 DEF Next

LEMMA InitRefines == Init => Q!QInit
<1> SUFFICES ASSUME Init PROVE Q!QInit
  OBVIOUS
<1> USE SizeFacts
<1> HIDE DEF N, Index
<1>1. Inv
  BY InitInv
<1>2. Readable = 0 /\ Held = 0
  BY <1>1, InvFacts DEF Init, Distance, Inv
<1>3. CommittedLength = 0 /\ Held - CommittedLength = 0
  <2>1. w = r /\ ~isFull
    BY DEF Init
  <2>2. CommittedLength = 0
    BY <1>1, <1>2, <2>1, LengthFacts
  <2> QED
    BY <1>2, <2>2
<1>4. Committed = <<>> /\ Edit = <<>>
  BY <1>3, <1>1, QueueFacts DEF IsStretch
<1> QED
  <2>1. dest = <<>> /\ (isEmpty /\ isFull) = FALSE
    BY DEF Init
  <2> QED
    BY <1>4, <2>1 DEF Q!QInit, Committed, Edit

\* For every size of the ring, the three indices and two flags of tty.c behave
\* as a queue of lines: no character is lost, repeated or reordered, only the
\* unfinished line is edited, and a read returns at most one line.
THEOREM Refinement == Spec => ImplementsQueue
<1>1. Inv /\ [Next]_vars => [Q!QNext]_Q!qvars
  BY NextInv, StepRefines
<1> QED
  BY <1>1, InitRefines, InvHolds, PTL DEF Spec, ImplementsQueue, Q!QSpec
=============================================================================
