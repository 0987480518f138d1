-------------------------------- MODULE Tty --------------------------------
(***************************************************************************)
(* The terminal of kernel/tty.c: a ring of TTY_BUFFER_SIZE characters that *)
(* the UART interrupt fills (UartInterruptHandle calls TtyBufferInsert)    *)
(* and the read system call on descriptor 0 empties (TtyRead).             *)
(*                                                                         *)
(* Both run with interrupts off, so each call is one action and they       *)
(* interleave in any order.  Characters between r and w are finished       *)
(* lines, those between w and insert the line being typed.  Output (the    *)
(* echo and TtyWrite) goes to the UART and leaves this state alone.        *)
(***************************************************************************)
EXTENDS Integers, Sequences

CONSTANTS
  TTY_BUFFER_SIZE,
  Letters,      \* characters with no special meaning
  NL, CR, BACKSPACE,
  NUL,          \* what the static buffer holds at boot
  ReadSizes     \* the sizes a process asks for

ASSUME SizeAssumption == TTY_BUFFER_SIZE \in Nat \ {0}
ASSUME CharAssumption ==
  /\ {NL, CR, BACKSPACE, NUL} \cap Letters = {}
  /\ NL # CR /\ NL # BACKSPACE /\ CR # BACKSPACE
  /\ NUL \notin {NL, CR, BACKSPACE}
ASSUME ReadAssumption == ReadSizes \subseteq Nat

VARIABLES
  ttyBuffer, isEmpty, isFull, r, w, insert,
  dest          \* the characters the last read returned

vars == <<ttyBuffer, isEmpty, isFull, r, w, insert, dest>>

N     == TTY_BUFFER_SIZE
Index == 0 .. N - 1
Keys  == Letters \cup {NL, CR, BACKSPACE}

Init ==
  /\ ttyBuffer = [k \in Index |-> NUL]
  /\ isEmpty = TRUE
  /\ isFull = FALSE
  /\ r = 0
  /\ w = 0
  /\ insert = 0
  /\ dest = <<>>

----------------------------------------------------------------------------
\* Mutant: the index is not wrapped.
Mutant_After_NoWrap(k) == k + 1

After(k)  == (k + 1) % N
Before(k) == (k + N - 1) % N

\* Mutant: erasing the last character does not make the terminal empty.
Mutant_InsertBackspace_KeepsEmpty ==
  /\ ~isFull
  /\ ~isEmpty
  /\ ttyBuffer[Before(insert)] # NL
  /\ insert' = Before(insert)
  /\ UNCHANGED <<ttyBuffer, isEmpty, isFull, r, w, dest>>

\* Mutant: backspace does not stop at a newline.
Mutant_InsertBackspace_ThroughNL ==
  /\ ~isFull
  /\ ~isEmpty
  /\ insert' = Before(insert)
  /\ isEmpty' = (Before(insert) = r)
  /\ UNCHANGED <<ttyBuffer, isFull, r, w, dest>>

\* The backspace branch: the unfinished line loses its last character.
InsertBackspace ==
  /\ ~isFull
  /\ ~isEmpty
  /\ ttyBuffer[Before(insert)] # NL
  /\ insert' = Before(insert)
  /\ isEmpty' = (Before(insert) = r)
  /\ UNCHANGED <<ttyBuffer, isFull, r, w, dest>>

\* Any other character; a carriage return is stored as a newline, and a
\* newline finishes the line.
InsertChar(c) ==
  LET stored == IF c = CR THEN NL ELSE c IN
  /\ ~isFull
  /\ ttyBuffer' = [ttyBuffer EXCEPT ![insert] = stored]
  /\ insert' = After(insert)
  /\ isEmpty' = FALSE
  /\ w' = IF stored = NL THEN After(insert) ELSE w
  /\ isFull' = (After(insert) = r)
  /\ UNCHANGED <<r, dest>>

\* A key pressed while the buffer is full, or a backspace with nothing to
\* erase, changes nothing.
TtyBufferInsert(c) ==
  IF c = BACKSPACE THEN InsertBackspace ELSE InsertChar(c)

\* The characters the loop of TtyRead may take, and the k-th of them.
Readable   == (w - r + N) % N
Waiting(k) == ttyBuffer[(r + k - 1) % N]

\* Mutant: the loop does not stop after a newline.
Mutant_LoopStops_NoBreak(k, n) == k <= n /\ (k = n \/ k = Readable)

\* Mutant: the loop leaves the last character in the buffer.
Mutant_LoopStops_Short(k, n) == k = (IF n < Readable THEN n ELSE Readable) - 1

\* The loop copies k characters and stops: n are copied, none is left before w,
\* or the last one was a newline.
LoopStops(k, n) ==
  /\ k <= n
  /\ \A j \in 1 .. k - 1 : Waiting(j) # NL
  /\ k = n \/ k = Readable \/ (k > 0 /\ Waiting(k) = NL)

TtyRead(n) ==
  \/ /\ isEmpty
     /\ dest' = <<>>
     /\ UNCHANGED <<ttyBuffer, isEmpty, isFull, r, w, insert>>
  \/ /\ ~isEmpty
     /\ \E k \in 0 .. Readable :
          /\ LoopStops(k, n)
          /\ dest' = [j \in 1 .. k |-> Waiting(j)]
          /\ r' = (r + k) % N
          /\ isFull' = (isFull /\ k = 0)
          /\ isEmpty' = ((r + k) % N = insert)
     /\ UNCHANGED <<ttyBuffer, w, insert>>

Next ==
  \/ \E c \in Keys : TtyBufferInsert(c)
  \/ \E n \in ReadSizes : TtyRead(n)

\* Interrupts come when they like.  The shell reads one character at a time in
\* a loop that nothing but input ends.
Spec     == Init /\ [][Next]_vars
FairSpec == Spec /\ WF_vars(TtyRead(1))

----------------------------------------------------------------------------
(***************************************************************************)
(* Properties                                                              *)
(***************************************************************************)
TypeOK ==
  /\ ttyBuffer \in [Index -> Letters \cup {NL, NUL}]
  /\ isEmpty \in BOOLEAN
  /\ isFull \in BOOLEAN
  /\ r \in Index
  /\ w \in Index
  /\ insert \in Index
  /\ dest \in Seq(Letters \cup {NL, NUL})

\* Characters held between r and insert.
Held == IF isFull THEN N ELSE (insert - r + N) % N

(***************************************************************************)
(* The three indices and the two flags agree: full and empty both mean     *)
(* that insert has met r, empty and not full that w has too, and w never   *)
(* leaves the stretch from r to insert, so no read runs into the line      *)
(* being typed or into characters read before.                             *)
(***************************************************************************)
IndicesAgree ==
  /\ isFull => insert = r
  /\ insert = r => isEmpty \/ isFull
  /\ isEmpty => insert = r
  /\ (isEmpty /\ ~isFull) => w = r
  /\ Readable <= Held

\* A finished line ends with its newline, right before w, and the line being
\* typed holds none: backspace cannot reach into a finished line, whatever
\* mixture of keys, backspaces and reads came before.  (A full ring whose w has
\* met r may hold finished lines or one unfinished line; nothing tells which.)
LinesTerminated ==
  /\ w # r => ttyBuffer[Before(w)] = NL
  /\ ~isFull \/ w # r => \A k \in Index :
       Readable <= k /\ k < Held => ttyBuffer[(r + k) % N] # NL

(***************************************************************************)
(* The queue of lines the ring stands for.                                 *)
(***************************************************************************)
CommittedLength ==
  IF r # w THEN Readable
  ELSE IF isFull /\ ttyBuffer[Before(insert)] = NL THEN N ELSE 0

Stretch(from, length) == [k \in 1 .. length |-> ttyBuffer[(from + k - 1) % N]]

Q == INSTANCE TtyQueue WITH
       Capacity  <- N,
       committed <- Stretch(r, CommittedLength),
       edit      <- Stretch(r + CommittedLength, Held - CommittedLength),
       got       <- dest,
       jammed    <- isEmpty /\ isFull

\* The ring implements the queue of lines: nothing is lost, repeated or
\* reordered as the indices wrap around, and only the unfinished line changes.
ImplementsQueue == Q!QSpec

\* A reader that keeps asking gets every character of a finished line, unless
\* the terminal has jammed: whatever waits at position k of the ring is read.
LineIsRead ==
  \A k \in Index : (w # r /\ r = k) ~> (r # k \/ (isEmpty /\ isFull))

\* kernel/uart.c reads the UART "while there is still data ready to be
\* received" and says "now put this characer into tty buffer": a full terminal
\* takes characters again once the reader has caught up.  (A buffer filled by
\* one unfinished line, or filled exactly by finished ones, never does.)
TakesKeysAgain == isFull ~> ~isFull
=============================================================================
