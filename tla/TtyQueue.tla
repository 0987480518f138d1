------------------------------ MODULE TtyQueue ------------------------------
(***************************************************************************)
(* What the terminal promises a reader: finished lines come out in the     *)
(* order they were typed, at most one line per read, and the line being    *)
(* typed can be edited until its newline.  The terminal holds Capacity     *)
(* characters; one that is full refuses keys, and a read that takes        *)
(* nothing from a full terminal jams it for good.                          *)
(***************************************************************************)
EXTENDS Naturals, Sequences

CONSTANTS Capacity, Letters, NL, ReadSizes

VARIABLES
  committed,   \* finished lines not read yet, newlines included
  edit,        \* the line being typed
  got,         \* what the last read returned
  jammed

qvars == <<committed, edit, got, jammed>>

Full == Len(committed) + Len(edit) = Capacity

QInit ==
  /\ committed = <<>>
  /\ edit = <<>>
  /\ got = <<>>
  /\ jammed = FALSE

Type(c) ==
  /\ ~Full
  /\ edit' = Append(edit, c)
  /\ UNCHANGED <<committed, got, jammed>>

Commit ==
  /\ ~Full
  /\ committed' = committed \o Append(edit, NL)
  /\ edit' = <<>>
  /\ UNCHANGED <<got, jammed>>

Erase ==
  /\ ~Full
  /\ edit # <<>>
  /\ edit' = SubSeq(edit, 1, Len(edit) - 1)
  /\ UNCHANGED <<committed, got, jammed>>

\* k characters of the oldest line: all of it, or the n asked for.
Deliver(n) ==
  /\ ~jammed
  /\ Len(committed) < Capacity
  /\ \E k \in 1 .. Len(committed) :
       /\ k <= n
       /\ \A j \in 1 .. k - 1 : committed[j] # NL
       /\ k = n \/ committed[k] = NL
       /\ got' = SubSeq(committed, 1, k)
       /\ committed' = SubSeq(committed, k + 1, Len(committed))
  /\ UNCHANGED <<edit, jammed>>

\* A read that returns nothing, which jams a full terminal.
Nothing(n) ==
  /\ jammed \/ n = 0 \/ Len(committed) \in {0, Capacity}
  /\ got' = <<>>
  /\ jammed' = (jammed \/ Full)
  /\ UNCHANGED <<committed, edit>>

QNext ==
  \/ \E c \in Letters : Type(c)
  \/ Commit
  \/ Erase
  \/ \E n \in ReadSizes : Deliver(n) \/ Nothing(n)

QSpec == QInit /\ [][QNext]_qvars
=============================================================================
