------------------------------ MODULE ProcLife ------------------------------
(***************************************************************************)
(* What the process table promises to the rest of the kernel, without page *)
(* tables or memory: which slots of proc_array hold a process, which one   *)
(* current_user_process points at, and when it runs.  KProc implements it  *)
(* and OpenFiles is built on it.                                           *)
(***************************************************************************)
EXTENDS Integers

CONSTANT NUM_PROCESSES

ASSUME SlotCountAssumption == NUM_PROCESSES \in Nat \ {0}

VARIABLES
  live,      \* slots whose state is not UNUSED
  current,   \* current_user_process
  cpu        \* "boot", "kernel" (the scheduler), "user" or "stopped"

lifeVars == <<live, current, cpu>>

Slots == 0 .. NUM_PROCESSES - 1

LifeTypeOK ==
  /\ live \subseteq Slots
  /\ current \in Slots
  /\ cpu \in {"boot", "kernel", "user", "stopped"}

LifeInit ==
  /\ live = {}
  /\ current = 0
  /\ cpu = "boot"

\* kernel_main creates the shell in the first slot and starts the scheduler.
Create ==
  /\ cpu = "boot"
  /\ live' = {0}
  /\ cpu' = "kernel"
  /\ UNCHANGED current

\* The scheduler enters a process.
Dispatch(i) ==
  /\ cpu = "kernel"
  /\ i \in live
  /\ current' = i
  /\ cpu' = "user"
  /\ UNCHANGED live

\* The running process forks into slot i, the first that is unused.
Fork(i) ==
  /\ cpu = "user"
  /\ i \in Slots \ live
  /\ \A j \in Slots : j < i => j \in live
  /\ live' = live \cup {i}
  /\ UNCHANGED <<current, cpu>>

Yield ==
  /\ cpu = "user"
  /\ cpu' = "kernel"
  /\ UNCHANGED <<live, current>>

Exit ==
  /\ cpu = "user"
  /\ live' = live \ {current}
  /\ cpu' = "kernel"
  /\ UNCHANGED current

Kill(i) ==
  /\ cpu = "user"
  /\ i \in live \ {current}
  /\ live' = live \ {i}
  /\ UNCHANGED <<current, cpu>>

\* The machine stops in kpanic.
Halt ==
  /\ cpu \in {"boot", "user"}
  /\ cpu' = "stopped"
  /\ UNCHANGED <<live, current>>

LifeNext ==
  \/ Create
  \/ \E i \in Slots : Dispatch(i) \/ Fork(i) \/ Kill(i)
  \/ Yield
  \/ Exit
  \/ Halt

LifeSpec == LifeInit /\ [][LifeNext]_lifeVars
=============================================================================
