------------------------------- MODULE Trap -------------------------------
(***************************************************************************)
(* Traps: how the hart gets into and out of the kernel.  kernel/ktrap.c,   *)
(* uservec.S, kernelvec.S, swtch.S, the interrupt set-up of start.c and    *)
(* kernel.c, and the PLIC and UART receive paths of plic.c and uart.c.     *)
(*                                                                         *)
(* One action is one step between two points where an interrupt could be   *)
(* taken if sstatus.SIE were set, so the model shows where it is set.  The *)
(* other modules treat a system call as one action: KernelNotInterrupted   *)
(* is what entitles them to.                                               *)
(*                                                                         *)
(* A code location is a record: kernel code by the name of the function    *)
(* about to run, user code by a number.  The register file of a user       *)
(* program is one abstract value.                                          *)
(***************************************************************************)
EXTENDS Integers

CONSTANTS
  NUM_PROCESSES,   \* slots of proc_array
  NumInstr,        \* instructions of a user program; 0 is its entry
  Regs,            \* values of the register file
  MaxRx            \* characters the UART can hold

ASSUME TrapAssumption ==
  /\ NUM_PROCESSES \in Nat \ {0}
  /\ NumInstr \in Nat \ {0}
  /\ Regs # {}
  /\ MaxRx \in Nat \ {0}

VARIABLES
  priv,            \* privilege level of the hart
  pc,              \* where it executes
  reg,             \* its register file, while user values are in it
  sie, spie, spp,  \* fields of sstatus
  stvec, sepc, scause,
  root,            \* whose page table is in satp (or KernelRoot)
  plic,            \* the UART's interrupt at the PLIC: idle, pending, claimed
  rx,              \* characters waiting in the UART
  enabled,         \* PlicInitHart has let the interrupt through
  live, current,   \* processes and current_user_process
  frame,           \* trapframe of each slot: epc and registers
  ra,              \* context.ra of each slot
  at,              \* history: what the program of each slot should see next
  entered          \* history: a process has run in user mode

csr  == <<sie, spie, spp, stvec, sepc, scause>>
dev  == <<plic, rx, enabled>>
tbl  == <<live, current, frame, ra, at>>
vars == <<priv, pc, reg, csr, root, dev, tbl, entered>>

Slots      == 0 .. NUM_PROCESSES - 1
KernelRoot == NUM_PROCESSES
Instr      == 0 .. NumInstr - 1

KernelCode ==
  {"ktrap_init", "PlicInitHart", "kernel_main", "kproc_scheduler", "ksys_sleep",
   "ktrap_to_user", "set_sstatus", "set_sepc", "enter_user_process", "sret",
   "uservec", "ktrap_from_user_handler", "kernelvec", "KtrapInterruptHandle",
   "UartInterruptHandle", "PlicComplete", "PlicCompleteAgain", "kpanic"}

K(f)    == [code |-> f, n |-> 0]
U(n)    == [code |-> "user", n |-> n]
Kernel  == {K(f) : f \in KernelCode}
User    == {U(n) : n \in Instr}
Entry   == [epc |-> U(0), regs |-> CHOOSE v \in Regs : TRUE]
Calls   == {"fork", "exec", "exit", "kill", "sleep", "other"}
Causes  == Calls \cup {"fault", "external"}

\* start_setup has left SIE set and everything delegated; kernel_main has run
\* up to ktrap_init.
Init ==
  /\ priv = "S"
  /\ pc = K("ktrap_init")
  /\ reg \in Regs
  /\ sie = TRUE /\ spie = FALSE /\ spp = "U"
  /\ stvec = "none" /\ sepc = U(0) /\ scause = "none"
  /\ root = KernelRoot
  /\ plic = "idle" /\ rx = 0 /\ enabled = FALSE
  /\ live = {} /\ current = 0
  /\ frame = [i \in Slots |-> Entry]
  /\ ra = [i \in Slots |-> "ktrap_to_user"]
  /\ at = [i \in Slots |-> Entry]
  /\ entered = FALSE

----------------------------------------------------------------------------
(***************************************************************************)
(* The hart (external): taking a trap, and sret.                           *)
(***************************************************************************)
TakeTrap(cause) ==
  /\ sepc' = pc
  /\ scause' = cause
  /\ spp' = priv
  /\ spie' = sie
  /\ sie' = FALSE
  /\ priv' = "S"
  /\ pc' = K(stvec)
  /\ UNCHANGED stvec

sret ==
  /\ pc = K("sret")
  /\ pc' = sepc
  /\ priv' = spp
  /\ sie' = spie
  /\ spie' = TRUE
  /\ spp' = "U"
  /\ entered' = (entered \/ spp = "U")
  /\ UNCHANGED <<reg, stvec, sepc, scause, root, dev, tbl>>

\* An external interrupt is taken in user mode, or in the kernel with SIE set.
Interrupt ==
  /\ enabled
  /\ plic = "pending"
  /\ priv = "U" \/ sie
  /\ TakeTrap("external")
  /\ UNCHANGED <<reg, root, dev, tbl, entered>>

\* The devices (external): characters arrive, and the UART raises its line for
\* them or because it can transmit; the line stays up while characters wait.
Receive ==
  /\ rx < MaxRx
  /\ rx' = rx + 1
  /\ UNCHANGED <<priv, pc, reg, csr, root, plic, enabled, tbl, entered>>

Raise ==
  /\ enabled
  /\ plic = "idle"
  /\ plic' = "pending"
  /\ UNCHANGED <<priv, pc, reg, csr, root, rx, enabled, tbl, entered>>

----------------------------------------------------------------------------
(***************************************************************************)
(* User code: any instruction may follow any other.  An ecall returns to   *)
(* the instruction after it.                                               *)
(***************************************************************************)
UserStep ==
  /\ priv = "U"
  /\ \E n \in Instr, v \in Regs :
       /\ pc' = U(n)
       /\ reg' = v
       /\ at' = [at EXCEPT ![current] = [epc |-> U(n), regs |-> v]]
  /\ UNCHANGED <<priv, csr, root, dev, live, current, frame, ra, entered>>

After(p) == U((p.n + 1) % NumInstr)

\* An ecall, or any other exception of the program.
Exception ==
  /\ priv = "U"
  /\ \E cause \in Calls \cup {"fault"} : TakeTrap(cause)
  /\ at' = [at EXCEPT ![current].epc = After(pc)]
  /\ UNCHANGED <<reg, root, dev, live, current, frame, ra, entered>>

----------------------------------------------------------------------------
(***************************************************************************)
(* Boot.                                                                   *)
(***************************************************************************)
Goto(f) == pc' = K(f)

\* Mutant: the trap vector is not set before interrupts are let through.
Mutant_ktrap_init_Late ==
  /\ pc = K("ktrap_init")
  /\ Goto("PlicInitHart")
  /\ UNCHANGED <<priv, reg, csr, root, dev, tbl, entered>>

ktrap_init ==
  /\ pc = K("ktrap_init")
  /\ stvec' = "kernelvec"
  /\ Goto("PlicInitHart")
  /\ UNCHANGED <<priv, reg, sie, spie, spp, sepc, scause, root, dev, tbl, entered>>

PlicInitHart ==
  /\ pc = K("PlicInitHart")
  /\ enabled' = TRUE
  /\ Goto("kernel_main")
  /\ UNCHANGED <<priv, reg, csr, root, plic, rx, tbl, entered>>

\* The rest of kernel_main: drivers, kproc_create, and on to the scheduler.
kernel_main ==
  /\ pc = K("kernel_main")
  /\ live' = {0}
  /\ frame' = [frame EXCEPT ![0] = Entry]
  /\ at' = [at EXCEPT ![0] = Entry]
  /\ ra' = [ra EXCEPT ![0] = "ktrap_to_user"]
  /\ Goto("kproc_scheduler")
  /\ UNCHANGED <<priv, reg, csr, root, dev, current, entered>>

(***************************************************************************)
(* swtch out of the scheduler, in whatever order it comes (KProc has the   *)
(* order); with no process left it spins.                                  *)
(***************************************************************************)
kproc_scheduler ==
  /\ pc = K("kproc_scheduler")
  /\ \/ \E i \in live : current' = i /\ Goto(ra[i])
     \/ live = {} /\ UNCHANGED <<current, pc>>
  /\ UNCHANGED <<priv, reg, csr, root, dev, live, frame, ra, at, entered>>

\* A sleeping process returns through the system call switch, which stores the
\* result in its frame.
ksys_sleep ==
  /\ pc = K("ksys_sleep")
  /\ \E v \in Regs :
       /\ frame' = [frame EXCEPT ![current].regs = v]
       /\ at' = [at EXCEPT ![current].regs = v]
  /\ Goto("ktrap_to_user")
  /\ UNCHANGED <<priv, reg, csr, root, dev, live, current, ra, entered>>

----------------------------------------------------------------------------
(***************************************************************************)
(* ktrap_to_user, instruction by instruction where an interrupt matters.   *)
(***************************************************************************)
\* Mutant: the trap vector is left as the handler set it.
Mutant_ktrap_to_user_NoVector ==
  /\ pc = K("ktrap_to_user")
  /\ Goto("set_sstatus")
  /\ UNCHANGED <<priv, reg, csr, root, dev, tbl, entered>>

ktrap_to_user ==
  /\ pc = K("ktrap_to_user")
  /\ stvec' = "uservec"
  /\ Goto("set_sstatus")
  /\ UNCHANGED <<priv, reg, sie, spie, spp, sepc, scause, root, dev, tbl, entered>>

set_sstatus ==
  /\ pc = K("set_sstatus")
  /\ spp' = "U"
  /\ spie' = TRUE
  /\ Goto("set_sepc")
  /\ UNCHANGED <<priv, reg, sie, stvec, sepc, scause, root, dev, tbl, entered>>

set_sepc ==
  /\ pc = K("set_sepc")
  /\ sepc' = frame[current].epc
  /\ Goto("enter_user_process")
  /\ UNCHANGED <<priv, reg, sie, spie, spp, stvec, scause, root, dev, tbl, entered>>

\* The frame is read through VA_TRAPFRAME, after satp has been loaded.
enter_user_process ==
  /\ pc = K("enter_user_process")
  /\ root' = current
  /\ reg' = frame[current].regs
  /\ Goto("sret")
  /\ UNCHANGED <<priv, csr, dev, tbl, entered>>

----------------------------------------------------------------------------
(***************************************************************************)
(* From user mode: uservec saves the registers at VA_TRAPFRAME, which the  *)
(* kernel's own page table does not map.                                   *)
(***************************************************************************)
uservec ==
  /\ pc = K("uservec")
  /\ root \in Slots
  /\ frame' = [frame EXCEPT ![root].regs = reg]
  /\ Goto("ktrap_from_user_handler")
  /\ UNCHANGED <<priv, reg, csr, root, dev, live, current, ra, at, entered>>

uservec_fault ==
  /\ pc = K("uservec")
  /\ root = KernelRoot
  /\ TakeTrap("fault")
  /\ UNCHANGED <<reg, root, dev, tbl, entered>>

\* What every trap from user mode starts with.
EnterHandler ==
  /\ pc = K("ktrap_from_user_handler")
  /\ stvec' = "kernelvec"
  /\ UNCHANGED <<priv, reg, spie, spp, sepc, scause, root, dev, entered>>

\* The panic of a trap that did not come from user mode.
FromKernel ==
  /\ EnterHandler
  /\ spp = "S"
  /\ frame' = [frame EXCEPT ![current].epc = sepc]
  /\ Goto("kpanic")
  /\ UNCHANGED <<sie, live, current, ra, at>>

\* Mutant: the handler turns interrupts back on, as its comment suggests.
Mutant_HandleInterrupt_Interruptible ==
  /\ EnterHandler
  /\ spp = "U"
  /\ scause = "external"
  /\ frame' = [frame EXCEPT ![current].epc = sepc]
  /\ sie' = TRUE
  /\ Goto("KtrapInterruptHandle")
  /\ UNCHANGED <<live, current, ra, at>>

HandleInterrupt ==
  /\ EnterHandler
  /\ spp = "U"
  /\ scause = "external"
  /\ frame' = [frame EXCEPT ![current].epc = sepc]
  /\ Goto("KtrapInterruptHandle")
  /\ UNCHANGED <<sie, live, current, ra, at>>

\* An exception: epc is moved past the ecall before the call is made.
Syscall(call) ==
  /\ EnterHandler
  /\ spp = "U"
  /\ scause = call
  /\ UNCHANGED sie

\* Anything but a known system call is fatal.
UnhandledException ==
  /\ Syscall("fault")
  /\ frame' = [frame EXCEPT ![current].epc = After(sepc)]
  /\ Goto("kpanic")
  /\ UNCHANGED <<live, current, ra, at>>

\* Mutant: epc is not moved past the ecall.
Mutant_SysOther_SameInstr ==
  /\ Syscall("other")
  /\ \E v \in Regs :
       /\ frame' = [frame EXCEPT ![current] = [epc |-> sepc, regs |-> v]]
       /\ at' = [at EXCEPT ![current].regs = v]
  /\ Goto("ktrap_to_user")
  /\ UNCHANGED <<live, current, ra>>

\* read, write, open, close, sbrk, getpid, an exec that finds no file: back
\* with the result in the frame.
SysOther ==
  /\ Syscall("other")
  /\ \E v \in Regs :
       /\ frame' = [frame EXCEPT ![current] = [epc |-> After(sepc), regs |-> v]]
       /\ at' = [at EXCEPT ![current].regs = v]
  /\ Goto("ktrap_to_user")
  /\ UNCHANGED <<live, current, ra>>

\* fork: the child gets a copy of the frame; the two results differ.
SysFork ==
  /\ Syscall("fork")
  /\ IF live = Slots
     THEN /\ frame' = [frame EXCEPT ![current].epc = After(sepc)]
          /\ Goto("kpanic")
          /\ UNCHANGED <<live, ra, at>>
     ELSE \E i \in Slots \ live, v, v0 \in Regs :
          /\ \A j \in Slots : j < i => j \in live
          /\ live' = live \cup {i}
          /\ frame' = [frame EXCEPT ![current] = [epc |-> After(sepc), regs |-> v],
                                    ![i] = [epc |-> After(sepc), regs |-> v0]]
          /\ at' = [at EXCEPT ![current].regs = v,
                              ![i] = [epc |-> at[current].epc, regs |-> v0]]
          /\ ra' = [ra EXCEPT ![i] = "ktrap_to_user"]
          /\ Goto("ktrap_to_user")
  /\ UNCHANGED current

\* exec: a new frame with the entry of the new program and its arguments.
SysExec ==
  /\ Syscall("exec")
  /\ \E v \in Regs :
       /\ frame' = [frame EXCEPT ![current] = [epc |-> U(0), regs |-> v]]
       /\ at' = [at EXCEPT ![current] = [epc |-> U(0), regs |-> v]]
  /\ ra' = [ra EXCEPT ![current] = "ktrap_to_user"]
  /\ Goto("ktrap_to_user")
  /\ UNCHANGED <<live, current>>

\* Mutant: kproc_free does not yield, and exit returns to its caller.
Mutant_SysExit_Returns ==
  /\ Syscall("exit")
  /\ live' = live \ {current}
  /\ frame' = [frame EXCEPT ![current].epc = After(sepc)]
  /\ Goto("ktrap_to_user")
  /\ UNCHANGED <<current, ra, at>>

SysExit ==
  /\ Syscall("exit")
  /\ live' = live \ {current}
  /\ frame' = [frame EXCEPT ![current].epc = After(sepc)]
  /\ Goto("kproc_scheduler")
  /\ UNCHANGED <<current, ra, at>>

\* kill of another process, or of none; kill of oneself is an exit.
SysKill ==
  /\ Syscall("kill")
  /\ \E victim \in {{}} \cup {{i} : i \in Slots \ {current}}, v \in Regs :
       /\ live' = live \ victim
       /\ frame' = [frame EXCEPT ![current] = [epc |-> After(sepc), regs |-> v]]
       /\ at' = [at EXCEPT ![current].regs = v]
  /\ Goto("ktrap_to_user")
  /\ UNCHANGED <<current, ra>>

SysSleep ==
  /\ Syscall("sleep")
  /\ frame' = [frame EXCEPT ![current].epc = After(sepc)]
  /\ ra' = [ra EXCEPT ![current] = "ksys_sleep"]
  /\ Goto("kproc_scheduler")
  /\ UNCHANGED <<live, current, at>>

----------------------------------------------------------------------------
(***************************************************************************)
(* From the kernel, and what both handlers do with the interrupt.          *)
(***************************************************************************)
\* kernelvec saves the registers on the stack it finds; the handler panics on
\* a trap from user mode and on any exception.
kernelvec ==
  /\ pc = K("kernelvec")
  /\ Goto(IF spp = "S" /\ scause = "external" THEN "KtrapInterruptHandle" ELSE "kpanic")
  /\ UNCHANGED <<priv, reg, csr, root, dev, tbl, entered>>

KtrapInterruptHandle ==
  /\ pc = K("KtrapInterruptHandle")
  /\ plic' = "claimed"
  /\ Goto("UartInterruptHandle")
  /\ UNCHANGED <<priv, reg, csr, root, rx, enabled, tbl, entered>>

\* The loop takes every character that is ready.
UartInterruptHandle ==
  /\ pc = K("UartInterruptHandle")
  /\ rx' = 0
  /\ Goto("PlicComplete")
  /\ UNCHANGED <<priv, reg, csr, root, plic, enabled, tbl, entered>>

\* Mutant: the handler returns without telling the PLIC.
Mutant_PlicComplete_Missing ==
  /\ pc = K("PlicComplete")
  /\ Goto(IF spp = "S" THEN "PlicCompleteAgain" ELSE "ktrap_to_user")
  /\ UNCHANGED <<priv, reg, csr, root, dev, tbl, entered>>

PlicComplete ==
  /\ pc = K("PlicComplete")
  /\ plic' = "idle"
  /\ Goto(IF spp = "S" THEN "PlicCompleteAgain" ELSE "ktrap_to_user")
  /\ UNCHANGED <<priv, reg, csr, root, rx, enabled, tbl, entered>>

\* ktrap_from_supervisor_handler completes once more; the PLIC ignores it
\* unless the interrupt is claimed.  Back through kernelvec to sepc.
PlicCompleteAgain ==
  /\ pc = K("PlicCompleteAgain")
  /\ plic' = IF plic = "claimed" THEN "idle" ELSE plic
  /\ Goto("sret")
  /\ UNCHANGED <<priv, reg, csr, root, rx, enabled, tbl, entered>>

kpanic == pc = K("kpanic") /\ UNCHANGED vars

KernelStep ==
  \/ ktrap_init \/ PlicInitHart \/ kernel_main
  \/ kproc_scheduler \/ ksys_sleep
  \/ ktrap_to_user \/ set_sstatus \/ set_sepc \/ enter_user_process \/ sret
  \/ uservec \/ uservec_fault \/ FromKernel \/ HandleInterrupt \/ UnhandledException
  \/ SysOther \/ SysFork \/ SysExec \/ SysExit \/ SysKill \/ SysSleep
  \/ kernelvec \/ KtrapInterruptHandle \/ UartInterruptHandle
  \/ PlicComplete \/ PlicCompleteAgain \/ kpanic

Next == KernelStep \/ UserStep \/ Exception \/ Interrupt \/ Receive \/ Raise

Spec == Init /\ [][Next]_vars

\* The hart goes on executing the kernel, takes an interrupt that stays
\* pending and enabled, and the UART holds its line up while characters wait.
FairSpec ==
  Spec /\ WF_vars(KernelStep) /\ SF_vars(Interrupt) /\ WF_vars(rx > 0 /\ Raise)

----------------------------------------------------------------------------
(***************************************************************************)
(* Properties                                                              *)
(***************************************************************************)
Place == [epc : User \cup Kernel, regs : Regs]

TypeOK ==
  /\ priv \in {"S", "U"}
  /\ pc \in User \cup Kernel
  /\ reg \in Regs
  /\ sie \in BOOLEAN /\ spie \in BOOLEAN /\ spp \in {"S", "U"}
  /\ stvec \in {"none", "kernelvec", "uservec"}
  /\ sepc \in User \cup Kernel
  /\ scause \in Causes \cup {"none"}
  /\ root \in Slots \cup {KernelRoot}
  /\ plic \in {"idle", "pending", "claimed"}
  /\ rx \in 0 .. MaxRx
  /\ enabled \in BOOLEAN
  /\ live \subseteq Slots
  /\ current \in Slots
  /\ frame \in [Slots -> Place]
  /\ ra \in [Slots -> {"ktrap_to_user", "ksys_sleep"}]
  /\ at \in [Slots -> Place]
  /\ entered \in BOOLEAN

\* Once a process has run, the kernel never executes with interrupts on: SIE
\* stays clear from the trap through swtch, the scheduler and other processes'
\* kernel stacks to the next sret.  Every system call is therefore atomic.
KernelNotInterrupted == entered /\ priv = "S" => ~sie

\* A process always goes on where it was interrupted (after its ecall, at the
\* entry of the program it has exec'ed, where its parent forked) with the
\* registers it had or the result it was given, on its own page table.
ResumesAtTrap ==
  priv = "U" =>
    /\ [epc |-> pc, regs |-> reg] = at[current]
    /\ root = current
    /\ current \in live

\* The trap vector always matches the mode: no trap from user mode reaches the
\* panic of ktrap_from_supervisor_handler, and no trap is taken before
\* ktrap_init has set a vector.
VectorsAgree ==
  /\ priv = "U" => stvec = "uservec"
  /\ pc = K("kernelvec") => spp = "S"
  /\ enabled => stvec # "none"

\* An interrupt claimed at the PLIC is completed before any process runs again.
NoClaimInUser == priv = "U" => plic # "claimed"

\* A character the UART has received is taken, whatever the programs do, unless
\* the machine has stopped: in kpanic, faulting in uservec, or in a scheduler
\* that spins with interrupts off because the last process has exited.
CharacterTaken ==
  (enabled /\ rx > 0) ~>
    \/ rx = 0
    \/ pc = K("kpanic")
    \/ pc = K("uservec") /\ root = KernelRoot
    \/ pc = K("kproc_scheduler") /\ live = {}

(***************************************************************************)
(* What the hart does for the life cycle of ProcLife.  Serving an          *)
(* interrupt of the booting kernel counts as what was interrupted.         *)
(***************************************************************************)
Serving ==
  {"kernelvec", "KtrapInterruptHandle", "UartInterruptHandle",
   "PlicComplete", "PlicCompleteAgain", "sret"}

Doing == IF spp = "S" /\ pc.code \in Serving THEN sepc.code ELSE pc.code

LifeCpu ==
  CASE Doing \in {"ktrap_init", "PlicInitHart", "kernel_main"} -> "boot"
    [] Doing = "kproc_scheduler" -> "kernel"
    [] Doing = "kpanic" -> "stopped"
    [] OTHER -> "user"

Life == INSTANCE ProcLife WITH cpu <- LifeCpu

\* Seen through traps, interrupts and context switches at any point, the table
\* of processes still goes through the steps of the abstract life cycle only.
ImplementsLife == Life!LifeSpec

\* The assertion of kernel/ktrap.c:62: the user trap handler is never reached
\* from supervisor mode.  (On the way to the first process SIE is still set
\* from boot, and stvec already points at uservec.)
UservecOnlyFromUser == pc = K("ktrap_from_user_handler") => spp = "U"
=============================================================================
