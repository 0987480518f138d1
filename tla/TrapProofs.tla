---------------------------- MODULE TrapProofs ----------------------------
(***************************************************************************)
(* Proofs about Trap: the kernel is never interrupted once a process has   *)
(* run, the trap vector matches the mode, a process always resumes with    *)
(* the state it was interrupted in, and the trap path implements the life  *)
(* cycle of ProcLife.                                                      *)
(*                                                                         *)
(* The invariant has two parts.  Control says which sstatus, stvec and     *)
(* PLIC states go with which place in the code; Data says, for the same    *)
(* places, which parts of the trap frames are up to date.                  *)
(***************************************************************************)
EXTENDS Trap, TLAPS

\* Kernel code that runs with SIE set before the first process is entered and
\* that kernelvec can return to.
Interruptible == {"kernel_main", "kproc_scheduler", "ksys_sleep", "ktrap_to_user"}

Leaving == {"set_sstatus", "set_sepc", "enter_user_process"}
UserEntry == {"uservec", "ktrap_from_user_handler"}

\* With interrupts on, the kernel is in boot code or on its first way out.
SieControl ==
  /\ entered /\ priv = "S" => ~sie
  /\ spp = "S" => ~entered
  /\ ~entered => priv = "S"
  /\ (sie /\ priv = "S") =>
       pc.code \in Interruptible \cup Leaving \cup {"ktrap_init", "PlicInitHart", "sret"}

PlaceControl ==
  /\ priv = "S" => pc \in Kernel
  /\ priv = "U" => pc \in User
  /\ pc.code \in UserEntry /\ spp = "U" => sepc \in User
  /\ pc.code = "enter_user_process" => sepc \in User
  /\ pc.code = "sret" /\ spp = "U" => sepc \in User
  /\ pc.code \in Serving /\ spp = "S" =>
       ~sie /\ sepc \in Kernel /\ sepc.code \in Interruptible

\* Frames point into user code until a panic stores something else.
FrameControl == pc.code # "kpanic" => \A i \in Slots : frame[i].epc \in User

RootControl ==
  /\ entered => root \in Slots
  /\ pc.code = "sret" /\ spp = "U" => root \in Slots

VectorControl ==
  /\ priv = "U" => stvec = "uservec"
  /\ pc.code \in Leaving \cup {"uservec"} => stvec = "uservec"
  /\ pc.code = "sret" /\ spp = "U" => stvec = "uservec"
  /\ pc.code \in {"kernelvec", "PlicCompleteAgain"} => spp = "S"
  /\ pc.code \in {"set_sepc", "enter_user_process"} => spp = "U"
  /\ pc.code = "ktrap_init" \/ stvec # "none"
  /\ pc.code \in {"ktrap_init", "PlicInitHart"} => ~enabled

ClaimControl ==
  plic = "claimed" => pc.code \in {"UartInterruptHandle", "PlicComplete"}

Control ==
  /\ SieControl
  /\ PlaceControl
  /\ FrameControl
  /\ RootControl
  /\ VectorControl
  /\ ClaimControl

\* The machine is on its way to kpanic, or faulting forever.
Doomed == pc.code = "kpanic" \/ (pc.code \in UserEntry /\ spp = "S")

Saved(i) ==
  /\ frame[i].epc = at[i].epc
  /\ ra[i] = "ktrap_to_user" => frame[i].regs = at[i].regs

\* The frame of the current process holds all that it should see.
Ready ==
  /\ current \in live
  /\ frame[current].epc = at[current].epc
  /\ frame[current].regs = at[current].regs

Trapped ==
  /\ root = current
  /\ current \in live
  /\ IF scause = "external" THEN sepc = at[current].epc ELSE After(sepc) = at[current].epc

Data ==
  /\ \A i \in live : i # current => Saved(i)
  /\ Doing = "kproc_scheduler" => \A i \in live : Saved(i)
  /\ Doing = "ksys_sleep" => current \in live /\ frame[current].epc = at[current].epc
  /\ Doing \in Leaving \cup {"ktrap_to_user"} => Ready
  /\ pc.code \in {"KtrapInterruptHandle", "UartInterruptHandle", "PlicComplete"} /\ spp = "U" => Ready
  /\ pc.code = "enter_user_process" => sepc = at[current].epc
  /\ pc.code = "sret" /\ spp = "U" =>
       sepc = at[current].epc /\ reg = at[current].regs /\ root = current /\ current \in live
  /\ priv = "U" =>
       pc = at[current].epc /\ reg = at[current].regs /\ root = current /\ current \in live
  /\ pc.code = "uservec" /\ spp = "U" => Trapped /\ reg = at[current].regs
  /\ pc.code = "ktrap_from_user_handler" /\ spp = "U" =>
       Trapped /\ frame[current].regs = at[current].regs

IInv == TypeOK /\ Control /\ (Doomed \/ Data)
----------------------------------------------------------------------------
LEMMA Loc ==
  /\ \A f \in KernelCode : K(f) \in Kernel /\ K(f).code = f
  /\ \A p \in Kernel : p.code \in KernelCode /\ p = K(p.code) /\ p.n = 0
  /\ \A n \in Instr : U(n) \in User /\ U(n).code = "user" /\ U(n).n = n
  /\ \A p \in User : p.code = "user" /\ p.n \in Instr /\ p = U(p.n)
  /\ "user" \notin KernelCode
  <1>1. \A f \in KernelCode : K(f) \in Kernel /\ K(f).code = f
    BY DEF K, Kernel
  <1>2. \A p \in Kernel : p.code \in KernelCode /\ p = K(p.code) /\ p.n = 0
    BY DEF K, Kernel
  <1>3. \A n \in Instr : U(n) \in User /\ U(n).code = "user" /\ U(n).n = n
    BY DEF U, User
  <1>4. \A p \in User : p.code = "user" /\ p.n \in Instr /\ p = U(p.n)
    BY DEF U, User
  <1>5. "user" \notin KernelCode
    BY DEF KernelCode
  <1> QED BY <1>1, <1>2, <1>3, <1>4, <1>5

LEMMA ModFact ==
  ASSUME NEW m \in Nat, NEW k \in Nat \ {0} PROVE (m + 1) % k \in 0 .. k - 1
  OBVIOUS

\* The instruction after any place a trap can be taken at is user code.
LEMMA AfterUser == \A p \in User \cup Kernel : After(p) \in User
  <1> TAKE p \in User \cup Kernel
  <1>1. p.n \in Nat
    BY Loc, TrapAssumption DEF Instr
  <1>2. (p.n + 1) % NumInstr \in Instr
    BY <1>1, ModFact, TrapAssumption DEF Instr
  <1> QED BY <1>2, Loc DEF After

LEMMA EntryPlace == Entry \in Place /\ Entry.epc \in User
  <1>1. (CHOOSE v \in Regs : TRUE) \in Regs
    BY TrapAssumption
  <1>2. U(0) \in User
    BY Loc, TrapAssumption DEF Instr
  <1> QED BY <1>1, <1>2 DEF Entry, Place

LEMMA InitInv == Init => TypeOK /\ Control /\ Data
  <1> SUFFICES ASSUME Init PROVE TypeOK /\ Control /\ Data
    OBVIOUS
  <1>1. pc = K("ktrap_init") /\ pc \in Kernel /\ pc.code = "ktrap_init"
    BY Loc DEF Init, KernelCode
  <1>2. sepc \in User /\ 0 \in Slots
    BY Loc, TrapAssumption DEF Init, Instr, Slots
  <1>3. frame \in [Slots -> Place] /\ at \in [Slots -> Place] /\ \A i \in Slots : frame[i].epc \in User
    BY EntryPlace DEF Init
  <1>4. TypeOK
    <2>1. sie \in BOOLEAN /\ spie \in BOOLEAN /\ enabled \in BOOLEAN /\ entered \in BOOLEAN
      BY DEF Init
    <2>2. /\ priv \in {"S", "U"} /\ reg \in Regs /\ spp \in {"S", "U"}
          /\ stvec \in {"none", "kernelvec", "uservec"} /\ scause \in Causes \cup {"none"}
          /\ root \in Slots \cup {KernelRoot} /\ plic \in {"idle", "pending", "claimed"}
          /\ rx \in 0 .. MaxRx /\ live \subseteq Slots /\ current \in Slots
          /\ ra \in [Slots -> {"ktrap_to_user", "ksys_sleep"}]
      BY <1>2, TrapAssumption DEF Init
    <2> QED BY <1>1, <1>2, <1>3, <2>1, <2>2 DEF TypeOK
  <1>5. Control
    BY <1>1, <1>3 DEF Init, Control, SieControl, PlaceControl, FrameControl, RootControl,
       VectorControl, ClaimControl,
       Interruptible, Leaving, UserEntry, Serving
  <1>6. Data
    BY <1>1 DEF Init, Data, Doing, Leaving, Serving
  <1> QED BY <1>4, <1>5, <1>6

LEMMA GotoFact ==
  ASSUME NEW f \in KernelCode, Goto(f) PROVE pc' \in Kernel /\ pc'.code = f
  BY Loc DEF Goto

LEMMA EntryUser == U(0) \in User
  BY Loc, TrapAssumption DEF Instr

(***************************************************************************)
(* Updates of a table of frames.                                           *)
(***************************************************************************)
LEMMA Put ==
  ASSUME NEW g \in [Slots -> Place], NEW i \in Slots, NEW e \in User, NEW v \in Regs
  PROVE  LET h == [g EXCEPT ![i] = [epc |-> e, regs |-> v]]
         IN  /\ h \in [Slots -> Place]
             /\ h[i].epc = e /\ h[i].regs = v
             /\ \A j \in Slots : j # i => h[j] = g[j]
  BY DEF Place

LEMMA PutEpc ==
  ASSUME NEW g \in [Slots -> Place], NEW i \in Slots, NEW e \in User \cup Kernel
  PROVE  LET h == [g EXCEPT ![i].epc = e]
         IN  /\ h \in [Slots -> Place]
             /\ h[i].epc = e /\ h[i].regs = g[i].regs
             /\ \A j \in Slots : j # i => h[j] = g[j]
  BY DEF Place

LEMMA PutRegs ==
  ASSUME NEW g \in [Slots -> Place], NEW i \in Slots, NEW v \in Regs
  PROVE  LET h == [g EXCEPT ![i].regs = v]
         IN  /\ h \in [Slots -> Place]
             /\ h[i].epc = g[i].epc /\ h[i].regs = v
             /\ \A j \in Slots : j # i => h[j] = g[j]
  BY DEF Place

(***************************************************************************)
(* One lemma per step of the kernel: types and control.                    *)
(***************************************************************************)
LEMMA Step_ktrap_init == TypeOK /\ Control /\ ktrap_init => TypeOK' /\ Control'
  <1> SUFFICES ASSUME TypeOK, Control, ktrap_init PROVE TypeOK' /\ Control'
    OBVIOUS
  <1>1. pc.code = "ktrap_init" /\ priv = "S"
    BY Loc DEF ktrap_init, KernelCode, TypeOK, Control, PlaceControl
  <1>2. pc' \in Kernel /\ pc'.code = "PlicInitHart"
    BY GotoFact DEF ktrap_init, KernelCode
  <1>3. TypeOK'
    BY <1>2, TrapAssumption DEF ktrap_init, TypeOK, csr, dev, tbl
  <1>4. Control'
    BY <1>1, <1>2 DEF ktrap_init, TypeOK, csr, dev, tbl,
       Control, SieControl, PlaceControl, FrameControl, RootControl, VectorControl,
       ClaimControl, Interruptible, Leaving, UserEntry, Serving
  <1> QED BY <1>3, <1>4

LEMMA Step_PlicInitHart == TypeOK /\ Control /\ PlicInitHart => TypeOK' /\ Control'
  <1> SUFFICES ASSUME TypeOK, Control, PlicInitHart PROVE TypeOK' /\ Control'
    OBVIOUS
  <1>1. pc.code = "PlicInitHart" /\ priv = "S"
    BY Loc DEF PlicInitHart, KernelCode, TypeOK, Control, PlaceControl
  <1>2. pc' \in Kernel /\ pc'.code = "kernel_main"
    BY GotoFact DEF PlicInitHart, KernelCode
  <1>3. TypeOK'
    BY <1>2, TrapAssumption DEF PlicInitHart, TypeOK, csr, dev, tbl
  <1>4. Control'
    BY <1>1, <1>2 DEF PlicInitHart, TypeOK, csr, dev, tbl,
       Control, SieControl, PlaceControl, FrameControl, RootControl, VectorControl,
       ClaimControl, Interruptible, Leaving, UserEntry, Serving
  <1> QED BY <1>3, <1>4

LEMMA Step_kernel_main == TypeOK /\ Control /\ kernel_main => TypeOK' /\ Control'
  <1> SUFFICES ASSUME TypeOK, Control, kernel_main PROVE TypeOK' /\ Control'
    OBVIOUS
  <1>1. pc.code = "kernel_main" /\ priv = "S"
    BY Loc DEF kernel_main, KernelCode, TypeOK, Control, PlaceControl
  <1>2. pc' \in Kernel /\ pc'.code = "kproc_scheduler"
    BY GotoFact DEF kernel_main, KernelCode
  <1>3. /\ frame' \in [Slots -> Place] /\ at' \in [Slots -> Place]
        /\ live' \subseteq Slots /\ \A i \in Slots : frame'[i] = frame[i] \/ frame'[i].epc \in User
    BY EntryPlace, TrapAssumption DEF kernel_main, TypeOK, Slots
  <1>4. TypeOK'
    BY <1>2, <1>3, TrapAssumption DEF kernel_main, TypeOK, csr, dev, tbl
  <1>5. Control'
    BY <1>1, <1>2, <1>3 DEF kernel_main, TypeOK, csr, dev, tbl,
       Control, SieControl, PlaceControl, FrameControl, RootControl, VectorControl,
       ClaimControl, Interruptible, Leaving, UserEntry, Serving
  <1> QED BY <1>4, <1>5

LEMMA Step_ksys_sleep == TypeOK /\ Control /\ ksys_sleep => TypeOK' /\ Control'
  <1> SUFFICES ASSUME TypeOK, Control, ksys_sleep PROVE TypeOK' /\ Control'
    OBVIOUS
  <1>1. pc.code = "ksys_sleep" /\ priv = "S"
    BY Loc DEF ksys_sleep, KernelCode, TypeOK, Control, PlaceControl
  <1>2. pc' \in Kernel /\ pc'.code = "ktrap_to_user"
    BY GotoFact DEF ksys_sleep, KernelCode
  <1>3. /\ frame' \in [Slots -> Place] /\ at' \in [Slots -> Place]
        /\ \A i \in Slots : frame'[i].epc = frame[i].epc
    BY PutRegs DEF ksys_sleep, TypeOK
  <1>4. TypeOK'
    BY <1>2, <1>3, TrapAssumption DEF ksys_sleep, TypeOK, csr, dev, tbl
  <1>5. Control'
    BY <1>1, <1>2, <1>3 DEF ksys_sleep, TypeOK, csr, dev, tbl,
       Control, SieControl, PlaceControl, FrameControl, RootControl, VectorControl,
       ClaimControl, Interruptible, Leaving, UserEntry, Serving
  <1> QED BY <1>4, <1>5

LEMMA Step_ktrap_to_user == TypeOK /\ Control /\ ktrap_to_user => TypeOK' /\ Control'
  <1> SUFFICES ASSUME TypeOK, Control, ktrap_to_user PROVE TypeOK' /\ Control'
    OBVIOUS
  <1>1. pc.code = "ktrap_to_user" /\ priv = "S"
    BY Loc DEF ktrap_to_user, KernelCode, TypeOK, Control, PlaceControl
  <1>2. pc' \in Kernel /\ pc'.code = "set_sstatus"
    BY GotoFact DEF ktrap_to_user, KernelCode
  <1>3. TypeOK'
    BY <1>2, TrapAssumption DEF ktrap_to_user, TypeOK, csr, dev, tbl
  <1>4. Control'
    BY <1>1, <1>2 DEF ktrap_to_user, TypeOK, csr, dev, tbl,
       Control, SieControl, PlaceControl, FrameControl, RootControl, VectorControl,
       ClaimControl, Interruptible, Leaving, UserEntry, Serving
  <1> QED BY <1>3, <1>4

LEMMA Step_set_sstatus == TypeOK /\ Control /\ set_sstatus => TypeOK' /\ Control'
  <1> SUFFICES ASSUME TypeOK, Control, set_sstatus PROVE TypeOK' /\ Control'
    OBVIOUS
  <1>1. pc.code = "set_sstatus" /\ priv = "S"
    BY Loc DEF set_sstatus, KernelCode, TypeOK, Control, PlaceControl
  <1>2. pc' \in Kernel /\ pc'.code = "set_sepc"
    BY GotoFact DEF set_sstatus, KernelCode
  <1>3. TypeOK'
    BY <1>2, TrapAssumption DEF set_sstatus, TypeOK, csr, dev, tbl
  <1>4. Control'
    BY <1>1, <1>2 DEF set_sstatus, TypeOK, csr, dev, tbl,
       Control, SieControl, PlaceControl, FrameControl, RootControl, VectorControl,
       ClaimControl, Interruptible, Leaving, UserEntry, Serving
  <1> QED BY <1>3, <1>4

LEMMA Step_set_sepc == TypeOK /\ Control /\ set_sepc => TypeOK' /\ Control'
  <1> SUFFICES ASSUME TypeOK, Control, set_sepc PROVE TypeOK' /\ Control'
    OBVIOUS
  <1>1. pc.code = "set_sepc" /\ priv = "S"
    BY Loc DEF set_sepc, KernelCode, TypeOK, Control, PlaceControl
  <1>2. pc' \in Kernel /\ pc'.code = "enter_user_process"
    BY GotoFact DEF set_sepc, KernelCode
  <1>3. sepc' \in User
    BY <1>1 DEF set_sepc, TypeOK, Control, FrameControl
  <1>4. TypeOK'
    BY <1>2, <1>3, TrapAssumption DEF set_sepc, TypeOK, csr, dev, tbl
  <1>5. Control'
    BY <1>1, <1>2, <1>3 DEF set_sepc, TypeOK, csr, dev, tbl,
       Control, SieControl, PlaceControl, FrameControl, RootControl, VectorControl,
       ClaimControl, Interruptible, Leaving, UserEntry, Serving
  <1> QED BY <1>4, <1>5

LEMMA Step_enter_user_process == TypeOK /\ Control /\ enter_user_process => TypeOK' /\ Control'
  <1> SUFFICES ASSUME TypeOK, Control, enter_user_process PROVE TypeOK' /\ Control'
    OBVIOUS
  <1>1. pc.code = "enter_user_process" /\ priv = "S"
    BY Loc DEF enter_user_process, KernelCode, TypeOK, Control, PlaceControl
  <1>2. pc' \in Kernel /\ pc'.code = "sret"
    BY GotoFact DEF enter_user_process, KernelCode
  <1>3. root' \in Slots /\ reg' \in Regs
    BY DEF enter_user_process, TypeOK, Place
  <1>4. TypeOK'
    BY <1>2, <1>3, TrapAssumption DEF enter_user_process, TypeOK, csr, dev, tbl
  <1>5. Control'
    BY <1>1, <1>2, <1>3 DEF enter_user_process, TypeOK, csr, dev, tbl,
       Control, SieControl, PlaceControl, FrameControl, RootControl, VectorControl,
       ClaimControl, Interruptible, Leaving, UserEntry, Serving
  <1> QED BY <1>4, <1>5

LEMMA Step_uservec == TypeOK /\ Control /\ uservec => TypeOK' /\ Control'
  <1> SUFFICES ASSUME TypeOK, Control, uservec PROVE TypeOK' /\ Control'
    OBVIOUS
  <1>1. pc.code = "uservec" /\ priv = "S"
    BY Loc DEF uservec, KernelCode, TypeOK, Control, PlaceControl
  <1>2. pc' \in Kernel /\ pc'.code = "ktrap_from_user_handler"
    BY GotoFact DEF uservec, KernelCode
  <1>3. frame' \in [Slots -> Place] /\ \A i \in Slots : frame'[i].epc = frame[i].epc
    BY PutRegs DEF uservec, TypeOK
  <1>4. TypeOK'
    BY <1>2, <1>3, TrapAssumption DEF uservec, TypeOK, csr, dev, tbl
  <1>5. Control'
    BY <1>1, <1>2, <1>3 DEF uservec, TypeOK, csr, dev, tbl,
       Control, SieControl, PlaceControl, FrameControl, RootControl, VectorControl,
       ClaimControl, Interruptible, Leaving, UserEntry, Serving
  <1> QED BY <1>4, <1>5

LEMMA Step_FromKernel == TypeOK /\ Control /\ FromKernel => TypeOK' /\ Control'
  <1> SUFFICES ASSUME TypeOK, Control, FromKernel PROVE TypeOK' /\ Control'
    OBVIOUS
  <1>1. pc.code = "ktrap_from_user_handler" /\ priv = "S"
    BY Loc DEF FromKernel, EnterHandler, KernelCode, TypeOK, Control, PlaceControl
  <1>2. pc' \in Kernel /\ pc'.code = "kpanic"
    BY GotoFact DEF FromKernel, EnterHandler, KernelCode
  <1>3. frame' \in [Slots -> Place]
    BY PutEpc DEF FromKernel, TypeOK
  <1>4. TypeOK'
    BY <1>2, <1>3, TrapAssumption DEF FromKernel, EnterHandler, TypeOK, csr, dev, tbl
  <1>5. Control'
    BY <1>1, <1>2, <1>3 DEF FromKernel, EnterHandler, TypeOK, csr, dev, tbl,
       Control, SieControl, PlaceControl, FrameControl, RootControl, VectorControl,
       ClaimControl, Interruptible, Leaving, UserEntry, Serving
  <1> QED BY <1>4, <1>5

LEMMA Step_HandleInterrupt == TypeOK /\ Control /\ HandleInterrupt => TypeOK' /\ Control'
  <1> SUFFICES ASSUME TypeOK, Control, HandleInterrupt PROVE TypeOK' /\ Control'
    OBVIOUS
  <1>1. pc.code = "ktrap_from_user_handler" /\ priv = "S"
    BY Loc DEF HandleInterrupt, EnterHandler, KernelCode, TypeOK, Control, PlaceControl
  <1>2. pc' \in Kernel /\ pc'.code = "KtrapInterruptHandle"
    BY GotoFact DEF HandleInterrupt, EnterHandler, KernelCode
  <1>3. sepc \in User
    BY <1>1 DEF HandleInterrupt, Control, PlaceControl, UserEntry
  <1>4. frame' \in [Slots -> Place] /\ \A i \in Slots : frame'[i] = frame[i] \/ frame'[i].epc \in User
    BY <1>3, PutEpc DEF HandleInterrupt, TypeOK
  <1>5. TypeOK'
    BY <1>2, <1>3, <1>4, TrapAssumption DEF HandleInterrupt, EnterHandler, TypeOK, csr,
       dev, tbl
  <1>6. Control'
    BY <1>1, <1>2, <1>3, <1>4 DEF HandleInterrupt, EnterHandler, TypeOK, csr, dev, tbl,
       Control, SieControl, PlaceControl, FrameControl, RootControl, VectorControl,
       ClaimControl, Interruptible, Leaving, UserEntry, Serving
  <1> QED BY <1>5, <1>6

LEMMA Step_UnhandledException == TypeOK /\ Control /\ UnhandledException => TypeOK' /\ Control'
  <1> SUFFICES ASSUME TypeOK, Control, UnhandledException PROVE TypeOK' /\ Control'
    OBVIOUS
  <1>1. pc.code = "ktrap_from_user_handler" /\ priv = "S"
    BY Loc DEF UnhandledException, Syscall, EnterHandler, KernelCode, TypeOK, Control,
       PlaceControl
  <1>2. pc' \in Kernel /\ pc'.code = "kpanic"
    BY GotoFact DEF UnhandledException, Syscall, EnterHandler, KernelCode
  <1>3. frame' \in [Slots -> Place]
    BY AfterUser, PutEpc DEF UnhandledException, TypeOK
  <1>4. TypeOK'
    BY <1>2, <1>3, TrapAssumption DEF UnhandledException, Syscall, EnterHandler, TypeOK,
       csr, dev, tbl
  <1>5. Control'
    BY <1>1, <1>2, <1>3 DEF UnhandledException, Syscall, EnterHandler, TypeOK, csr, dev,
       tbl,
       Control, SieControl, PlaceControl, FrameControl, RootControl, VectorControl,
       ClaimControl, Interruptible, Leaving, UserEntry, Serving
  <1> QED BY <1>4, <1>5

LEMMA Step_SysExit == TypeOK /\ Control /\ SysExit => TypeOK' /\ Control'
  <1> SUFFICES ASSUME TypeOK, Control, SysExit PROVE TypeOK' /\ Control'
    OBVIOUS
  <1>1. pc.code = "ktrap_from_user_handler" /\ priv = "S"
    BY Loc DEF SysExit, Syscall, EnterHandler, KernelCode, TypeOK, Control, PlaceControl
  <1>2. pc' \in Kernel /\ pc'.code = "kproc_scheduler"
    BY GotoFact DEF SysExit, Syscall, EnterHandler, KernelCode
  <1>3. /\ frame' \in [Slots -> Place] /\ live' \subseteq Slots
        /\ \A i \in Slots : frame'[i] = frame[i] \/ frame'[i].epc \in User
    BY AfterUser, PutEpc DEF SysExit, TypeOK
  <1>4. TypeOK'
    BY <1>2, <1>3, TrapAssumption DEF SysExit, Syscall, EnterHandler, TypeOK, csr, dev, tbl
  <1>5. Control'
    BY <1>1, <1>2, <1>3 DEF SysExit, Syscall, EnterHandler, TypeOK, csr, dev, tbl,
       Control, SieControl, PlaceControl, FrameControl, RootControl, VectorControl,
       ClaimControl, Interruptible, Leaving, UserEntry, Serving
  <1> QED BY <1>4, <1>5

LEMMA Step_SysSleep == TypeOK /\ Control /\ SysSleep => TypeOK' /\ Control'
  <1> SUFFICES ASSUME TypeOK, Control, SysSleep PROVE TypeOK' /\ Control'
    OBVIOUS
  <1>1. pc.code = "ktrap_from_user_handler" /\ priv = "S"
    BY Loc DEF SysSleep, Syscall, EnterHandler, KernelCode, TypeOK, Control, PlaceControl
  <1>2. pc' \in Kernel /\ pc'.code = "kproc_scheduler"
    BY GotoFact DEF SysSleep, Syscall, EnterHandler, KernelCode
  <1>3. /\ frame' \in [Slots -> Place] /\ ra' \in [Slots -> {"ktrap_to_user", "ksys_sleep"}]
        /\ \A i \in Slots : frame'[i] = frame[i] \/ frame'[i].epc \in User
    BY AfterUser, PutEpc DEF SysSleep, TypeOK
  <1>4. TypeOK'
    BY <1>2, <1>3, TrapAssumption DEF SysSleep, Syscall, EnterHandler, TypeOK, csr, dev, tbl
  <1>5. Control'
    BY <1>1, <1>2, <1>3 DEF SysSleep, Syscall, EnterHandler, TypeOK, csr, dev, tbl,
       Control, SieControl, PlaceControl, FrameControl, RootControl, VectorControl,
       ClaimControl, Interruptible, Leaving, UserEntry, Serving
  <1> QED BY <1>4, <1>5

LEMMA Step_SysOther == TypeOK /\ Control /\ SysOther => TypeOK' /\ Control'
  <1> SUFFICES ASSUME TypeOK, Control, SysOther PROVE TypeOK' /\ Control'
    OBVIOUS
  <1>1. pc.code = "ktrap_from_user_handler" /\ priv = "S"
    BY Loc DEF SysOther, Syscall, EnterHandler, KernelCode, TypeOK, Control, PlaceControl
  <1>2. pc' \in Kernel /\ pc'.code = "ktrap_to_user"
    BY GotoFact DEF SysOther, Syscall, EnterHandler, KernelCode
  <1>3. /\ frame' \in [Slots -> Place] /\ at' \in [Slots -> Place]
        /\ \A i \in Slots : frame'[i] = frame[i] \/ frame'[i].epc \in User
    BY AfterUser, Put, PutRegs DEF SysOther, TypeOK
  <1>4. TypeOK'
    BY <1>2, <1>3, TrapAssumption DEF SysOther, Syscall, EnterHandler, TypeOK, csr, dev, tbl
  <1>5. Control'
    BY <1>1, <1>2, <1>3 DEF SysOther, Syscall, EnterHandler, TypeOK, csr, dev, tbl,
       Control, SieControl, PlaceControl, FrameControl, RootControl, VectorControl,
       ClaimControl, Interruptible, Leaving, UserEntry, Serving
  <1> QED BY <1>4, <1>5

LEMMA Step_SysKill == TypeOK /\ Control /\ SysKill => TypeOK' /\ Control'
  <1> SUFFICES ASSUME TypeOK, Control, SysKill PROVE TypeOK' /\ Control'
    OBVIOUS
  <1>1. pc.code = "ktrap_from_user_handler" /\ priv = "S"
    BY Loc DEF SysKill, Syscall, EnterHandler, KernelCode, TypeOK, Control, PlaceControl
  <1>2. pc' \in Kernel /\ pc'.code = "ktrap_to_user"
    BY GotoFact DEF SysKill, Syscall, EnterHandler, KernelCode
  <1>3. /\ frame' \in [Slots -> Place] /\ at' \in [Slots -> Place] /\ live' \subseteq Slots
        /\ \A i \in Slots : frame'[i] = frame[i] \/ frame'[i].epc \in User
    BY AfterUser, Put, PutRegs DEF SysKill, TypeOK
  <1>4. TypeOK'
    BY <1>2, <1>3, TrapAssumption DEF SysKill, Syscall, EnterHandler, TypeOK, csr, dev, tbl
  <1>5. Control'
    BY <1>1, <1>2, <1>3 DEF SysKill, Syscall, EnterHandler, TypeOK, csr, dev, tbl,
       Control, SieControl, PlaceControl, FrameControl, RootControl, VectorControl,
       ClaimControl, Interruptible, Leaving, UserEntry, Serving
  <1> QED BY <1>4, <1>5

LEMMA Step_SysExec == TypeOK /\ Control /\ SysExec => TypeOK' /\ Control'
  <1> SUFFICES ASSUME TypeOK, Control, SysExec PROVE TypeOK' /\ Control'
    OBVIOUS
  <1>1. pc.code = "ktrap_from_user_handler" /\ priv = "S"
    BY Loc DEF SysExec, Syscall, EnterHandler, KernelCode, TypeOK, Control, PlaceControl
  <1>2. pc' \in Kernel /\ pc'.code = "ktrap_to_user"
    BY GotoFact DEF SysExec, Syscall, EnterHandler, KernelCode
  <1>3. /\ frame' \in [Slots -> Place] /\ at' \in [Slots -> Place]
        /\ ra' \in [Slots -> {"ktrap_to_user", "ksys_sleep"}]
        /\ \A i \in Slots : frame'[i] = frame[i] \/ frame'[i].epc \in User
    BY EntryUser, Put DEF SysExec, TypeOK
  <1>4. TypeOK'
    BY <1>2, <1>3, TrapAssumption DEF SysExec, Syscall, EnterHandler, TypeOK, csr, dev, tbl
  <1>5. Control'
    BY <1>1, <1>2, <1>3 DEF SysExec, Syscall, EnterHandler, TypeOK, csr, dev, tbl,
       Control, SieControl, PlaceControl, FrameControl, RootControl, VectorControl,
       ClaimControl, Interruptible, Leaving, UserEntry, Serving
  <1> QED BY <1>4, <1>5

LEMMA Step_kernelvec == TypeOK /\ Control /\ kernelvec => TypeOK' /\ Control'
  <1> SUFFICES ASSUME TypeOK, Control, kernelvec PROVE TypeOK' /\ Control'
    OBVIOUS
  <1>1. pc.code = "kernelvec" /\ priv = "S"
    BY Loc DEF kernelvec, KernelCode, TypeOK, Control, PlaceControl
  <1>2. pc' \in Kernel /\ pc'.code = IF spp = "S" /\ scause = "external" THEN "KtrapInterruptHandle" ELSE "kpanic"
    BY GotoFact DEF kernelvec, KernelCode
  <1>3. TypeOK'
    BY <1>2, TrapAssumption DEF kernelvec, TypeOK, csr, dev, tbl
  <1>4. Control'
    BY <1>1, <1>2 DEF kernelvec, TypeOK, csr, dev, tbl,
       Control, SieControl, PlaceControl, FrameControl, RootControl, VectorControl,
       ClaimControl, Interruptible, Leaving, UserEntry, Serving
  <1> QED BY <1>3, <1>4

LEMMA Step_KtrapInterruptHandle == TypeOK /\ Control /\ KtrapInterruptHandle => TypeOK' /\ Control'
  <1> SUFFICES ASSUME TypeOK, Control, KtrapInterruptHandle PROVE TypeOK' /\ Control'
    OBVIOUS
  <1>1. pc.code = "KtrapInterruptHandle" /\ priv = "S"
    BY Loc DEF KtrapInterruptHandle, KernelCode, TypeOK, Control, PlaceControl
  <1>2. pc' \in Kernel /\ pc'.code = "UartInterruptHandle"
    BY GotoFact DEF KtrapInterruptHandle, KernelCode
  <1>3. TypeOK'
    BY <1>2, TrapAssumption DEF KtrapInterruptHandle, TypeOK, csr, dev, tbl
  <1>4. Control'
    BY <1>1, <1>2 DEF KtrapInterruptHandle, TypeOK, csr, dev, tbl,
       Control, SieControl, PlaceControl, FrameControl, RootControl, VectorControl,
       ClaimControl, Interruptible, Leaving, UserEntry, Serving
  <1> QED BY <1>3, <1>4

LEMMA Step_UartInterruptHandle == TypeOK /\ Control /\ UartInterruptHandle => TypeOK' /\ Control'
  <1> SUFFICES ASSUME TypeOK, Control, UartInterruptHandle PROVE TypeOK' /\ Control'
    OBVIOUS
  <1>1. pc.code = "UartInterruptHandle" /\ priv = "S"
    BY Loc DEF UartInterruptHandle, KernelCode, TypeOK, Control, PlaceControl
  <1>2. pc' \in Kernel /\ pc'.code = "PlicComplete"
    BY GotoFact DEF UartInterruptHandle, KernelCode
  <1>3. TypeOK'
    BY <1>2, TrapAssumption DEF UartInterruptHandle, TypeOK, csr, dev, tbl
  <1>4. Control'
    BY <1>1, <1>2 DEF UartInterruptHandle, TypeOK, csr, dev, tbl,
       Control, SieControl, PlaceControl, FrameControl, RootControl, VectorControl,
       ClaimControl, Interruptible, Leaving, UserEntry, Serving
  <1> QED BY <1>3, <1>4

LEMMA Step_PlicComplete == TypeOK /\ Control /\ PlicComplete => TypeOK' /\ Control'
  <1> SUFFICES ASSUME TypeOK, Control, PlicComplete PROVE TypeOK' /\ Control'
    OBVIOUS
  <1>1. pc.code = "PlicComplete" /\ priv = "S"
    BY Loc DEF PlicComplete, KernelCode, TypeOK, Control, PlaceControl
  <1>2. pc' \in Kernel /\ pc'.code = IF spp = "S" THEN "PlicCompleteAgain" ELSE "ktrap_to_user"
    BY GotoFact DEF PlicComplete, KernelCode
  <1>3. TypeOK'
    BY <1>2, TrapAssumption DEF PlicComplete, TypeOK, csr, dev, tbl
  <1>4. Control'
    BY <1>1, <1>2 DEF PlicComplete, TypeOK, csr, dev, tbl,
       Control, SieControl, PlaceControl, FrameControl, RootControl, VectorControl,
       ClaimControl, Interruptible, Leaving, UserEntry, Serving
  <1> QED BY <1>3, <1>4

LEMMA Step_PlicCompleteAgain == TypeOK /\ Control /\ PlicCompleteAgain => TypeOK' /\ Control'
  <1> SUFFICES ASSUME TypeOK, Control, PlicCompleteAgain PROVE TypeOK' /\ Control'
    OBVIOUS
  <1>1. pc.code = "PlicCompleteAgain" /\ priv = "S"
    BY Loc DEF PlicCompleteAgain, KernelCode, TypeOK, Control, PlaceControl
  <1>2. pc' \in Kernel /\ pc'.code = "sret"
    BY GotoFact DEF PlicCompleteAgain, KernelCode
  <1>3. TypeOK'
    BY <1>2, TrapAssumption DEF PlicCompleteAgain, TypeOK, csr, dev, tbl
  <1>4. Control'
    BY <1>1, <1>2 DEF PlicCompleteAgain, TypeOK, csr, dev, tbl,
       Control, SieControl, PlaceControl, FrameControl, RootControl, VectorControl,
       ClaimControl, Interruptible, Leaving, UserEntry, Serving
  <1> QED BY <1>3, <1>4

LEMMA Step_kproc_scheduler == TypeOK /\ Control /\ kproc_scheduler => TypeOK' /\ Control'
  <1> SUFFICES ASSUME TypeOK, Control, kproc_scheduler PROVE TypeOK' /\ Control'
    OBVIOUS
  <1>1. pc.code = "kproc_scheduler" /\ priv = "S" /\ pc \in Kernel
    BY Loc DEF kproc_scheduler, KernelCode, TypeOK, Control, PlaceControl
  <1>2. /\ pc' \in Kernel /\ pc'.code \in {"kproc_scheduler", "ktrap_to_user", "ksys_sleep"}
        /\ current' \in Slots
    <2>1. CASE live = {} /\ UNCHANGED <<current, pc>>
      BY <1>1, <2>1 DEF TypeOK
    <2>2. ASSUME NEW i \in live, current' = i, Goto(ra[i])
          PROVE  pc' \in Kernel /\ pc'.code \in {"ktrap_to_user",
             "ksys_sleep"} /\ current' \in Slots
      <3>1. ra[i] \in {"ktrap_to_user", "ksys_sleep"} /\ i \in Slots
        BY DEF TypeOK
      <3>2. ra[i] \in KernelCode
        BY <3>1 DEF KernelCode
      <3> QED BY <2>2, <3>1, <3>2, GotoFact
    <2> QED BY <2>1, <2>2 DEF kproc_scheduler
  <1>3. TypeOK'
    BY <1>2 DEF kproc_scheduler, TypeOK, csr, dev
  <1>4. Control'
    BY <1>1, <1>2 DEF kproc_scheduler, TypeOK, csr, dev,
       Control, SieControl, PlaceControl, FrameControl, RootControl, VectorControl,
       ClaimControl, Interruptible, Leaving, UserEntry, Serving
  <1> QED BY <1>3, <1>4

LEMMA Step_SysFork == TypeOK /\ Control /\ SysFork => TypeOK' /\ Control'
  <1> SUFFICES ASSUME TypeOK, Control, SysFork PROVE TypeOK' /\ Control'
    OBVIOUS
  <1>1. pc.code = "ktrap_from_user_handler" /\ priv = "S"
    BY Loc DEF SysFork, Syscall, EnterHandler, KernelCode, TypeOK, Control, PlaceControl
  <1>2. CASE live = Slots
    <2>1. pc' \in Kernel /\ pc'.code = "kpanic"
      BY <1>2, GotoFact DEF SysFork, KernelCode
    <2>2. frame' \in [Slots -> Place]
      BY <1>2, AfterUser, PutEpc DEF SysFork, TypeOK
    <2>3. TypeOK'
      BY <1>2, <2>1, <2>2 DEF SysFork, Syscall, EnterHandler, TypeOK, csr, dev, tbl
    <2>4. Control'
      BY <1>1, <1>2, <2>1, <2>2 DEF SysFork, Syscall, EnterHandler, TypeOK, csr, dev, tbl,
         Control, SieControl, PlaceControl, FrameControl, RootControl, VectorControl,
         ClaimControl, Interruptible, Leaving, UserEntry, Serving
    <2> QED BY <2>3, <2>4
  <1>3. CASE live # Slots
    <2>1. pc' \in Kernel /\ pc'.code = "ktrap_to_user"
      BY <1>3, GotoFact DEF SysFork, KernelCode
    <2>2. PICK i \in Slots \ live, v, v0 \in Regs :
            /\ live' = live \cup {i}
            /\ frame' = [frame EXCEPT ![current] = [epc |-> After(sepc), regs |-> v],
                                      ![i] = [epc |-> After(sepc), regs |-> v0]]
            /\ at' = [at EXCEPT ![current].regs = v,
                                ![i] = [epc |-> at[current].epc, regs |-> v0]]
            /\ ra' = [ra EXCEPT ![i] = "ktrap_to_user"]
      BY <1>3 DEF SysFork
    <2>3. After(sepc) \in User
      BY AfterUser DEF TypeOK
    <2>4. /\ frame' \in [Slots -> Place]
          /\ \A j \in Slots : frame'[j] = frame[j] \/ frame'[j].epc \in User
      BY <2>2, <2>3 DEF TypeOK, Place
    <2>5. at' \in [Slots -> Place]
      BY <2>2 DEF TypeOK, Place
    <2>6. live' \subseteq Slots /\ ra' \in [Slots -> {"ktrap_to_user", "ksys_sleep"}]
      BY <2>2 DEF TypeOK
    <2>7. TypeOK'
      BY <2>1, <2>4, <2>5, <2>6 DEF SysFork, Syscall, EnterHandler, TypeOK, csr, dev
    <2>8. Control'
      BY <1>1, <2>1, <2>4 DEF SysFork, Syscall, EnterHandler, TypeOK, csr, dev,
         Control, SieControl, PlaceControl, FrameControl, RootControl, VectorControl,
         ClaimControl, Interruptible, Leaving, UserEntry, Serving
    <2> QED BY <2>7, <2>8
  <1> QED BY <1>2, <1>3

\* sret: back to a process, or to the boot code kernelvec had interrupted.
LEMMA Step_sret == TypeOK /\ Control /\ sret => TypeOK' /\ Control'
  <1> SUFFICES ASSUME TypeOK, Control, sret PROVE TypeOK' /\ Control'
    OBVIOUS
  <1>1. pc.code = "sret" /\ priv = "S"
    BY Loc DEF sret, KernelCode, TypeOK, Control, PlaceControl
  <1>2. TypeOK'
    <2>1. sie' \in BOOLEAN /\ spie' \in BOOLEAN /\ entered' \in BOOLEAN
      BY DEF sret, TypeOK
    <2>2. pc' \in User \cup Kernel /\ priv' \in {"S", "U"} /\ spp' \in {"S", "U"}
      BY DEF sret, TypeOK
    <2> QED BY <2>1, <2>2 DEF sret, TypeOK, dev, tbl
  <1>3. CASE spp = "U"
    <2>1. sepc \in User /\ pc' \in User /\ pc'.code = "user" /\ priv' = "U" /\ entered' = TRUE
      BY <1>1, <1>3, Loc DEF sret, Control, PlaceControl
    <2>2. Control'
      BY <1>1, <1>3, <2>1 DEF sret, TypeOK, dev, tbl,
         Control, SieControl, PlaceControl, FrameControl, RootControl, VectorControl,
         ClaimControl, Interruptible, Leaving, UserEntry, Serving
    <2> QED BY <1>2, <2>2
  <1>4. CASE spp = "S"
    <2>1. pc' \in Kernel /\ pc'.code \in Interruptible /\ priv' = "S" /\ ~entered
      BY <1>1, <1>4 DEF sret, Control, PlaceControl, SieControl, Serving
    <2>2. ~entered' /\ spp' = "U"
      BY <1>4, <2>1 DEF sret
    <2>3. Control'
      BY <1>1, <1>4, <2>1, <2>2 DEF sret, TypeOK, dev, tbl,
         Control, SieControl, PlaceControl, FrameControl, RootControl, VectorControl,
         ClaimControl, Interruptible, Leaving, UserEntry, Serving
    <2> QED BY <1>2, <2>3
  <1> QED BY <1>3, <1>4 DEF TypeOK

(***************************************************************************)
(* Traps.                                                                  *)
(***************************************************************************)
LEMMA Step_Exception == TypeOK /\ Control /\ Exception => TypeOK' /\ Control'
  <1> SUFFICES ASSUME TypeOK, Control, Exception PROVE TypeOK' /\ Control'
    OBVIOUS
  <1>1. priv = "U" /\ stvec = "uservec" /\ pc \in User /\ pc.code = "user" /\ entered
    BY Loc DEF Exception, Control, PlaceControl, VectorControl, SieControl, TypeOK
  <1>2. pc' \in Kernel /\ pc'.code = "uservec" /\ spp' = "U" /\ ~sie' /\ priv' = "S" /\ sepc' = pc
    BY <1>1, Loc DEF Exception, TakeTrap, KernelCode
  <1>3. at' \in [Slots -> Place]
    BY <1>1, AfterUser, PutEpc DEF Exception, TypeOK
  <1>4. TypeOK'
    BY <1>1, <1>2, <1>3 DEF Exception, TakeTrap, TypeOK, dev, Causes
  <1>5. Control'
    BY <1>1, <1>2 DEF Exception, TakeTrap, TypeOK, dev,
       Control, SieControl, PlaceControl, FrameControl, RootControl, VectorControl,
       ClaimControl, Interruptible, Leaving, UserEntry, Serving
  <1> QED BY <1>4, <1>5

LEMMA Step_Interrupt == TypeOK /\ Control /\ Interrupt => TypeOK' /\ Control'
  <1> SUFFICES ASSUME TypeOK, Control, Interrupt PROVE TypeOK' /\ Control'
    OBVIOUS
  <1>1. enabled /\ plic = "pending" /\ stvec \in {"kernelvec", "uservec"}
    BY DEF Interrupt, TypeOK, Control, VectorControl
  <1>2. pc' \in Kernel /\ pc'.code = stvec /\ spp' = priv /\ ~sie' /\ priv' = "S" /\ sepc' = pc
    BY <1>1, Loc DEF Interrupt, TakeTrap, KernelCode
  <1>3. TypeOK'
    BY <1>2 DEF Interrupt, TakeTrap, TypeOK, dev, tbl, Causes
  <1>4. CASE priv = "U"
    <2>1. stvec = "uservec" /\ pc \in User /\ pc.code = "user" /\ entered
      BY <1>4, Loc DEF Control, PlaceControl, VectorControl, SieControl, TypeOK
    <2>2. Control'
      BY <1>1, <1>2, <1>4, <2>1 DEF Interrupt, TakeTrap, TypeOK, dev, tbl,
         Control, SieControl, PlaceControl, FrameControl, RootControl, VectorControl,
         ClaimControl, Interruptible, Leaving, UserEntry, Serving
    <2> QED BY <1>3, <2>2
  <1>5. CASE priv = "S"
    <2>1. sie /\ ~entered
      BY <1>5 DEF Interrupt, Control, SieControl
    <2>2. stvec = "kernelvec" => pc.code \in Interruptible
      BY <1>1, <1>5, <2>1 DEF Control, SieControl, PlaceControl, FrameControl, RootControl,
         VectorControl, ClaimControl, Interruptible, Leaving, UserEntry, Serving, TypeOK
    <2>3. Control'
      BY <1>1, <1>2, <1>5, <2>1, <2>2 DEF Interrupt, TakeTrap, TypeOK, dev, tbl,
         Control, SieControl, PlaceControl, FrameControl, RootControl, VectorControl,
         ClaimControl, Interruptible, Leaving, UserEntry, Serving
    <2> QED BY <1>3, <2>3
  <1> QED BY <1>4, <1>5 DEF TypeOK

LEMMA Step_uservec_fault == TypeOK /\ Control /\ uservec_fault => TypeOK' /\ Control'
  <1> SUFFICES ASSUME TypeOK, Control, uservec_fault PROVE TypeOK' /\ Control'
    OBVIOUS
  <1>1. pc.code = "uservec" /\ priv = "S" /\ stvec = "uservec"
    BY Loc DEF uservec_fault, KernelCode, TypeOK, Control, PlaceControl, VectorControl
  <1>2. ~entered
    BY TrapAssumption DEF uservec_fault, Control, RootControl, KernelRoot, Slots
  <1>3. pc' \in Kernel /\ pc'.code = "uservec" /\ spp' = "S" /\ ~sie' /\ priv' = "S" /\ sepc' = pc
    BY <1>1, Loc DEF uservec_fault, TakeTrap, KernelCode, TypeOK, Control, SieControl,
       Interruptible, Leaving
  <1>4. TypeOK'
    BY <1>3 DEF uservec_fault, TakeTrap, TypeOK, dev, tbl, Causes
  <1>5. Control'
    BY <1>1, <1>2, <1>3 DEF uservec_fault, TakeTrap, TypeOK, dev, tbl,
       Control, SieControl, PlaceControl, FrameControl, RootControl, VectorControl,
       ClaimControl, Interruptible, Leaving, UserEntry, Serving
  <1> QED BY <1>4, <1>5

LEMMA Step_UserStep == TypeOK /\ Control /\ UserStep => TypeOK' /\ Control'
  <1> SUFFICES ASSUME TypeOK, Control, UserStep PROVE TypeOK' /\ Control'
    OBVIOUS
  <1>1. PICK n \in Instr, v \in Regs :
          /\ pc' = U(n) /\ reg' = v
          /\ at' = [at EXCEPT ![current] = [epc |-> U(n), regs |-> v]]
    BY DEF UserStep
  <1>2. pc' \in User /\ pc'.code = "user" /\ pc \in User /\ pc.code = "user" /\ priv = "U"
    BY <1>1, Loc DEF UserStep, Control, PlaceControl
  <1>3. at' \in [Slots -> Place]
    BY <1>1, <1>2, Put DEF TypeOK
  <1>4. TypeOK'
    BY <1>1, <1>2, <1>3 DEF UserStep, TypeOK, csr, dev
  <1>5. Control'
    BY <1>2 DEF UserStep, TypeOK, csr, dev,
       Control, SieControl, PlaceControl, FrameControl, RootControl, VectorControl,
       ClaimControl, Interruptible, Leaving, UserEntry, Serving
  <1> QED BY <1>4, <1>5

LEMMA Step_Devices == TypeOK /\ Control /\ (Receive \/ Raise) => TypeOK' /\ Control'
  <1> SUFFICES ASSUME TypeOK, Control, Receive \/ Raise PROVE TypeOK' /\ Control'
    OBVIOUS
  <1>1. pc' = pc /\ priv' = priv /\ rx' \in 0 .. MaxRx /\ plic' \in {"idle", "pending", "claimed"}
    BY TrapAssumption DEF Receive, Raise, TypeOK
  <1>2. TypeOK'
    BY <1>1 DEF Receive, Raise, TypeOK, csr, tbl
  <1>3. Control'
    BY <1>1 DEF Receive, Raise, TypeOK, csr, tbl,
       Control, SieControl, PlaceControl, FrameControl, RootControl, VectorControl,
       ClaimControl, Interruptible, Leaving, UserEntry, Serving
  <1> QED BY <1>2, <1>3

LEMMA ControlStep == TypeOK /\ Control /\ [Next]_vars => TypeOK' /\ Control'
  <1>1. TypeOK /\ Control /\ (kpanic \/ UNCHANGED vars) => TypeOK' /\ Control'
    BY DEF kpanic, vars, csr, dev, tbl, TypeOK,
       Control, SieControl, PlaceControl, FrameControl, RootControl, VectorControl,
       ClaimControl, Interruptible, Leaving, UserEntry, Serving
  <1> QED
    BY <1>1, Step_ktrap_init, Step_PlicInitHart, Step_kernel_main, Step_ksys_sleep,
       Step_ktrap_to_user, Step_set_sstatus, Step_set_sepc, Step_enter_user_process,
       Step_uservec, Step_FromKernel, Step_HandleInterrupt, Step_UnhandledException,
       Step_SysExit, Step_SysSleep, Step_SysOther, Step_SysKill, Step_SysExec,
       Step_kernelvec, Step_KtrapInterruptHandle, Step_UartInterruptHandle,
       Step_PlicComplete, Step_PlicCompleteAgain,
       Step_kproc_scheduler, Step_SysFork, Step_sret, Step_Exception, Step_Interrupt,
       Step_uservec_fault, Step_UserStep, Step_Devices
    DEF Next, KernelStep

(***************************************************************************)
(* One lemma per step: the frames.                                         *)
(***************************************************************************)
LEMMA Data_ktrap_init == TypeOK /\ Control /\ Data /\ ktrap_init => (Doomed \/ Data)'
  <1> SUFFICES ASSUME TypeOK, Control, Data, ktrap_init PROVE (Doomed \/ Data)'
    OBVIOUS
  <1>1. pc.code = "ktrap_init" /\ priv = "S"
    BY Loc DEF ktrap_init, KernelCode, TypeOK, Control, PlaceControl
  <1>2. pc' \in Kernel /\ pc'.code = "PlicInitHart"
    BY GotoFact DEF ktrap_init, KernelCode
  <1> QED
    BY <1>1, <1>2 DEF ktrap_init, TypeOK, csr, dev, tbl, Doomed, Data, Saved, Ready,
       Trapped, Doing,
       Control, PlaceControl, VectorControl, Interruptible, Leaving, UserEntry, Serving

LEMMA Data_PlicInitHart == TypeOK /\ Control /\ Data /\ PlicInitHart => (Doomed \/ Data)'
  <1> SUFFICES ASSUME TypeOK, Control, Data, PlicInitHart PROVE (Doomed \/ Data)'
    OBVIOUS
  <1>1. pc.code = "PlicInitHart" /\ priv = "S"
    BY Loc DEF PlicInitHart, KernelCode, TypeOK, Control, PlaceControl
  <1>2. pc' \in Kernel /\ pc'.code = "kernel_main"
    BY GotoFact DEF PlicInitHart, KernelCode
  <1> QED
    BY <1>1, <1>2 DEF PlicInitHart, TypeOK, csr, dev, tbl, Doomed, Data, Saved, Ready,
       Trapped, Doing,
       Control, PlaceControl, VectorControl, Interruptible, Leaving, UserEntry, Serving

LEMMA Data_kernel_main == TypeOK /\ Control /\ Data /\ kernel_main => (Doomed \/ Data)'
  <1> SUFFICES ASSUME TypeOK, Control, Data, kernel_main PROVE (Doomed \/ Data)'
    OBVIOUS
  <1>1. pc.code = "kernel_main" /\ priv = "S"
    BY Loc DEF kernel_main, KernelCode, TypeOK, Control, PlaceControl
  <1>2. pc' \in Kernel /\ pc'.code = "kproc_scheduler"
    BY GotoFact DEF kernel_main, KernelCode
  <1>3. live' = {0} /\ frame'[0] = Entry /\ at'[0] = Entry
    BY TrapAssumption DEF kernel_main, TypeOK, Slots
  <1> QED
    BY <1>1, <1>2, <1>3 DEF kernel_main, TypeOK, csr, dev, tbl, Doomed, Data, Saved, Ready,
       Trapped, Doing,
       Control, PlaceControl, VectorControl, Interruptible, Leaving, UserEntry, Serving

LEMMA Data_ksys_sleep == TypeOK /\ Control /\ Data /\ ksys_sleep => (Doomed \/ Data)'
  <1> SUFFICES ASSUME TypeOK, Control, Data, ksys_sleep PROVE (Doomed \/ Data)'
    OBVIOUS
  <1>1. pc.code = "ksys_sleep" /\ priv = "S"
    BY Loc DEF ksys_sleep, KernelCode, TypeOK, Control, PlaceControl
  <1>2. pc' \in Kernel /\ pc'.code = "ktrap_to_user"
    BY GotoFact DEF ksys_sleep, KernelCode
  <1>3. /\ frame'[current].epc = frame[current].epc /\ at'[current].epc = at[current].epc
        /\ frame'[current].regs = at'[current].regs
        /\ \A i \in Slots : i # current => frame'[i] = frame[i] /\ at'[i] = at[i]
    BY PutRegs DEF ksys_sleep, TypeOK
  <1> QED
    BY <1>1, <1>2, <1>3 DEF ksys_sleep, TypeOK, csr, dev, tbl, Doomed, Data, Saved, Ready,
       Trapped, Doing,
       Control, PlaceControl, VectorControl, Interruptible, Leaving, UserEntry, Serving

LEMMA Data_ktrap_to_user == TypeOK /\ Control /\ Data /\ ktrap_to_user => (Doomed \/ Data)'
  <1> SUFFICES ASSUME TypeOK, Control, Data, ktrap_to_user PROVE (Doomed \/ Data)'
    OBVIOUS
  <1>1. pc.code = "ktrap_to_user" /\ priv = "S"
    BY Loc DEF ktrap_to_user, KernelCode, TypeOK, Control, PlaceControl
  <1>2. pc' \in Kernel /\ pc'.code = "set_sstatus"
    BY GotoFact DEF ktrap_to_user, KernelCode
  <1> QED
    BY <1>1, <1>2 DEF ktrap_to_user, TypeOK, csr, dev, tbl, Doomed, Data, Saved, Ready,
       Trapped, Doing,
       Control, PlaceControl, VectorControl, Interruptible, Leaving, UserEntry, Serving

LEMMA Data_set_sstatus == TypeOK /\ Control /\ Data /\ set_sstatus => (Doomed \/ Data)'
  <1> SUFFICES ASSUME TypeOK, Control, Data, set_sstatus PROVE (Doomed \/ Data)'
    OBVIOUS
  <1>1. pc.code = "set_sstatus" /\ priv = "S"
    BY Loc DEF set_sstatus, KernelCode, TypeOK, Control, PlaceControl
  <1>2. pc' \in Kernel /\ pc'.code = "set_sepc"
    BY GotoFact DEF set_sstatus, KernelCode
  <1> QED
    BY <1>1, <1>2 DEF set_sstatus, TypeOK, csr, dev, tbl, Doomed, Data, Saved, Ready,
       Trapped, Doing,
       Control, PlaceControl, VectorControl, Interruptible, Leaving, UserEntry, Serving

LEMMA Data_set_sepc == TypeOK /\ Control /\ Data /\ set_sepc => (Doomed \/ Data)'
  <1> SUFFICES ASSUME TypeOK, Control, Data, set_sepc PROVE (Doomed \/ Data)'
    OBVIOUS
  <1>1. pc.code = "set_sepc" /\ priv = "S"
    BY Loc DEF set_sepc, KernelCode, TypeOK, Control, PlaceControl
  <1>2. pc' \in Kernel /\ pc'.code = "enter_user_process"
    BY GotoFact DEF set_sepc, KernelCode
  <1> QED
    BY <1>1, <1>2 DEF set_sepc, TypeOK, csr, dev, tbl, Doomed, Data, Saved, Ready, Trapped,
       Doing,
       Control, PlaceControl, VectorControl, Interruptible, Leaving, UserEntry, Serving

LEMMA Data_enter_user_process == TypeOK /\ Control /\ Data /\ enter_user_process => (Doomed \/ Data)'
  <1> SUFFICES ASSUME TypeOK, Control, Data, enter_user_process PROVE (Doomed \/ Data)'
    OBVIOUS
  <1>1. pc.code = "enter_user_process" /\ priv = "S"
    BY Loc DEF enter_user_process, KernelCode, TypeOK, Control, PlaceControl
  <1>2. pc' \in Kernel /\ pc'.code = "sret"
    BY GotoFact DEF enter_user_process, KernelCode
  <1> QED
    BY <1>1, <1>2 DEF enter_user_process, TypeOK, csr, dev, tbl, Doomed, Data, Saved,
       Ready, Trapped, Doing,
       Control, PlaceControl, VectorControl, Interruptible, Leaving, UserEntry, Serving

LEMMA Data_uservec == TypeOK /\ Control /\ Data /\ uservec => (Doomed \/ Data)'
  <1> SUFFICES ASSUME TypeOK, Control, Data, uservec PROVE (Doomed \/ Data)'
    OBVIOUS
  <1>1. pc.code = "uservec" /\ priv = "S"
    BY Loc DEF uservec, KernelCode, TypeOK, Control, PlaceControl
  <1>2. pc' \in Kernel /\ pc'.code = "ktrap_from_user_handler"
    BY GotoFact DEF uservec, KernelCode
  <1>3. /\ frame'[root].epc = frame[root].epc /\ frame'[root].regs = reg
        /\ \A i \in Slots : i # root => frame'[i] = frame[i]
    BY PutRegs DEF uservec, TypeOK
  <1> QED
    BY <1>1, <1>2, <1>3 DEF uservec, TypeOK, csr, dev, tbl, Doomed, Data, Saved, Ready,
       Trapped, Doing,
       Control, PlaceControl, VectorControl, Interruptible, Leaving, UserEntry, Serving

LEMMA Data_HandleInterrupt == TypeOK /\ Control /\ Data /\ HandleInterrupt => (Doomed \/ Data)'
  <1> SUFFICES ASSUME TypeOK, Control, Data, HandleInterrupt PROVE (Doomed \/ Data)'
    OBVIOUS
  <1>1. pc.code = "ktrap_from_user_handler" /\ priv = "S"
    BY Loc DEF HandleInterrupt, EnterHandler, KernelCode, TypeOK, Control, PlaceControl
  <1>2. pc' \in Kernel /\ pc'.code = "KtrapInterruptHandle"
    BY GotoFact DEF HandleInterrupt, EnterHandler, KernelCode
  <1>3. /\ frame'[current].epc = sepc /\ frame'[current].regs = frame[current].regs
        /\ \A i \in Slots : i # current => frame'[i] = frame[i]
    BY PutEpc DEF HandleInterrupt, TypeOK
  <1> QED
    BY <1>1, <1>2, <1>3 DEF HandleInterrupt, EnterHandler, TypeOK, csr, dev, tbl, Doomed,
       Data, Saved, Ready, Trapped, Doing,
       Control, PlaceControl, VectorControl, Interruptible, Leaving, UserEntry, Serving

LEMMA Data_SysExit == TypeOK /\ Control /\ Data /\ SysExit => (Doomed \/ Data)'
  <1> SUFFICES ASSUME TypeOK, Control, Data, SysExit PROVE (Doomed \/ Data)'
    OBVIOUS
  <1>1. pc.code = "ktrap_from_user_handler" /\ priv = "S"
    BY Loc DEF SysExit, Syscall, EnterHandler, KernelCode, TypeOK, Control, PlaceControl
  <1>2. pc' \in Kernel /\ pc'.code = "kproc_scheduler"
    BY GotoFact DEF SysExit, Syscall, EnterHandler, KernelCode
  <1>3. \A i \in Slots : i # current => frame'[i] = frame[i]
    BY AfterUser, PutEpc DEF SysExit, TypeOK
  <1> QED
    BY <1>1, <1>2, <1>3 DEF SysExit, Syscall, EnterHandler, TypeOK, csr, dev, tbl, Doomed,
       Data, Saved, Ready, Trapped, Doing,
       Control, PlaceControl, VectorControl, Interruptible, Leaving, UserEntry, Serving

LEMMA Data_SysSleep == TypeOK /\ Control /\ Data /\ SysSleep => (Doomed \/ Data)'
  <1> SUFFICES ASSUME TypeOK, Control, Data, SysSleep PROVE (Doomed \/ Data)'
    OBVIOUS
  <1>1. pc.code = "ktrap_from_user_handler" /\ priv = "S"
    BY Loc DEF SysSleep, Syscall, EnterHandler, KernelCode, TypeOK, Control, PlaceControl
  <1>2. pc' \in Kernel /\ pc'.code = "kproc_scheduler"
    BY GotoFact DEF SysSleep, Syscall, EnterHandler, KernelCode
  <1>3. /\ frame'[current].epc = After(sepc) /\ ra'[current] = "ksys_sleep"
        /\ \A i \in Slots : i # current => frame'[i] = frame[i] /\ ra'[i] = ra[i]
    BY AfterUser, PutEpc DEF SysSleep, TypeOK
  <1> QED
    BY <1>1, <1>2, <1>3 DEF SysSleep, Syscall, EnterHandler, TypeOK, csr, dev, tbl, Doomed,
       Data, Saved, Ready, Trapped, Doing,
       Control, PlaceControl, VectorControl, Interruptible, Leaving, UserEntry, Serving

LEMMA Data_SysOther == TypeOK /\ Control /\ Data /\ SysOther => (Doomed \/ Data)'
  <1> SUFFICES ASSUME TypeOK, Control, Data, SysOther PROVE (Doomed \/ Data)'
    OBVIOUS
  <1>1. pc.code = "ktrap_from_user_handler" /\ priv = "S"
    BY Loc DEF SysOther, Syscall, EnterHandler, KernelCode, TypeOK, Control, PlaceControl
  <1>2. pc' \in Kernel /\ pc'.code = "ktrap_to_user"
    BY GotoFact DEF SysOther, Syscall, EnterHandler, KernelCode
  <1>3. /\ frame'[current].epc = After(sepc) /\ at'[current].epc = at[current].epc
        /\ frame'[current].regs = at'[current].regs
        /\ \A i \in Slots : i # current => frame'[i] = frame[i] /\ at'[i] = at[i]
    BY AfterUser, Put, PutRegs DEF SysOther, TypeOK
  <1> QED
    BY <1>1, <1>2, <1>3 DEF SysOther, Syscall, EnterHandler, TypeOK, csr, dev, tbl, Doomed,
       Data, Saved, Ready, Trapped, Doing,
       Control, PlaceControl, VectorControl, Interruptible, Leaving, UserEntry, Serving

LEMMA Data_SysKill == TypeOK /\ Control /\ Data /\ SysKill => (Doomed \/ Data)'
  <1> SUFFICES ASSUME TypeOK, Control, Data, SysKill PROVE (Doomed \/ Data)'
    OBVIOUS
  <1>1. pc.code = "ktrap_from_user_handler" /\ priv = "S"
    BY Loc DEF SysKill, Syscall, EnterHandler, KernelCode, TypeOK, Control, PlaceControl
  <1>2. pc' \in Kernel /\ pc'.code = "ktrap_to_user"
    BY GotoFact DEF SysKill, Syscall, EnterHandler, KernelCode
  <1>3. /\ frame'[current].epc = After(sepc) /\ at'[current].epc = at[current].epc
        /\ frame'[current].regs = at'[current].regs
        /\ \A i \in Slots : i # current => frame'[i] = frame[i] /\ at'[i] = at[i]
    BY AfterUser, Put, PutRegs DEF SysKill, TypeOK
  <1>4. live' \subseteq live /\ (current \in live => current \in live')
    BY DEF SysKill
  <1> QED
    BY <1>1, <1>2, <1>3, <1>4 DEF SysKill, Syscall, EnterHandler, TypeOK, csr, dev, tbl,
       Doomed, Data, Saved, Ready, Trapped, Doing,
       Control, PlaceControl, VectorControl, Interruptible, Leaving, UserEntry, Serving

LEMMA Data_SysExec == TypeOK /\ Control /\ Data /\ SysExec => (Doomed \/ Data)'
  <1> SUFFICES ASSUME TypeOK, Control, Data, SysExec PROVE (Doomed \/ Data)'
    OBVIOUS
  <1>1. pc.code = "ktrap_from_user_handler" /\ priv = "S"
    BY Loc DEF SysExec, Syscall, EnterHandler, KernelCode, TypeOK, Control, PlaceControl
  <1>2. pc' \in Kernel /\ pc'.code = "ktrap_to_user"
    BY GotoFact DEF SysExec, Syscall, EnterHandler, KernelCode
  <1>3. /\ frame'[current].epc = at'[current].epc /\ frame'[current].regs = at'[current].regs
        /\ \A i \in Slots : i # current => frame'[i] = frame[i] /\ at'[i] = at[i] /\ ra'[i] = ra[i]
    BY EntryUser, Put DEF SysExec, TypeOK
  <1> QED
    BY <1>1, <1>2, <1>3 DEF SysExec, Syscall, EnterHandler, TypeOK, csr, dev, tbl, Doomed,
       Data, Saved, Ready, Trapped, Doing,
       Control, PlaceControl, VectorControl, Interruptible, Leaving, UserEntry, Serving

LEMMA Data_kernelvec == TypeOK /\ Control /\ Data /\ kernelvec => (Doomed \/ Data)'
  <1> SUFFICES ASSUME TypeOK, Control, Data, kernelvec PROVE (Doomed \/ Data)'
    OBVIOUS
  <1>1. pc.code = "kernelvec" /\ priv = "S"
    BY Loc DEF kernelvec, KernelCode, TypeOK, Control, PlaceControl
  <1>2. pc' \in Kernel /\ pc'.code = IF spp = "S" /\ scause = "external" THEN "KtrapInterruptHandle" ELSE "kpanic"
    BY GotoFact DEF kernelvec, KernelCode
  <1> QED
    BY <1>1, <1>2 DEF kernelvec, TypeOK, csr, dev, tbl, Doomed, Data, Saved, Ready,
       Trapped, Doing,
       Control, PlaceControl, VectorControl, Interruptible, Leaving, UserEntry, Serving

LEMMA Data_KtrapInterruptHandle == TypeOK /\ Control /\ Data /\ KtrapInterruptHandle => (Doomed \/ Data)'
  <1> SUFFICES ASSUME TypeOK, Control, Data, KtrapInterruptHandle PROVE (Doomed \/ Data)'
    OBVIOUS
  <1>1. pc.code = "KtrapInterruptHandle" /\ priv = "S"
    BY Loc DEF KtrapInterruptHandle, KernelCode, TypeOK, Control, PlaceControl
  <1>2. pc' \in Kernel /\ pc'.code = "UartInterruptHandle"
    BY GotoFact DEF KtrapInterruptHandle, KernelCode
  <1> QED
    BY <1>1, <1>2 DEF KtrapInterruptHandle, TypeOK, csr, dev, tbl, Doomed, Data, Saved,
       Ready, Trapped, Doing,
       Control, PlaceControl, VectorControl, Interruptible, Leaving, UserEntry, Serving

LEMMA Data_UartInterruptHandle == TypeOK /\ Control /\ Data /\ UartInterruptHandle => (Doomed \/ Data)'
  <1> SUFFICES ASSUME TypeOK, Control, Data, UartInterruptHandle PROVE (Doomed \/ Data)'
    OBVIOUS
  <1>1. pc.code = "UartInterruptHandle" /\ priv = "S"
    BY Loc DEF UartInterruptHandle, KernelCode, TypeOK, Control, PlaceControl
  <1>2. pc' \in Kernel /\ pc'.code = "PlicComplete"
    BY GotoFact DEF UartInterruptHandle, KernelCode
  <1> QED
    BY <1>1, <1>2 DEF UartInterruptHandle, TypeOK, csr, dev, tbl, Doomed, Data, Saved,
       Ready, Trapped, Doing,
       Control, PlaceControl, VectorControl, Interruptible, Leaving, UserEntry, Serving

LEMMA Data_PlicComplete == TypeOK /\ Control /\ Data /\ PlicComplete => (Doomed \/ Data)'
  <1> SUFFICES ASSUME TypeOK, Control, Data, PlicComplete PROVE (Doomed \/ Data)'
    OBVIOUS
  <1>1. pc.code = "PlicComplete" /\ priv = "S"
    BY Loc DEF PlicComplete, KernelCode, TypeOK, Control, PlaceControl
  <1>2. pc' \in Kernel /\ pc'.code = IF spp = "S" THEN "PlicCompleteAgain" ELSE "ktrap_to_user"
    BY GotoFact DEF PlicComplete, KernelCode
  <1> QED
    BY <1>1, <1>2 DEF PlicComplete, TypeOK, csr, dev, tbl, Doomed, Data, Saved, Ready,
       Trapped, Doing,
       Control, PlaceControl, VectorControl, Interruptible, Leaving, UserEntry, Serving

LEMMA Data_PlicCompleteAgain == TypeOK /\ Control /\ Data /\ PlicCompleteAgain => (Doomed \/ Data)'
  <1> SUFFICES ASSUME TypeOK, Control, Data, PlicCompleteAgain PROVE (Doomed \/ Data)'
    OBVIOUS
  <1>1. pc.code = "PlicCompleteAgain" /\ priv = "S"
    BY Loc DEF PlicCompleteAgain, KernelCode, TypeOK, Control, PlaceControl
  <1>2. pc' \in Kernel /\ pc'.code = "sret"
    BY GotoFact DEF PlicCompleteAgain, KernelCode
  <1> QED
    BY <1>1, <1>2 DEF PlicCompleteAgain, TypeOK, csr, dev, tbl, Doomed, Data, Saved, Ready,
       Trapped, Doing,
       Control, PlaceControl, VectorControl, Interruptible, Leaving, UserEntry, Serving

LEMMA Data_kproc_scheduler == TypeOK /\ Control /\ Data /\ kproc_scheduler => (Doomed \/ Data)'
  <1> SUFFICES ASSUME TypeOK, Control, Data, kproc_scheduler PROVE (Doomed \/ Data)'
    OBVIOUS
  <1>1. pc.code = "kproc_scheduler" /\ priv = "S"
    BY Loc DEF kproc_scheduler, KernelCode, TypeOK, Control, PlaceControl
  <1>2. \A i \in live : Saved(i)
    BY <1>1 DEF Data, Doing, Serving
  <1>3. CASE live = {} /\ UNCHANGED <<current, pc>>
    BY <1>1, <1>3 DEF kproc_scheduler, csr, dev, Doomed, Data, Saved, Ready, Trapped,
       Doing, Interruptible, Leaving, UserEntry, Serving
  <1>4. ASSUME NEW i \in live, current' = i, Goto(ra[i]) PROVE (Doomed \/ Data)'
    <2>1. ra[i] \in {"ktrap_to_user", "ksys_sleep"} /\ i \in Slots
      BY DEF TypeOK
    <2>2. ra[i] \in KernelCode
      BY <2>1 DEF KernelCode
    <2>3. pc'.code = ra[i]
      BY <1>4, <2>2, GotoFact
    <2> QED BY <1>1, <1>2, <1>4, <2>1, <2>3 DEF kproc_scheduler, csr, dev, Doomed, Data,
       Saved, Ready, Trapped, Doing, Interruptible, Leaving, UserEntry, Serving
  <1> QED BY <1>3, <1>4 DEF kproc_scheduler

LEMMA Data_SysFork == TypeOK /\ Control /\ Data /\ SysFork => (Doomed \/ Data)'
  <1> SUFFICES ASSUME TypeOK, Control, Data, SysFork PROVE (Doomed \/ Data)'
    OBVIOUS
  <1>1. pc.code = "ktrap_from_user_handler" /\ priv = "S" /\ spp = "U" /\ scause = "fork"
    BY Loc DEF SysFork, Syscall, EnterHandler, KernelCode, TypeOK, Control, PlaceControl
  <1>2. CASE live = Slots
    <2>1. pc'.code = "kpanic"
      BY <1>2, GotoFact DEF SysFork, KernelCode
    <2> QED BY <2>1 DEF Doomed
  <1>3. CASE live # Slots
    <2>1. pc'.code = "ktrap_to_user"
      BY <1>3, GotoFact DEF SysFork, KernelCode
    <2>2. PICK i \in Slots \ live, v, v0 \in Regs :
            /\ live' = live \cup {i}
            /\ frame' = [frame EXCEPT ![current] = [epc |-> After(sepc), regs |-> v],
                                      ![i] = [epc |-> After(sepc), regs |-> v0]]
            /\ at' = [at EXCEPT ![current].regs = v,
                                ![i] = [epc |-> at[current].epc, regs |-> v0]]
            /\ ra' = [ra EXCEPT ![i] = "ktrap_to_user"]
      BY <1>3 DEF SysFork
    <2>3. current \in live /\ i # current /\ After(sepc) = at[current].epc
      BY <1>1, <2>2 DEF Data, Trapped
    <2>4. /\ frame'[current].epc = After(sepc) /\ frame'[current].regs = v
          /\ frame'[i].epc = After(sepc) /\ frame'[i].regs = v0
          /\ \A j \in Slots : j # current /\ j # i => frame'[j] = frame[j]
      BY <2>2, <2>3 DEF TypeOK
    <2>5. /\ at'[current].epc = at[current].epc /\ at'[current].regs = v
          /\ at'[i].epc = at[current].epc /\ at'[i].regs = v0
          /\ \A j \in Slots : j # current /\ j # i => at'[j] = at[j]
      BY <2>2, <2>3 DEF TypeOK, Place
    <2>6. \A j \in Slots : j # i => ra'[j] = ra[j]
      BY <2>2 DEF TypeOK
    <2>7. current' = current /\ priv' = priv /\ spp' = spp
      BY DEF SysFork, Syscall, EnterHandler
    <2> QED
      BY <1>1, <2>1, <2>2, <2>3, <2>4, <2>5, <2>6, <2>7 DEF TypeOK, Doomed, Data, Saved,
         Ready, Trapped, Doing, Interruptible, Leaving, UserEntry, Serving
  <1> QED BY <1>2, <1>3

LEMMA Data_sret == TypeOK /\ Control /\ Data /\ sret => (Doomed \/ Data)'
  <1> SUFFICES ASSUME TypeOK, Control, Data, sret PROVE (Doomed \/ Data)'
    OBVIOUS
  <1>1. pc.code = "sret" /\ priv = "S"
    BY Loc DEF sret, KernelCode, TypeOK, Control, PlaceControl
  <1>2. CASE spp = "U"
    <2>1. sepc \in User /\ pc' = sepc /\ pc'.code = "user" /\ priv' = "U" /\ spp' = "U"
      BY <1>1, <1>2, Loc DEF sret, Control, PlaceControl
    <2> QED BY <1>1, <1>2, <2>1 DEF sret, dev, tbl, Doomed, Data, Saved, Ready, Trapped,
       Doing, Interruptible, Leaving, UserEntry, Serving
  <1>3. CASE spp = "S"
    <2>1. pc' = sepc /\ pc'.code \in Interruptible /\ priv' = "S" /\ spp' = "U"
      BY <1>1, <1>3 DEF sret, Control, PlaceControl, Serving
    <2> QED BY <1>1, <1>3, <2>1 DEF sret, dev, tbl, Doomed, Data, Saved, Ready, Trapped,
       Doing, Interruptible, Leaving, UserEntry, Serving
  <1> QED BY <1>2, <1>3 DEF TypeOK

LEMMA Data_Exception == TypeOK /\ Control /\ Data /\ Exception => (Doomed \/ Data)'
  <1> SUFFICES ASSUME TypeOK, Control, Data, Exception PROVE (Doomed \/ Data)'
    OBVIOUS
  <1>1. priv = "U" /\ stvec = "uservec" /\ pc \in User
    BY DEF Exception, Control, PlaceControl, VectorControl
  <1>2. /\ pc'.code = "uservec" /\ spp' = "U" /\ priv' = "S" /\ sepc' = pc
        /\ scause' # "external"
    BY <1>1, Loc DEF Exception, TakeTrap, KernelCode, Calls
  <1>3. /\ at'[current].epc = After(pc) /\ at'[current].regs = at[current].regs
        /\ \A i \in Slots : i # current => at'[i] = at[i]
    BY <1>1, AfterUser, PutEpc DEF Exception, TypeOK
  <1>4. After(sepc)' = After(pc)
    BY <1>2 DEF After, U
  <1> QED BY <1>1, <1>2, <1>3, <1>4 DEF Exception, TypeOK, dev, Doomed, Data, Saved, Ready,
     Trapped, Doing, Interruptible, Leaving, UserEntry, Serving

LEMMA Data_Interrupt == TypeOK /\ Control /\ Data /\ Interrupt => (Doomed \/ Data)'
  <1> SUFFICES ASSUME TypeOK, Control, Data, Interrupt PROVE (Doomed \/ Data)'
    OBVIOUS
  <1>1. stvec \in {"kernelvec", "uservec"}
    BY DEF Interrupt, TypeOK, Control, VectorControl
  <1>2. /\ pc'.code = stvec /\ spp' = priv /\ priv' = "S" /\ sepc' = pc /\ scause' = "external"
        /\ UNCHANGED <<reg, root, live, current, frame, ra, at>>
    BY <1>1, Loc DEF Interrupt, TakeTrap, KernelCode, tbl
  <1>3. CASE priv = "U"
    <2>1. stvec = "uservec"
      BY <1>3 DEF Control, VectorControl
    <2> QED BY <1>2, <1>3, <2>1 DEF Doomed, Data, Saved, Ready, Trapped, Doing,
       Interruptible, Leaving, UserEntry, Serving
  <1>4. CASE priv = "S" /\ stvec = "uservec"
    BY <1>2, <1>4 DEF Doomed, UserEntry
  <1>5. CASE priv = "S" /\ stvec = "kernelvec"
    <2>1. sie
      BY <1>5 DEF Interrupt
    <2>2. pc.code \in Interruptible
      BY <1>5, <2>1 DEF Interrupt, Control, SieControl, PlaceControl, FrameControl,
         RootControl, VectorControl, ClaimControl, Interruptible, Leaving, UserEntry,
         Serving, TypeOK
    <2> QED BY <1>2, <1>5, <2>2 DEF Doomed, Data, Saved, Ready, Trapped, Doing,
       Interruptible, Leaving, UserEntry, Serving
  <1> QED BY <1>1, <1>3, <1>4, <1>5 DEF TypeOK

LEMMA Data_UserStep == TypeOK /\ Control /\ Data /\ UserStep => (Doomed \/ Data)'
  <1> SUFFICES ASSUME TypeOK, Control, Data, UserStep PROVE (Doomed \/ Data)'
    OBVIOUS
  <1>1. PICK n \in Instr, v \in Regs :
          /\ pc' = U(n) /\ reg' = v
          /\ at' = [at EXCEPT ![current] = [epc |-> U(n), regs |-> v]]
    BY DEF UserStep
  <1>2. pc'.code = "user" /\ pc' \in User /\ priv = "U"
    BY <1>1, Loc DEF UserStep
  <1>3. /\ at'[current].epc = pc' /\ at'[current].regs = reg'
        /\ \A i \in Slots : i # current => at'[i] = at[i]
    BY <1>1, <1>2, Put DEF TypeOK
  <1> QED BY <1>2, <1>3 DEF UserStep, TypeOK, csr, dev, Doomed, Data, Saved, Ready,
     Trapped, Doing, Interruptible, Leaving, UserEntry, Serving

LEMMA DataStep == TypeOK /\ Control /\ Data /\ [Next]_vars => (Doomed \/ Data)'
  <1> SUFFICES ASSUME TypeOK, Control, Data, [Next]_vars PROVE (Doomed \/ Data)'
    OBVIOUS
  <1>1. CASE FromKernel \/ UnhandledException
    <2>1. pc'.code = "kpanic"
      BY <1>1, GotoFact DEF FromKernel, UnhandledException, KernelCode
    <2> QED BY <2>1 DEF Doomed
  <1>2. CASE uservec_fault
    <2>1. pc.code = "uservec" /\ priv = "S" /\ stvec = "uservec"
      BY <1>2, Loc DEF uservec_fault, KernelCode, TypeOK, Control, PlaceControl,
         VectorControl
    <2>2. pc'.code = "uservec" /\ spp' = "S"
      BY <1>2, <2>1, Loc DEF uservec_fault, TakeTrap, KernelCode
    <2> QED BY <2>2 DEF Doomed, UserEntry
  <1>3. CASE Receive \/ Raise
    BY <1>3 DEF Receive, Raise, csr, tbl, Doomed, Data, Saved, Ready, Trapped, Doing,
       Interruptible, Leaving, UserEntry, Serving
  <1>4. CASE kpanic \/ UNCHANGED vars
    BY <1>4 DEF kpanic, vars, csr, dev, tbl, Doomed, Data, Saved, Ready, Trapped, Doing,
       Interruptible, Leaving, UserEntry, Serving
  <1> QED
    BY <1>1, <1>2, <1>3, <1>4, Data_ktrap_init, Data_PlicInitHart, Data_kernel_main,
       Data_ksys_sleep, Data_ktrap_to_user, Data_set_sstatus, Data_set_sepc,
       Data_enter_user_process, Data_uservec, Data_HandleInterrupt, Data_SysExit,
       Data_SysSleep, Data_SysOther, Data_SysKill, Data_SysExec, Data_kernelvec,
       Data_KtrapInterruptHandle, Data_UartInterruptHandle, Data_PlicComplete,
       Data_PlicCompleteAgain,
       Data_kproc_scheduler, Data_SysFork, Data_sret, Data_Exception, Data_Interrupt,
          Data_UserStep
    DEF Next, KernelStep

\* A machine on its way to kpanic stays on it.
LEMMA DoomedStep == TypeOK /\ Control /\ Doomed /\ [Next]_vars => Doomed'
  <1> SUFFICES ASSUME TypeOK, Control, Doomed, [Next]_vars PROVE Doomed'
    OBVIOUS
  <1>1. priv = "S" /\ ~sie /\ pc \in Kernel
    BY Loc DEF Doomed, TypeOK, Control, SieControl, PlaceControl, Interruptible, Leaving,
       UserEntry, KernelCode
  <1>2. ~UserStep /\ ~Exception /\ ~Interrupt
    BY <1>1 DEF UserStep, Exception, Interrupt
  <1>3. CASE Receive \/ Raise \/ kpanic \/ UNCHANGED vars
    BY <1>3 DEF Receive, Raise, kpanic, vars, csr, Doomed
  <1>4. CASE pc.code = "kpanic" /\ KernelStep
    <2>1. kpanic
      BY <1>1, <1>4, Loc DEF KernelCode, KernelStep, ktrap_init, PlicInitHart, kernel_main,
         kproc_scheduler, ksys_sleep, ktrap_to_user, set_sstatus, set_sepc, enter_user_process, sret, uservec, FromKernel, HandleInterrupt, UnhandledException, SysOther, SysFork, SysExec, SysExit, SysKill, SysSleep, kernelvec, KtrapInterruptHandle, UartInterruptHandle, PlicComplete, PlicCompleteAgain,
         uservec_fault, Syscall, EnterHandler
    <2> QED BY <1>3, <2>1
  <1>5. CASE pc.code = "uservec" /\ spp = "S" /\ KernelStep
    <2>1. uservec \/ uservec_fault
      BY <1>1, <1>5, Loc DEF KernelCode, KernelStep, ktrap_init, PlicInitHart, kernel_main,
         kproc_scheduler, ksys_sleep, ktrap_to_user, set_sstatus, set_sepc, enter_user_process, sret, FromKernel, HandleInterrupt, UnhandledException, SysOther, SysFork, SysExec, SysExit, SysKill, SysSleep, kernelvec, KtrapInterruptHandle, UartInterruptHandle, PlicComplete, PlicCompleteAgain,
         kpanic, Syscall, EnterHandler
    <2>2. CASE uservec
      <3>1. pc'.code = "ktrap_from_user_handler" /\ spp' = "S"
        BY <1>5, <2>2, GotoFact DEF uservec, csr, KernelCode
      <3> QED BY <3>1 DEF Doomed, UserEntry
    <2>3. CASE uservec_fault
      <3>1. stvec = "uservec"
        BY <1>5 DEF Control, VectorControl
      <3>2. pc'.code = "uservec" /\ spp' = "S"
        BY <1>1, <2>3, <3>1, Loc DEF uservec_fault, TakeTrap, KernelCode
      <3> QED BY <3>2 DEF Doomed, UserEntry
    <2> QED BY <2>1, <2>2, <2>3
  <1>6. CASE pc.code = "ktrap_from_user_handler" /\ spp = "S" /\ KernelStep
    <2>1. FromKernel
      BY <1>1, <1>6, Loc DEF KernelCode, KernelStep, ktrap_init, PlicInitHart, kernel_main,
         kproc_scheduler, ksys_sleep, ktrap_to_user, set_sstatus, set_sepc, enter_user_process, sret, uservec, HandleInterrupt, UnhandledException, SysOther, SysFork, SysExec, SysExit, SysKill, SysSleep, kernelvec, KtrapInterruptHandle, UartInterruptHandle, PlicComplete, PlicCompleteAgain,
         kpanic, uservec_fault, Syscall
    <2>2. pc'.code = "kpanic"
      BY <2>1, GotoFact DEF FromKernel, KernelCode
    <2> QED BY <2>2 DEF Doomed
  <1> QED BY <1>2, <1>3, <1>4, <1>5, <1>6 DEF Next, Doomed, UserEntry

----------------------------------------------------------------------------
\* The invariant of the trap path is inductive.
THEOREM Invariance == Spec => []IInv
  <1>1. Init => IInv
    BY InitInv DEF IInv
  <1>2. IInv /\ [Next]_vars => IInv'
    BY ControlStep, DataStep, DoomedStep DEF IInv
  <1> QED BY <1>1, <1>2, PTL DEF Spec

\* Every variable of the trap path keeps its type.
THEOREM TypeCorrect == Spec => []TypeOK
  <1>1. IInv => TypeOK
    BY DEF IInv
  <1> QED BY <1>1, Invariance, PTL

\* After the first process has been entered the kernel runs with interrupts off,
\* for any number of processes: every system call is atomic.
THEOREM KernelIsAtomic == Spec => []KernelNotInterrupted
  <1>1. IInv => KernelNotInterrupted
    BY DEF IInv, Control, SieControl, KernelNotInterrupted
  <1> QED BY <1>1, Invariance, PTL

\* ktrap_from_supervisor_handler never sees a trap from user mode, and a trap
\* from user mode always goes through uservec.
THEOREM VectorsMatch == Spec => []VectorsAgree
  <1>1. IInv => VectorsAgree
    <2>1. K("kernelvec").code = "kernelvec"
      BY Loc DEF KernelCode
    <2> QED BY <2>1 DEF IInv, Control, VectorControl, VectorsAgree
  <1> QED BY <1>1, Invariance, PTL

\* No process runs while the UART's interrupt is claimed and not completed.
THEOREM ClaimsAreCompleted == Spec => []NoClaimInUser
  <1>1. IInv => NoClaimInUser
    BY Loc DEF IInv, TypeOK, Control, PlaceControl, ClaimControl, NoClaimInUser
  <1> QED BY <1>1, Invariance, PTL

\* A process resumes with the place and the registers it was interrupted with,
\* or with the result of its system call, through any interleaving of
\* interrupts, system calls and context switches.
THEOREM ProcessesResume == Spec => []ResumesAtTrap
  <1>1. IInv => ResumesAtTrap
    <2> SUFFICES ASSUME IInv, priv = "U" PROVE ResumesAtTrap
      BY DEF ResumesAtTrap
    <2>1. pc \in User /\ pc.code = "user"
      BY Loc DEF IInv, Control, PlaceControl
    <2>2. Data
      BY <2>1 DEF IInv, Doomed, UserEntry
    <2>3. /\ pc = at[current].epc /\ reg = at[current].regs
          /\ root = current /\ current \in live
      BY <2>2 DEF Data
    <2>4. at[current] \in Place
      BY DEF IInv, TypeOK
    <2>5. [epc |-> pc, regs |-> reg] = at[current]
      BY <2>3, <2>4 DEF Place
    <2> QED BY <2>3, <2>5 DEF ResumesAtTrap
  <1> QED BY <1>1, Invariance, PTL

----------------------------------------------------------------------------
(***************************************************************************)
(* The trap path implements the life cycle of ProcLife.  An interrupt of   *)
(* the booting kernel must come back to what it interrupted, so the proof  *)
(* needs two more facts: the scheduler and the code before it run with     *)
(* stvec at kernelvec, and kernelvec is reached by interrupts only.        *)
(***************************************************************************)
BeforeUser == {"PlicInitHart", "kernel_main", "kproc_scheduler"}

LifeInv ==
  /\ Doing \in BeforeUser => stvec = "kernelvec"
  /\ pc.code = "kernelvec" => scause = "external"

\* LifeCpu as a function of what the hart is doing.
LEMMA CpuFacts ==
  /\ Doing \in {"ktrap_init", "PlicInitHart", "kernel_main"} => LifeCpu = "boot"
  /\ Doing = "kproc_scheduler" => LifeCpu = "kernel"
  /\ Doing = "kpanic" => LifeCpu = "stopped"
  /\ Doing \notin BeforeUser \cup {"ktrap_init", "kpanic"} => LifeCpu = "user"
  BY DEF LifeCpu, BeforeUser

LEMMA CpuFactsNext ==
  /\ Doing' \in {"ktrap_init", "PlicInitHart", "kernel_main"} => LifeCpu' = "boot"
  /\ Doing' = "kproc_scheduler" => LifeCpu' = "kernel"
  /\ Doing' = "kpanic" => LifeCpu' = "stopped"
  /\ Doing' \notin BeforeUser \cup {"ktrap_init", "kpanic"} => LifeCpu' = "user"
  BY DEF LifeCpu, BeforeUser

\* A step that leaves the table alone and does not change what the hart is
\* doing for the life cycle.
Quiet ==
  /\ live' = live /\ current' = current
  /\ \/ Doing' = Doing
     \/ /\ Doing \notin BeforeUser \cup {"ktrap_init", "kpanic"}
        /\ Doing' \notin BeforeUser \cup {"ktrap_init", "kpanic"}
     \/ Doing = "ktrap_init" /\ Doing' = "PlicInitHart"
     \/ Doing = "PlicInitHart" /\ Doing' = "kernel_main"

LEMMA QuietStutters == Quiet => UNCHANGED Life!lifeVars
  <1> SUFFICES ASSUME Quiet PROVE LifeCpu' = LifeCpu
    BY DEF Life!lifeVars, Quiet
  <1>1. CASE Doing' = Doing
    BY <1>1 DEF LifeCpu
  <1>2. CASE Doing' # Doing
    BY <1>2, CpuFacts, CpuFactsNext DEF Quiet
  <1> QED BY <1>1, <1>2

LEMMA Life_ktrap_init ==
  ASSUME TypeOK, Control, LifeInv, ktrap_init
  PROVE  LifeInv' /\ Quiet
  <1>1. pc.code = "ktrap_init" /\ pc'.code = "PlicInitHart"
    BY GotoFact, Loc DEF ktrap_init, KernelCode
  <1> QED BY <1>1 DEF ktrap_init, csr, tbl, Control, VectorControl, LifeInv, Quiet, Doing, BeforeUser, Serving

LEMMA Life_PlicInitHart ==
  ASSUME TypeOK, Control, LifeInv, PlicInitHart
  PROVE  LifeInv' /\ Quiet
  <1>1. pc.code = "PlicInitHart" /\ pc'.code = "kernel_main"
    BY GotoFact, Loc DEF PlicInitHart, KernelCode
  <1> QED BY <1>1 DEF PlicInitHart, csr, tbl, Control, VectorControl, LifeInv, Quiet, Doing, BeforeUser, Serving

LEMMA Life_ksys_sleep ==
  ASSUME TypeOK, Control, LifeInv, ksys_sleep
  PROVE  LifeInv' /\ Quiet
  <1>1. pc.code = "ksys_sleep" /\ pc'.code = "ktrap_to_user"
    BY GotoFact, Loc DEF ksys_sleep, KernelCode
  <1> QED BY <1>1 DEF ksys_sleep, csr, tbl, Control, VectorControl, LifeInv, Quiet, Doing, BeforeUser, Serving

LEMMA Life_ktrap_to_user ==
  ASSUME TypeOK, Control, LifeInv, ktrap_to_user
  PROVE  LifeInv' /\ Quiet
  <1>1. pc.code = "ktrap_to_user" /\ pc'.code = "set_sstatus"
    BY GotoFact, Loc DEF ktrap_to_user, KernelCode
  <1> QED BY <1>1 DEF ktrap_to_user, csr, tbl, Control, VectorControl, LifeInv, Quiet, Doing, BeforeUser, Serving

LEMMA Life_set_sstatus ==
  ASSUME TypeOK, Control, LifeInv, set_sstatus
  PROVE  LifeInv' /\ Quiet
  <1>1. pc.code = "set_sstatus" /\ pc'.code = "set_sepc"
    BY GotoFact, Loc DEF set_sstatus, KernelCode
  <1> QED BY <1>1 DEF set_sstatus, csr, tbl, Control, VectorControl, LifeInv, Quiet, Doing, BeforeUser, Serving

LEMMA Life_set_sepc ==
  ASSUME TypeOK, Control, LifeInv, set_sepc
  PROVE  LifeInv' /\ Quiet
  <1>1. pc.code = "set_sepc" /\ pc'.code = "enter_user_process"
    BY GotoFact, Loc DEF set_sepc, KernelCode
  <1> QED BY <1>1 DEF set_sepc, csr, tbl, Control, VectorControl, LifeInv, Quiet, Doing, BeforeUser, Serving

LEMMA Life_enter_user_process ==
  ASSUME TypeOK, Control, LifeInv, enter_user_process
  PROVE  LifeInv' /\ Quiet
  <1>1. pc.code = "enter_user_process" /\ pc'.code = "sret"
    BY GotoFact, Loc DEF enter_user_process, KernelCode
  <1> QED BY <1>1 DEF enter_user_process, csr, tbl, Control, VectorControl, LifeInv, Quiet, Doing, BeforeUser, Serving

LEMMA Life_KtrapInterruptHandle ==
  ASSUME TypeOK, Control, LifeInv, KtrapInterruptHandle
  PROVE  LifeInv' /\ Quiet
  <1>1. pc.code = "KtrapInterruptHandle" /\ pc'.code = "UartInterruptHandle"
    BY GotoFact, Loc DEF KtrapInterruptHandle, KernelCode
  <1> QED BY <1>1 DEF KtrapInterruptHandle, csr, tbl, Control, VectorControl, LifeInv, Quiet, Doing, BeforeUser, Serving

LEMMA Life_UartInterruptHandle ==
  ASSUME TypeOK, Control, LifeInv, UartInterruptHandle
  PROVE  LifeInv' /\ Quiet
  <1>1. pc.code = "UartInterruptHandle" /\ pc'.code = "PlicComplete"
    BY GotoFact, Loc DEF UartInterruptHandle, KernelCode
  <1> QED BY <1>1 DEF UartInterruptHandle, csr, tbl, Control, VectorControl, LifeInv, Quiet, Doing, BeforeUser, Serving

LEMMA Life_PlicCompleteAgain ==
  ASSUME TypeOK, Control, LifeInv, PlicCompleteAgain
  PROVE  LifeInv' /\ Quiet
  <1>1. pc.code = "PlicCompleteAgain" /\ pc'.code = "sret"
    BY GotoFact, Loc DEF PlicCompleteAgain, KernelCode
  <1> QED BY <1>1 DEF PlicCompleteAgain, csr, tbl, Control, VectorControl, LifeInv, Quiet, Doing, BeforeUser, Serving

LEMMA Life_kernelvec ==
  ASSUME TypeOK, Control, LifeInv, kernelvec
  PROVE  LifeInv' /\ Quiet
  <1>1. pc.code = "kernelvec"
    BY Loc DEF kernelvec, KernelCode
  <1>2. spp = "S" /\ scause = "external"
    BY <1>1 DEF Control, VectorControl, LifeInv
  <1>3. pc'.code = "KtrapInterruptHandle"
    BY <1>2, GotoFact DEF kernelvec, KernelCode
  <1> QED BY <1>1, <1>3 DEF kernelvec, csr, tbl, LifeInv, Quiet, Doing, BeforeUser, Serving

LEMMA Life_PlicComplete ==
  ASSUME TypeOK, Control, LifeInv, PlicComplete
  PROVE  LifeInv' /\ Quiet
  <1>1. pc.code = "PlicComplete"
    BY Loc DEF PlicComplete, KernelCode
  <1>2. CASE spp = "S"
    <2>1. pc'.code = "PlicCompleteAgain"
      BY <1>2, GotoFact DEF PlicComplete, KernelCode
    <2> QED BY <1>1, <2>1 DEF PlicComplete, csr, tbl, LifeInv, Quiet, Doing, BeforeUser, Serving
  <1>3. CASE spp # "S"
    <2>1. pc'.code = "ktrap_to_user"
      BY <1>3, GotoFact DEF PlicComplete, KernelCode
    <2> QED BY <1>1, <1>3, <2>1 DEF PlicComplete, csr, tbl, LifeInv, Quiet, Doing, BeforeUser, Serving
  <1> QED BY <1>2, <1>3

\* sret goes back to the interrupted kernel, or enters user code.
LEMMA Life_sret ==
  ASSUME TypeOK, Control, LifeInv, sret
  PROVE  LifeInv' /\ Quiet
  <1>1. pc.code = "sret" /\ pc' = sepc /\ UNCHANGED <<stvec, sepc, scause, live, current>>
    BY Loc DEF sret, KernelCode, tbl
  <1>2. CASE spp = "S"
    <2>1. sepc.code \in Interruptible
      BY <1>1, <1>2 DEF Control, PlaceControl, Serving
    <2> QED BY <1>1, <1>2, <2>1 DEF LifeInv, Quiet, Doing, BeforeUser, Serving, Interruptible
  <1>3. CASE spp = "U"
    <2>1. sepc.code = "user"
      BY <1>1, <1>3, Loc DEF Control, PlaceControl
    <2> QED BY <1>1, <1>3, <2>1 DEF LifeInv, Quiet, Doing, BeforeUser, Serving
  <1> QED BY <1>2, <1>3 DEF TypeOK

LEMMA Life_uservec ==
  ASSUME TypeOK, Control, LifeInv, uservec \/ uservec_fault
  PROVE  LifeInv' /\ Quiet
  <1>1. pc.code = "uservec" /\ stvec = "uservec" /\ live' = live /\ current' = current
    BY Loc DEF uservec, uservec_fault, KernelCode, Control, VectorControl, tbl
  <1>2. pc'.code \in {"ktrap_from_user_handler", "uservec"}
    BY <1>1, Loc, GotoFact DEF uservec, uservec_fault, TakeTrap, KernelCode
  <1> QED BY <1>1, <1>2 DEF LifeInv, Quiet, Doing, BeforeUser, Serving

\* The system calls and the interrupt of a process that goes on running.
LEMMA Life_Return ==
  ASSUME TypeOK, Control, LifeInv, HandleInterrupt \/ SysOther \/ SysExec
  PROVE  LifeInv' /\ Quiet
  <1>1. /\ pc.code = "ktrap_from_user_handler" /\ spp = "U" /\ spp' = spp
        /\ live' = live /\ current' = current
    BY Loc DEF HandleInterrupt, SysOther, SysExec, Syscall, EnterHandler, KernelCode
  <1>2. pc'.code \in {"KtrapInterruptHandle", "ktrap_to_user"}
    BY GotoFact DEF HandleInterrupt, SysOther, SysExec, KernelCode
  <1> QED BY <1>1, <1>2 DEF LifeInv, Quiet, Doing, BeforeUser, Serving

LEMMA Life_UserStep ==
  ASSUME TypeOK, Control, LifeInv, UserStep
  PROVE  LifeInv' /\ Quiet
  <1>1. pc.code = "user" /\ pc'.code = "user"
    BY Loc DEF UserStep, Control, PlaceControl
  <1> QED BY <1>1 DEF UserStep, csr, LifeInv, Quiet, Doing, BeforeUser, Serving

LEMMA Life_Exception ==
  ASSUME TypeOK, Control, LifeInv, Exception
  PROVE  LifeInv' /\ Quiet
  <1>1. pc.code = "user" /\ stvec = "uservec"
    BY Loc DEF Exception, Control, PlaceControl, VectorControl
  <1>2. pc'.code = "uservec"
    BY <1>1, Loc DEF Exception, TakeTrap, KernelCode
  <1> QED BY <1>1, <1>2 DEF Exception, LifeInv, Quiet, Doing, BeforeUser, Serving

\* An interrupt of user code, of the booting kernel (which it returns to), or of
\* the first way out to user mode.
LEMMA Life_Interrupt ==
  ASSUME TypeOK, Control, LifeInv, Interrupt
  PROVE  LifeInv' /\ Quiet
  <1>1. stvec \in {"kernelvec", "uservec"}
    BY Loc DEF Interrupt, Control, VectorControl, TypeOK, KernelCode
  <1>2. /\ pc'.code = stvec /\ spp' = priv /\ sepc' = pc /\ scause' = "external"
        /\ UNCHANGED <<stvec, live, current>>
    BY <1>1, Loc DEF Interrupt, TakeTrap, KernelCode, tbl
  <1>3. CASE priv = "U"
    <2>1. stvec = "uservec" /\ pc.code = "user"
      BY <1>3, Loc DEF Control, PlaceControl, VectorControl
    <2> QED BY <1>2, <2>1 DEF LifeInv, Quiet, Doing, BeforeUser, Serving
  <1>4. CASE priv = "S"
    <2>1. sie
      BY <1>4 DEF Interrupt
    <2>2. pc.code \in Interruptible \cup Leaving \cup {"sret"}
      BY <1>4, <2>1 DEF Interrupt, Control, SieControl, VectorControl
    <2>3. pc.code = "sret" => spp # "S"
      BY <2>1 DEF Control, PlaceControl, Serving
    <2>4. Doing = pc.code
      BY <2>2, <2>3 DEF Doing, Interruptible, Leaving, Serving
    <2>5. CASE stvec = "kernelvec"
      <3>1. Doing' = pc.code
        BY <1>2, <1>4, <2>5 DEF Doing, Serving
      <3> QED BY <1>2, <2>4, <2>5, <3>1 DEF LifeInv, Quiet
    <2>6. CASE stvec = "uservec"
      <3>1. Doing' = "uservec"
        BY <1>2, <2>6 DEF Doing, Serving
      <3>2. Doing \notin BeforeUser
        BY <2>6 DEF LifeInv
      <3> QED BY <1>2, <2>2, <2>4, <2>6, <3>1, <3>2 DEF LifeInv, Quiet, BeforeUser, Interruptible, Leaving
    <2> QED BY <1>1, <2>5, <2>6
  <1> QED BY <1>3, <1>4 DEF TypeOK

\* What only the devices do, and a machine that has stopped.
LEMMA Life_Device ==
  ASSUME TypeOK, Control, LifeInv, Receive \/ Raise \/ kpanic \/ UNCHANGED vars
  PROVE  LifeInv' /\ Quiet
  <1>1. UNCHANGED <<pc, stvec, sepc, scause, spp, live, current>>
    BY DEF Receive, Raise, kpanic, vars, csr, tbl
  <1> QED BY <1>1 DEF LifeInv, Quiet, Doing

LEMMA Life_kernel_main ==
  ASSUME TypeOK, Control, LifeInv, kernel_main
  PROVE  LifeInv' /\ Life!Create
  <1>1. pc.code = "kernel_main" /\ pc'.code = "kproc_scheduler"
    BY GotoFact, Loc DEF kernel_main, KernelCode
  <1>2. Doing = "kernel_main" /\ Doing' = "kproc_scheduler"
    BY <1>1 DEF Doing, Serving
  <1>3. stvec' = stvec /\ live' = {0} /\ current' = current
    BY DEF kernel_main, csr
  <1>4. LifeInv'
    BY <1>1, <1>2, <1>3 DEF LifeInv, BeforeUser
  <1> QED BY <1>2, <1>3, <1>4, CpuFacts, CpuFactsNext DEF Life!Create

LEMMA Life_kproc_scheduler ==
  ASSUME TypeOK, Control, LifeInv, kproc_scheduler
  PROVE  LifeInv' /\ (Quiet \/ \E i \in Slots : Life!Dispatch(i))
  <1>1. /\ pc.code = "kproc_scheduler" /\ stvec' = stvec /\ live' = live
        /\ spp' = spp /\ sepc' = sepc /\ scause' = scause
    BY Loc DEF kproc_scheduler, KernelCode, csr
  <1>2. Doing = "kproc_scheduler"
    BY <1>1 DEF Doing, Serving
  <1>3. CASE live = {}
    <2>1. current' = current /\ pc' = pc
      BY <1>3 DEF kproc_scheduler
    <2> QED BY <1>1, <2>1 DEF LifeInv, Quiet, Doing
  <1>4. CASE live # {}
    <2>1. PICK i \in live : current' = i /\ Goto(ra[i])
      BY <1>4 DEF kproc_scheduler
    <2>2. i \in Slots /\ ra[i] \in {"ktrap_to_user", "ksys_sleep"}
      BY DEF TypeOK
    <2>3. pc'.code \in {"ktrap_to_user", "ksys_sleep"}
      BY <2>1, <2>2, GotoFact DEF KernelCode
    <2>4. Doing' \in {"ktrap_to_user", "ksys_sleep"}
      BY <2>3 DEF Doing, Serving
    <2>5. LifeInv'
      BY <2>3, <2>4 DEF LifeInv, BeforeUser
    <2>6. LifeCpu = "kernel" /\ LifeCpu' = "user"
      BY <1>2, <2>4, CpuFacts, CpuFactsNext DEF BeforeUser
    <2>7. Life!Dispatch(i)
      BY <1>1, <2>1, <2>6 DEF Life!Dispatch
    <2> QED BY <2>2, <2>5, <2>7
  <1> QED BY <1>3, <1>4

\* Every system call comes from a process that runs.
LEMMA SyscallFacts ==
  ASSUME TypeOK, NEW call, Syscall(call)
  PROVE  /\ pc.code = "ktrap_from_user_handler" /\ LifeCpu = "user"
         /\ spp' = "U" /\ stvec' = "kernelvec"
  <1>1. pc.code = "ktrap_from_user_handler" /\ spp = "U" /\ spp' = "U" /\ stvec' = "kernelvec"
    BY Loc DEF Syscall, EnterHandler, KernelCode
  <1>2. Doing = "ktrap_from_user_handler"
    BY <1>1 DEF Doing, Serving
  <1> QED BY <1>1, <1>2, CpuFacts DEF BeforeUser

LEMMA Life_SysFork ==
  ASSUME TypeOK, Control, LifeInv, SysFork
  PROVE  LifeInv' /\ (Life!Halt \/ \E i \in Slots : Life!Fork(i))
  <1>1. LifeCpu = "user" /\ spp' = "U" /\ stvec' = "kernelvec" /\ current' = current
    BY SyscallFacts DEF SysFork
  <1>2. CASE live = Slots
    <2>1. pc'.code = "kpanic" /\ live' = live
      BY <1>2, GotoFact DEF SysFork, KernelCode
    <2>2. Doing' = "kpanic"
      BY <2>1 DEF Doing, Serving
    <2> QED BY <1>1, <2>1, <2>2, CpuFactsNext DEF LifeInv, Life!Halt, BeforeUser
  <1>3. CASE live # Slots
    <2>1. PICK i \in Slots \ live :
            /\ \A j \in Slots : j < i => j \in live
            /\ live' = live \cup {i}
      BY <1>3 DEF SysFork
    <2>2. pc'.code = "ktrap_to_user"
      <3>1. Goto("ktrap_to_user")
        BY <1>3 DEF SysFork
      <3> QED BY <3>1, GotoFact DEF KernelCode
    <2>3. Doing' = "ktrap_to_user"
      BY <2>2 DEF Doing, Serving
    <2>4. LifeCpu' = "user"
      BY <2>3, CpuFactsNext DEF BeforeUser
    <2>5. Life!Fork(i)
      BY <1>1, <2>1, <2>4 DEF Life!Fork, Life!Slots, Slots
    <2> QED BY <2>1, <2>2, <2>3, <2>5 DEF LifeInv, BeforeUser
  <1> QED BY <1>2, <1>3

LEMMA Life_SysKill ==
  ASSUME TypeOK, Control, LifeInv, SysKill
  PROVE  LifeInv' /\ (Quiet \/ \E i \in Slots : Life!Kill(i))
  <1>1. LifeCpu = "user" /\ current' = current /\ pc.code = "ktrap_from_user_handler"
    BY SyscallFacts DEF SysKill
  <1>2. pc'.code = "ktrap_to_user"
    BY GotoFact DEF SysKill, KernelCode
  <1>3. Doing = "ktrap_from_user_handler" /\ Doing' = "ktrap_to_user"
    BY <1>1, <1>2 DEF Doing, Serving
  <1>4. LifeCpu' = "user"
    BY <1>3, CpuFactsNext DEF BeforeUser
  <1>5. LifeInv'
    BY <1>2, <1>3 DEF LifeInv, BeforeUser
  <1>6. PICK victim \in {{}} \cup {{i} : i \in Slots \ {current}} : live' = live \ victim
    BY DEF SysKill
  <1>7. CASE live' = live
    BY <1>1, <1>3, <1>5, <1>7 DEF Quiet, BeforeUser
  <1>8. CASE live' # live
    <2>1. PICK i \in Slots \ {current} : victim = {i}
      BY <1>6, <1>8
    <2>2. i \in live
      BY <1>6, <1>8, <2>1
    <2>3. Life!Kill(i)
      BY <1>1, <1>4, <1>6, <2>1, <2>2 DEF Life!Kill
    <2> QED BY <1>5, <2>1, <2>3
  <1> QED BY <1>7, <1>8

LEMMA Life_SysExit ==
  ASSUME TypeOK, Control, LifeInv, SysExit
  PROVE  LifeInv' /\ Life!Exit
  <1>1. LifeCpu = "user" /\ stvec' = "kernelvec"
    BY SyscallFacts DEF SysExit
  <1>2. pc'.code = "kproc_scheduler"
    BY GotoFact DEF SysExit, KernelCode
  <1>3. Doing' = "kproc_scheduler"
    BY <1>2 DEF Doing, Serving
  <1>4. Life!Exit
    BY <1>1, <1>3, CpuFactsNext DEF SysExit, Life!Exit
  <1> QED BY <1>1, <1>2, <1>4 DEF LifeInv

LEMMA Life_SysSleep ==
  ASSUME TypeOK, Control, LifeInv, SysSleep
  PROVE  LifeInv' /\ Life!Yield
  <1>1. LifeCpu = "user" /\ stvec' = "kernelvec"
    BY SyscallFacts DEF SysSleep
  <1>2. pc'.code = "kproc_scheduler"
    BY GotoFact DEF SysSleep, KernelCode
  <1>3. Doing' = "kproc_scheduler"
    BY <1>2 DEF Doing, Serving
  <1>4. Life!Yield
    BY <1>1, <1>3, CpuFactsNext DEF SysSleep, Life!Yield
  <1> QED BY <1>1, <1>2, <1>4 DEF LifeInv

LEMMA Life_Panic ==
  ASSUME TypeOK, Control, LifeInv, FromKernel \/ UnhandledException
  PROVE  LifeInv' /\ Life!Halt
  <1>1. pc.code = "ktrap_from_user_handler" /\ live' = live /\ current' = current
    BY Loc DEF FromKernel, UnhandledException, Syscall, EnterHandler, KernelCode
  <1>2. pc'.code = "kpanic"
    BY GotoFact DEF FromKernel, UnhandledException, KernelCode
  <1>3. Doing = "ktrap_from_user_handler" /\ Doing' = "kpanic"
    BY <1>1, <1>2 DEF Doing, Serving
  <1>4. LifeCpu = "user" /\ LifeCpu' = "stopped"
    BY <1>3, CpuFacts, CpuFactsNext DEF BeforeUser
  <1> QED BY <1>1, <1>2, <1>3, <1>4 DEF LifeInv, BeforeUser, Life!Halt

LEMMA LifeStep ==
  TypeOK /\ Control /\ LifeInv /\ [Next]_vars => LifeInv' /\ [Life!LifeNext]_Life!lifeVars
  <1> SUFFICES ASSUME TypeOK, Control, LifeInv, [Next]_vars
               PROVE  LifeInv' /\ (Life!LifeNext \/ Quiet)
    BY QuietStutters
  <1> USE DEF Life!LifeNext
  <1>1. Life!Slots = Slots
    BY DEF Life!Slots, Slots
  <1>2. CASE \/ kernel_main \/ kproc_scheduler \/ SysFork \/ SysKill \/ SysExit \/ SysSleep
             \/ FromKernel \/ UnhandledException
    BY <1>1, <1>2, Life_kernel_main, Life_kproc_scheduler, Life_SysFork, Life_SysKill,
       Life_SysExit, Life_SysSleep, Life_Panic
  <1>3. CASE \/ ktrap_init \/ PlicInitHart \/ ksys_sleep \/ ktrap_to_user \/ set_sstatus
             \/ set_sepc \/ enter_user_process \/ sret \/ uservec \/ uservec_fault
             \/ HandleInterrupt \/ SysOther \/ SysExec \/ kernelvec
             \/ KtrapInterruptHandle \/ UartInterruptHandle
             \/ PlicComplete \/ PlicCompleteAgain \/ UserStep \/ Exception \/ Interrupt
             \/ Receive \/ Raise \/ kpanic \/ UNCHANGED vars
    BY <1>3, Life_ktrap_init, Life_PlicInitHart, Life_ksys_sleep, Life_ktrap_to_user,
       Life_set_sstatus, Life_set_sepc, Life_enter_user_process, Life_sret, Life_uservec,
       Life_Return, Life_kernelvec, Life_KtrapInterruptHandle, Life_UartInterruptHandle,
       Life_PlicComplete, Life_PlicCompleteAgain, Life_UserStep, Life_Exception,
       Life_Interrupt, Life_Device
  <1> QED BY <1>2, <1>3 DEF Next, KernelStep

\* Between any two of its instructions the hart may be in a trap, in another
\* process or in the scheduler, and the table of processes still only goes
\* through the steps of ProcLife: the atomic system calls that OpenFiles and
\* Session are built on are what the interruptible kernel implements.
THEOREM LifeRefinement == Spec => ImplementsLife
  <1>1. Init => Life!LifeInit /\ LifeInv
    <2> SUFFICES ASSUME Init PROVE Life!LifeInit /\ LifeInv
      OBVIOUS
    <2>1. pc.code = "ktrap_init"
      BY Loc DEF Init, KernelCode
    <2>2. Doing = "ktrap_init"
      BY <2>1 DEF Doing, Serving
    <2>3. LifeCpu = "boot" /\ live = {} /\ current = 0
      BY <2>2, CpuFacts DEF Init
    <2> QED BY <2>1, <2>2, <2>3 DEF LifeInv, BeforeUser, Life!LifeInit
  <1>2. IInv /\ LifeInv /\ [Next]_vars => LifeInv' /\ [Life!LifeNext]_Life!lifeVars
    BY LifeStep DEF IInv
  <1> QED BY <1>1, <1>2, Invariance, PTL DEF Spec, ImplementsLife, Life!LifeSpec
=============================================================================
