------------------------------- MODULE KProc -------------------------------
(***************************************************************************)
(* The process table of risky321 together with the physical page allocator *)
(* it lives on: kernel/kproc.c, kernel/kmem.c, the allocations of          *)
(* kernel/kvmem.c, and the part of kernel/ktrap.c that enters a process.   *)
(*                                                                         *)
(* The machine has one hart, no timer, and the kernel runs a system call   *)
(* with interrupts off, so a system call from the ecall to the sret is one *)
(* action.  What is left to interleave is which process runs (kproc_yield  *)
(* and kproc_scheduler) and the order in which processes make their calls. *)
(*                                                                         *)
(* Pages are numbered from the start of free RAM.  User virtual addresses  *)
(* are page numbers counted from VA_USER_BASE.  A two-level page table is  *)
(* kept as its root page, the set of user pages it maps and the set of     *)
(* pages spent on second-level tables and frames.                          *)
(***************************************************************************)
EXTENDS Integers, Sequences, FiniteSets

CONSTANTS
  NUM_PROCESSES,  \* slots of proc_array
  NumPages,       \* pages between __free_ram_begin and __free_ram_end
  KernelTables,   \* second-level tables that map 0 .. __free_ram_end
  DriverPages,    \* pages virtio_blk_init keeps (virtqueue and request)
  TableSize,      \* entries of a second-level table (1024 in the code)
  UserPages,      \* pages from VA_USER_BASE to the top of the address space
  Files,          \* names filesystem_get_filedata finds
  Shell,          \* the file kernel_main starts
  ElfPages        \* pages of the (single) program segment of a file

ASSUME SlotsAssumption  == NUM_PROCESSES \in Nat \ {0}
ASSUME MemoryAssumption ==
  /\ NumPages \in Nat /\ KernelTables \in Nat /\ DriverPages \in Nat
  /\ 1 + KernelTables + DriverPages < NumPages
ASSUME SpaceAssumption  ==
  /\ TableSize \in Nat \ {0}
  /\ UserPages \in Nat
  /\ NumPages + 2 <= UserPages   \* 64 MiB of RAM, 1 GiB of user addresses
ASSUME TopTableAssumption ==     \* trap frame and stack share a second-level table
  (UserPages - 1) \div TableSize = (UserPages - 2) \div TableSize
ASSUME FilesAssumption  ==
  /\ Shell \in Files
  /\ ElfPages \in [Files -> Nat]

VARIABLES
  proc,      \* proc_array
  free,      \* the free list of kmem.c, head first
  current,   \* current_user_process
  next,      \* the scheduler's loop index, where it resumes
  satp,      \* the page-table root the hart translates with
  mode,      \* what the hart is doing
  wiped      \* kmem_alloc has handed out (and cleared) the boot stack

vars == <<proc, free, current, next, satp, mode, wiped>>

Slots == 0 .. NUM_PROCESSES - 1
Page  == 0 .. NumPages - 1

(***************************************************************************)
(* entry.S adds 4096 to __kernel_stack, which kernel.ld has already placed *)
(* at the end of the stack page: the stack kernel_main and kproc_scheduler *)
(* run on is the first page of free RAM, which kmem_init puts on the list. *)
(***************************************************************************)
BootStack == 0

VA_TRAPFRAME  == UserPages - 1
VA_USER_STACK == UserPages - 2

\* Where swtch resumes a process: context.ra.
ResumePoints == {"ktrap_to_user", "ksys_sleep", "kproc_free"}

(***************************************************************************)
(* "user": current runs in user mode.  "sched": kproc_scheduler runs.  The *)
(* stopped modes are the endless loop of kpanic, named after the reason,   *)
(* and "wild": the scheduler was resumed on an overwritten stack.  It goes *)
(* on at the right instruction, as ra and sp are in scheduler_context, but *)
(* its loop index is on that stack and may have any value; the model does  *)
(* not follow it.                                                          *)
(***************************************************************************)
Stopped == {"oom", "nopcb", "fault", "returned", "wild"}
Modes   == {"boot", "sched", "user"} \cup Stopped

Proc ==
  [state : {"UNUSED", "RUNNABLE"}, pagetable : Page, trapframe : Page,
   user_stack : Page, pages : SUBSET Page, mapped : SUBSET Nat,
   free_heap_page : Nat, ra : ResumePoints, image : {"none", "create", "fork", "exec"}]

----------------------------------------------------------------------------
(***************************************************************************)
(* The allocator: kmem_alloc pops the head, kmem_free pushes.              *)
(***************************************************************************)
CanAlloc(m)   == m <= Len(free)
Alloced(m)    == {free[k] : k \in 1 .. m}
kmem_alloc(m) ==
  /\ free' = SubSeq(free, m + 1, Len(free))
  /\ wiped' = (wiped \/ BootStack \in Alloced(m))

\* The second-level tables kvmem_map_page needs for a set of user pages.
Tables(vas) == {va \div TableSize : va \in vas}

\* The user pages of a program of n pages: image, stack and trap frame.
Image(n) == (0 .. n - 1) \cup {VA_USER_STACK, VA_TRAPFRAME}

\* What kproc_create and kproc_exec allocate for a program of n pages.
LoadPages(n) == 2 + KernelTables + n + Cardinality(Tables(Image(n))) + 1

\* What kvmem_copy_pagetable and the trap frame of a fork of p allocate.
ForkPages(p) ==
  1 + KernelTables + Cardinality(Tables(p.mapped))
    + Cardinality(p.mapped \ {VA_TRAPFRAME}) + 1

\* The fresh address space of a loaded program: root and trap frame are the
\* first two pages taken, the stack is the last.
Loaded(p, n, how) ==
  LET m == LoadPages(n) IN
  [p EXCEPT !.state = "RUNNABLE",
            !.pagetable = free[1], !.trapframe = free[2], !.user_stack = free[m],
            !.pages = {free[k] : k \in 3 .. m - 1},
            !.mapped = Image(n), !.ra = "ktrap_to_user", !.image = how]

\* Mutant: the child's context is not set up (context.ra is left as it was).
Mutant_Forked_KeepsContext(q, p) ==
  LET m == ForkPages(p) IN
  [q EXCEPT !.state = "RUNNABLE",
            !.pagetable = free[1], !.user_stack = free[m - 1], !.trapframe = free[m],
            !.pages = {free[k] : k \in 2 .. m - 2},
            !.mapped = p.mapped, !.image = "fork"]

\* The copy a fork makes of p in slot q: the root comes first, the stack is the
\* last frame copied, the trap frame is allocated after the copy.
Forked(q, p) ==
  LET m == ForkPages(p) IN
  [q EXCEPT !.state = "RUNNABLE",
            !.pagetable = free[1], !.user_stack = free[m - 1], !.trapframe = free[m],
            !.pages = {free[k] : k \in 2 .. m - 2},
            !.mapped = p.mapped, !.ra = "ktrap_to_user", !.image = "fork"]

\* Mutant: the search loop has no break on the first hit.
Mutant_FirstUnused_Any(i) == proc[i].state = "UNUSED"

\* The slots before i are all taken: the search loop stops at i.
FirstUnused(i) ==
  /\ proc[i].state = "UNUSED"
  /\ \A j \in Slots : j < i => proc[j].state # "UNUSED"

\* The hart stops in kpanic (or is lost); the rest of the state is out of use.
Stop(why) ==
  /\ mode' = why
  /\ UNCHANGED <<proc, free, current, next, satp, wiped>>

\* swtch to scheduler_context, whose stack is the boot stack.
SchedulerMode(overwritten) == IF overwritten THEN "wild" ELSE "sched"

----------------------------------------------------------------------------
(***************************************************************************)
(* Boot: kmem_init leaves the highest page at the head; the kernel's page  *)
(* table and the virtio driver take the first pages; kproc_init.           *)
(***************************************************************************)
BootPages == 1 + KernelTables + DriverPages

kmem_init == [k \in 1 .. NumPages - BootPages |-> NumPages - BootPages - k]

kproc_init ==
  [i \in Slots |->
     [state |-> "UNUSED", pagetable |-> 0, trapframe |-> 0, user_stack |-> 0,
      pages |-> {}, mapped |-> {}, free_heap_page |-> 0,
      ra |-> "ktrap_to_user", image |-> "none"]]

Init ==
  /\ proc = kproc_init
  /\ free = kmem_init
  /\ current = 0
  /\ next = 0
  /\ satp = NumPages - 1
  /\ mode = "boot"
  /\ wiped = FALSE

\* kernel_main starts the shell and becomes the scheduler.
kproc_create ==
  LET n == ElfPages[Shell] IN
  /\ mode = "boot"
  /\ \E i \in Slots :
       /\ FirstUnused(i)
       /\ CanAlloc(LoadPages(n))
       /\ kmem_alloc(LoadPages(n))
       /\ proc' = [proc EXCEPT ![i] = Loaded(@, n, "create")]
  /\ mode' = SchedulerMode(wiped')
  /\ UNCHANGED <<current, next, satp>>

\* ktrap_to_user and enter_user_process: the root is loaded on every way out.
ktrap_to_user(i) ==
  /\ satp' = proc[i].pagetable
  /\ mode' = "user"

\* Mutant: the outer loop is missing, the index runs off the table.
Mutant_kproc_scheduler_NoWrap ==
  /\ mode = "sched"
  /\ next' = next + 1
  /\ IF proc[next].state = "RUNNABLE"
     THEN current' = next /\ ktrap_to_user(next)
     ELSE UNCHANGED <<current, mode, satp>>
  /\ UNCHANGED <<proc, free, wiped>>

\* Mutant: a process resumed inside ksys_sleep returns to user mode without
\* going through ktrap_to_user.
Mutant_kproc_scheduler_KeepsRoot ==
  /\ mode = "sched"
  /\ next' = (next + 1) % NUM_PROCESSES
  /\ IF proc[next].state = "RUNNABLE"
     THEN /\ current' = next
          /\ mode' = "user"
          /\ satp' = IF proc[next].ra = "ksys_sleep" THEN satp ELSE proc[next].pagetable
     ELSE UNCHANGED <<current, mode, satp>>
  /\ UNCHANGED <<proc, free, wiped>>

\* Mutant: every yield starts the scan from the first slot again.
Mutant_kproc_scheduler_Restarts ==
  /\ mode = "sched"
  /\ next' = IF proc[next].state = "RUNNABLE" THEN 0 ELSE (next + 1) % NUM_PROCESSES
  /\ IF proc[next].state = "RUNNABLE"
     THEN current' = next /\ ktrap_to_user(next)
     ELSE UNCHANGED <<current, mode, satp>>
  /\ UNCHANGED <<proc, free, wiped>>

\* One iteration of the scheduler's loop.  Resuming a process runs on to
\* ktrap_to_user, which loads its root and leaves to user mode; a process
\* resumed inside kproc_free would hit the kpanic that follows kproc_yield.
kproc_scheduler ==
  /\ mode = "sched"
  /\ next' = (next + 1) % NUM_PROCESSES
  /\ IF proc[next].state = "RUNNABLE"
     THEN /\ current' = next
          /\ IF proc[next].ra = "kproc_free"
             THEN mode' = "returned" /\ UNCHANGED satp
             ELSE ktrap_to_user(next)
     ELSE UNCHANGED <<current, mode, satp>>
  /\ UNCHANGED <<proc, free, wiped>>

----------------------------------------------------------------------------
(***************************************************************************)
(* The system calls of the running process.                                *)
(***************************************************************************)
\* fork: a free slot, a copied address space; slot state that fork does not
\* write (free_heap_page) keeps the value of the slot's last owner.
kproc_fork ==
  LET p == proc[current] IN
  /\ mode = "user"
  /\ \E i \in Slots :
       /\ FirstUnused(i)
       /\ CanAlloc(ForkPages(p))
       /\ kmem_alloc(ForkPages(p))
       /\ proc' = [proc EXCEPT ![i] = Forked(@, p)]
  /\ UNCHANGED <<current, next, satp, mode>>

\* Mutant: exec forgets to move the heap above the new program.
Mutant_kproc_exec_HeapStays(n) ==
  /\ mode = "user"
  /\ CanAlloc(LoadPages(n))
  /\ kmem_alloc(LoadPages(n))
  /\ proc' = [proc EXCEPT ![current] = Loaded(proc[current], n, "exec")]
  /\ satp' = free[1]
  /\ UNCHANGED <<current, next, mode>>

\* exec of a program of n pages.  The old address space is dropped, not freed,
\* and free_heap_page grows from whatever value it had.
kproc_exec(n) ==
  LET p == proc[current] IN
  /\ mode = "user"
  /\ CanAlloc(LoadPages(n))
  /\ kmem_alloc(LoadPages(n))
  /\ proc' = [proc EXCEPT ![current] =
       [Loaded(p, n, "exec") EXCEPT !.free_heap_page = p.free_heap_page + n]]
  /\ satp' = free[1]
  /\ UNCHANGED <<current, next, mode>>

\* sbrk: one more page, and a table for it if none covers its address.
HeapPages(p) ==
  IF p.free_heap_page \div TableSize \in Tables(p.mapped) THEN 1 ELSE 2

kproc_add_page ==
  LET p == proc[current] IN
  /\ mode = "user"
  /\ CanAlloc(HeapPages(p))
  /\ kmem_alloc(HeapPages(p))
  /\ proc' = [proc EXCEPT ![current] =
       [p EXCEPT !.pages = p.pages \cup Alloced(HeapPages(p)),
                 !.mapped = p.mapped \cup {p.free_heap_page},
                 !.free_heap_page = p.free_heap_page + 1]]
  /\ UNCHANGED <<current, next, satp, mode>>

\* Mutant: exit and kill give back the whole image, as they should, but still
\* leave free_heap_page where it was.
Mutant_Released_WholeImage(p) ==
  <<p.user_stack, p.pagetable, p.trapframe>> \o
  [k \in 1 .. Cardinality(p.pages) |->
     CHOOSE g \in p.pages : Cardinality({h \in p.pages : h < g}) = k - 1]

\* The three pages exit and kill give back, in the order the list has them
\* after the calls to kmem_free.
Released(p) == <<p.user_stack, p.pagetable, p.trapframe>>

\* exit, and kill of one's own pid: the hart keeps translating with the root
\* that was just freed until the next process is entered.
kproc_free ==
  /\ mode = "user"
  /\ free' = Released(proc[current]) \o free
  /\ proc' = [proc EXCEPT ![current].state = "UNUSED", ![current].ra = "kproc_free"]
  /\ mode' = SchedulerMode(wiped)
  /\ UNCHANGED <<current, next, satp, wiped>>

\* Mutant: the victim's pages are freed and its state is not reset.
Mutant_kproc_kill_StaysRunnable(i) ==
  /\ mode = "user"
  /\ i # current
  /\ proc[i].state # "UNUSED"
  /\ free' = Released(proc[i]) \o free
  /\ UNCHANGED <<proc, current, next, satp, mode, wiped>>

\* kill of another process; the pid of slot i is i + 1.
kproc_kill(i) ==
  /\ mode = "user"
  /\ i # current
  /\ proc[i].state # "UNUSED"
  /\ free' = Released(proc[i]) \o free
  /\ proc' = [proc EXCEPT ![i].state = "UNUSED"]
  /\ UNCHANGED <<current, next, satp, mode, wiped>>

\* sleep only yields; the process is resumed inside ksys_sleep.
ksys_sleep ==
  /\ mode = "user"
  /\ proc' = [proc EXCEPT ![current].ra = "ksys_sleep"]
  /\ mode' = SchedulerMode(wiped)
  /\ UNCHANGED <<free, current, next, satp, wiped>>

----------------------------------------------------------------------------
(***************************************************************************)
(* The ways to stop.  A failed allocation stops the machine wherever in    *)
(* the call it happens, so the pages the call had already taken are out of *)
(* use and the state is left alone.                                        *)
(***************************************************************************)
OutOfMemory ==
  /\ \/ /\ mode = "boot"
        /\ ~CanAlloc(LoadPages(ElfPages[Shell]))
     \/ /\ mode = "user"
        /\ \/ /\ \E i \in Slots : FirstUnused(i)
              /\ ~CanAlloc(ForkPages(proc[current]))
           \/ \E f \in Files : ~CanAlloc(LoadPages(ElfPages[f]))
           \/ ~CanAlloc(HeapPages(proc[current]))
  /\ Stop("oom")

NoFreePCB ==
  /\ mode = "user"
  /\ \A i \in Slots : proc[i].state # "UNUSED"
  /\ Stop("nopcb")

\* Any other exception of a user program ends in kpanic.
UserFault == mode = "user" /\ Stop("fault")

\* kpanic loops forever.
kpanic == mode \in Stopped /\ UNCHANGED vars

Next ==
  \/ kproc_create
  \/ kproc_scheduler
  \/ kproc_fork
  \/ \E f \in Files : kproc_exec(ElfPages[f])
  \/ kproc_add_page
  \/ kproc_free
  \/ \E i \in Slots : kproc_kill(i)
  \/ ksys_sleep
  \/ OutOfMemory
  \/ NoFreePCB
  \/ UserFault
  \/ kpanic

\* The scheduler's loop is kernel code that nothing preempts; a user process
\* may run forever or never come back, so its calls have no fairness.
Spec == Init /\ [][Next]_vars /\ WF_vars(kproc_scheduler)

----------------------------------------------------------------------------
(***************************************************************************)
(* Properties                                                              *)
(***************************************************************************)
Live == {i \in Slots : proc[i].state = "RUNNABLE"}

Roots(p) == {p.pagetable, p.trapframe, p.user_stack}

\* The pages the current image of a process was given.
Owned(p) == Roots(p) \cup p.pages

FreePages == {free[k] : k \in 1 .. Len(free)}

\* Every variable keeps its type; in particular the scheduler's index stays
\* inside proc_array.
TypeOK ==
  /\ proc \in [Slots -> Proc]
  /\ free \in Seq(Page)
  /\ current \in Slots
  /\ next \in Slots
  /\ satp \in Page
  /\ mode \in Modes
  /\ wiped \in BOOLEAN

(***************************************************************************)
(* No physical page has two owners, whatever sequence of create, fork,     *)
(* exec, sbrk, exit and kill led here: the free list holds no page twice   *)
(* (no double kmem_free), no live process holds a free page, two live      *)
(* processes share none, and the three pages exit gives back are distinct. *)
(***************************************************************************)
FreeListDistinct ==
  \A k, l \in 1 .. Len(free) : free[k] = free[l] => k = l
LivePagesNotFree ==
  \A i \in Live : Owned(proc[i]) \cap FreePages = {}
LivePagesDisjoint ==
  \A i, j \in Live : i # j => Owned(proc[i]) \cap Owned(proc[j]) = {}
RootsDistinct ==
  \A i \in Live :
    /\ proc[i].pagetable # proc[i].trapframe
    /\ proc[i].pagetable # proc[i].user_stack
    /\ proc[i].trapframe # proc[i].user_stack
    /\ Roots(proc[i]) \cap proc[i].pages = {}

PageOwnership ==
  /\ FreeListDistinct
  /\ LivePagesNotFree
  /\ LivePagesDisjoint
  /\ RootsDistinct

\* A process runs in user mode only while it is live and on its own page
\* table: a slot freed by exit or kill is never re-entered (ktrap_to_user
\* loads satp on every way out of the kernel, ksys_sleep's return included).
RunsOnOwnRoot ==
  mode = "user" =>
    /\ proc[current].state = "RUNNABLE"
    /\ satp = proc[current].pagetable

\* kproc_free puts the page-table root the hart is still using on the free
\* list; no later step may hand that page out while it is still in satp.
LoadedRootNotRecycled ==
  [][(satp \in FreePages) => (satp \in FreePages')]_vars

\* The kpanic after kproc_yield in kproc_free is unreachable: a freed slot is
\* resumed only after a fork has given it a new context.
NeverReturnsAfterFree == mode # "returned"

\* free_heap_page survives exit, fork and exec and is only ever advanced, but
\* every step of it is paid for with a page that is never given back: the sum
\* below never exceeds the memory left after boot, so the heap of a slot cannot
\* creep up to the stack however often the slot is reused.
HeapBudget ==
  \A i \in Slots :
    proc[i].free_heap_page + Len(free) + 3 * Cardinality(Live) + BootPages <= NumPages

\* After an exec, sbrk hands out pages above everything the program has mapped.
ExecHeapFresh ==
  \A i \in Live : proc[i].image = "exec" =>
    proc[i].mapped \subseteq (0 .. proc[i].free_heap_page - 1) \cup {VA_USER_STACK, VA_TRAPFRAME}

\* As long as running processes keep giving up the hart, a runnable process
\* gets it, is killed, or the machine has stopped: kproc_scheduler goes on
\* from the slot after the one that yielded.
NoStarvation ==
  []<>(mode = "sched") =>
    \A i \in Slots :
      proc[i].state = "RUNNABLE" ~> \/ mode = "user" /\ current = i
                                    \/ proc[i].state = "UNUSED"

(***************************************************************************)
(* The table of processes implements the abstract life cycle of ProcLife.  *)
(* A scheduler resumed on an overwritten stack ("wild") is mapped to one   *)
(* that dispatches nobody: what it does with a lost index is not claimed.  *)
(***************************************************************************)
CpuOf(m) ==
  CASE m \in {"sched", "wild"} -> "kernel"
    [] m \in {"boot", "user"}  -> m
    [] OTHER                   -> "stopped"

Life == INSTANCE ProcLife WITH live <- Live, cpu <- CpuOf(mode)

\* Every step of the kernel on its process table is a step of the life cycle:
\* in particular no slot is entered that exit or kill has emptied, and fork
\* fills the first empty slot and no other.
ImplementsLife == Life!LifeSpec

\* user/umalloc.c relies on it: "sbrk always allocates new full page", at an
\* address nothing is mapped at.  (kproc_create and kproc_fork leave
\* free_heap_page at addresses the program occupies.)
SbrkMapsNewPage ==
  [][\A i \in Slots :
       (proc[i].pagetable = proc'[i].pagetable /\ proc[i].free_heap_page # proc'[i].free_heap_page)
         => proc[i].free_heap_page \notin proc[i].mapped]_vars

\* kernel/kernel.ld sets a page aside for the stack of kernel_main and the
\* scheduler; that page is not memory kmem_alloc may hand out.
BootStackReserved == ~wiped

=============================================================================
