# A TLA+ verification of risky321

risky321 is a small operating system for one 32-bit RISC-V hart (QEMU `virt`):
a kernel in C and assembly (`kernel/`), and a shell, a few programs and a C
library (`user/`). This directory holds TLA+ models of its core, the TLC
configurations that check them, and TLAPS proofs about them.

## The system and what makes it hard

| Part | State | Operations | Correct when |
|---|---|---|---|
| process table, scheduler (`kproc.c`, `swtch.S`, `kernel.c`) | `proc_array`, `current_user_process`, the scheduler's loop index and context | create, fork, exec, exit, kill, sleep (yield), sbrk, scheduler scan | a live process runs on its own page table and resume point; a freed slot is never entered; nobody starves |
| page allocator (`kmem.c`, `kernel.ld`, `entry.S`) | the free list | alloc, free | no page has two owners, also not the kernel itself |
| virtual memory (`kvmem.c`) | two-level tables | map, copy | a mapping added later does not replace a mapping in use |
| traps (`ktrap.c`, `uservec.S`, `kernelvec.S`, `start.c`, `ksyscall.c`) | `sstatus`, `stvec`, `sepc`, `satp`, trap frames | enter and leave the kernel, dispatch system calls | the kernel is not re-entered; a process resumes where it was |
| PLIC and UART (`plic.c`, `uart.c`) | one interrupt source | claim, complete, receive, send | every claim is completed; received characters are taken |
| terminal (`tty.c`) | ring with `r`, `w`, `insert`, `isEmpty`, `isFull` | insert (with backspace), read, write | a queue of lines: nothing lost, repeated or reordered |
| open files (`filesystem.c`, `kproc_file_*`) | `os_files`, `opened_files` of each slot | open, read, close | descriptors do not alias; positions stay inside files |
| disk (`virtio.c`) | status register, virtqueue and its counters, the request | initialise, send, wait | the device is started first; a request is complete before its data is used; the queue's pages are its own |
| file system loading (`filesystem_init`) | `filesystem_files`, the sector reached | read headers and data at boot | the files in memory are those of the archive; nothing is written outside an entry |
| user heap (`umalloc.c`) | list of chunks, `head` | malloc, free, morecore | blocks do not overlap; headers survive |
| shell and programs (`shell.c`, `echo.c`, `cat.c`, `ulibc.c`) | line, words of the command | read, parse, fork, exec, sleep, exit | a command is the words of one line; commands run, and end before the next prompt |
| libraries, printf, ELF dump | – | – | – |

The parts meet at three places. Boot calls them in a fixed order (memory, traps,
PLIC, process table, disk, files, first process). After that every program
reaches the kernel through system calls only, and the kernel reaches programs
through the scheduler. Devices act on their own: the disk answers during boot,
the UART interrupts.

There is one hart and no timer, so processes are switched only when one calls
sleep, exits or is killed by itself. The UART interrupts at any time in user
mode, and during boot in the kernel too. No lock is taken anywhere. What can go
wrong is therefore the *sequence* of calls (slots, pages, descriptors and heap
positions survive the process that used them), the *window* in which the
kernel is interruptible, tables at their limits, and whatever rests on the order
in which the scheduler goes through the slots or `kmem_init` leaves the pages.
`PROJECT.json` lists these
hazards at the lines where they bite.

## Modules

| Module | Models | Uses |
|---|---|---|
| `ProcLife` | abstract life cycle of processes: which slots are live, who is current, whether user or kernel code runs | |
| `KProc` | process table, scheduler, page allocator, address spaces by page counts | refines `ProcLife` |
| `Trap` | the hart's trap state, both trap vectors, system calls by their effect on trap frames, PLIC and UART receive | refines `ProcLife` |
| `OpenFiles` | `os_files`, `opened_files`, open, read, close while processes come and go | extends `ProcLife`, refines `Descriptors` |
| `Descriptors` | abstract: a private descriptor table per process slot | extends `ProcLife` |
| `Tty` | the terminal's ring | refines `TtyQueue` |
| `TtyQueue` | abstract: a bounded queue of lines with one editable line | |
| `Disk` | the disk driver, the device's answers, and the loading of the archive | |
| `Session` | the machine from boot on: kernel_main, scheduler, shells and echo | extends `Disk` and `ProcLife` |
| `UMalloc` | the user heap: chunks, headers, splitting and merging | refines `Heap` |
| `Heap` | abstract: blocks that do not overlap | |
| `MC*` | instances for TLC | |
| `KProcProofs`, `OpenFilesProofs`, `TrapProofs`, `TtyProofs`, `DiskProofs`, `SessionProofs`, `UMallocProofs` | theorems | |
| `FoldLemmas` | lemmas: induction on numbers, and what a fold over a sequence computes | |

The modules share an argument about granularity. `KProc`, `OpenFiles` and `Tty`
take a whole system call as one action. That is right because the kernel runs
with `sstatus.SIE` clear whenever a process has trapped into it, which is what
`Trap` shows at the granularity of single steps (`KernelNotInterrupted`,
proved). `OpenFiles` and `Session` are built on `ProcLife` instead of `KProc`:
whatever holds under every life cycle of `ProcLife` holds under the real one,
since `KProc` implements it (also proved). `Session` adds the one thing
`ProcLife` leaves open and its properties need, the order of the scheduler's
scan, translated from the same lines as in `KProc`.

### KProc

`proc` is `proc_array` with the fields the properties depend on; `free` the
list of `kmem.c`, head first; `next` the local `i` of `kproc_scheduler`, which
lives on the boot stack; `satp` the root loaded. A page table is its
root page, the set of user pages it maps (`mapped`) and the set of pages spent
on it (`pages`); the counts `LoadPages`, `ForkPages`, `HeapPages` are the number
of `kmem_alloc` calls in the code, and `Loaded` and `Forked` take root, trap
frame and stack at the position in that order of calls where the code does.
`ra` is where `swtch` resumes a process: on the way to user mode, in
`ksys_sleep`, or in `kproc_free` (followed by a panic). A failed allocation ends
in `kpanic`, so the partial effects of the call are not kept. exec of a missing
file changes nothing here. kill of one's own pid is `kproc_free`.

`kernel.ld` and `entry.S` together put the boot stack on the first page of free
RAM. Handing it out clears it (`wiped`). The next `swtch` to the scheduler still
resumes at the right instruction, since `ra` and `sp` are in `scheduler_context`,
but the locals of `kproc_scheduler`, its index among them (the build is `-O0`),
are whatever the page's new owner has put there. The model goes no further: it
shows this as the stopped mode `wild`, and nothing is claimed of what follows.

### Trap

`pc` is the kernel function about to run, or a place in user code; one action is
one step between points where an interrupt could be taken. The hart's own rules
(`TakeTrap`, `sret`, `Interrupt`) and the devices (`Receive`, `Raise`) are
external and written from how the code uses them. User code may do anything.
The history variable `at` records what each program should see next: set by user
steps and by the result of a system call; `entered` records that a process has
run. The order of processes is left open (`KProc` has it). Boot starts at
`ktrap_init`, with SIE set, as `start_setup` leaves it. read, write, open,
close, sbrk, getpid and a failing exec differ in no register or CSR the model
tells apart and are `SysOther`.

### OpenFiles, Tty

A handle is an index where the code has a pointer. File contents do not change
after boot, so a read is its effect on the position. open of an unknown name or
with `os_files` full, and close of a closed descriptor, return -1 and change
nothing. In `Tty` characters are letters, newline, carriage return and
backspace; what `TtyRead` copies is kept in `dest`. A key refused by a full
buffer changes nothing.

### Disk

`boot` and `stage` are where `filesystem_init` and `virtio_rw` are; `queue` holds
the two shared counters and the driver's own, modulo `IndexModulus` (2^16 in the
code). The device (`Serve`) is external: it answers at any time after
`QUEUE_NOTIFY`, also before `virtq_kick` has counted the request, and may fail
it, which leaves the data of the request as it was. A sector is its number and
what it says when it is read as a tar header; file data may look like a header
of a small file or of one that is too big, because after a failed header read
the loader takes data for headers. `filesystem_files` holds the entries that
exist, and an entry's `data` the numbers of the sectors copied into it.
A size is `SizeDigits` octal digits, which tar writes (`Octal`, external) and
`oct2int` reads.
`VIRTIO_STATUS_DIRVER_OK` and `VIRTIO_STATUS_FEATURES_OK` are the values 3 and 4
of `virtio.h` as sets of bits; the device waits for bit 2.

### Session

`prog` gives each slot its program and the place in it; the system calls of the
shell are steps. `Program` decides what a file in memory is: the shell or echo
if name, size and all sectors are, and otherwise `junk`, which may run for ever
or fault (an unhandled exception stops the machine). `parse_buf` is the C loop as
a fold over the line, and `ParseSound` compares it with a definition of words
(`WordsOf`: the longest runs without a space before the first NUL).
`kernel_main` starts the third entry without looking at it. The keyboard gives
any character at any time the shell reads; the ring in between is `Tty`'s
subject. kill, open and sbrk are not called by these programs.

### UMalloc

`mem` maps addresses to the headers that are intact: the program may write every
byte of a block it holds, so handing out a block removes the headers inside it.
`umalloc` searches the chain and asks for one page per step (`umorecore`), as the
code's loop does, and `ufree` merges with the next and then the previous chunk.
Pages follow one another, as `kproc_add_page` maps them in a process that has
exec'ed. The constant `Frees` says which blocks the program frees: its newest
one (`lifo`) or any.

## Runs

| Run | States | Shows |
|---|---|---|
| `mc_kproc` | about 590 000 | ownership of pages, page-table roots, resume points, heap budget, no starvation, refinement of `ProcLife` |
| `kproc_sbrk` | violation | sbrk maps over the running program |
| `kproc_stack` | violation | the scheduler's stack is handed out |
| `mc_openfiles` | 53 106 | no aliasing, positions in files, refinement of `Descriptors` |
| `openfiles_leak` | violation | entries in use that no live process has open |
| `mc_tty` | 7 420 | index arithmetic, lines, refinement of `TtyQueue`, finished lines get read |
| `tty_jam` | violation | a filled terminal is dead |
| `mc_trap` | 107 182 | atomicity, resumption, vectors, PLIC, characters taken, refinement of `ProcLife` |
| `trap_first` | violation | the interrupt on the first way to user mode |
| `mc_session` | 81 877 | driver and device, the loaded archive, lines, words, prompts, boot to the prompt, commands run |
| `mc_umalloc` | 49 854 | with the newest block freed first: headers, the end of the chain, refinement of `Heap` |
| `umalloc_overlap` | violation | with blocks freed in any order, two blocks overlap |

**Bounds.** `mc_kproc`: three slots (fork, fork of a fork, kill and reuse in
every order, and a third process to starve), thirty pages with second-level
tables of two entries, a shell of two pages and a program of one. The shell
takes eight pages and so does its fork, so a few calls reach the last page, the boot
stack and the out-of-memory panic; memory never grows back to what it was, which
makes the state space finite with no further bound. `UserPages` only has to
exceed `NumPages + 2`, as 1 GiB of addresses exceeds 64 MiB of RAM.
`mc_openfiles`: two slots, two descriptors each, three entries, so the process's
table and the system's table each fill up first in some behaviour; files of two
bytes and of none, reads of 0, 1 and 3. A read of a closed descriptor stops the
machine and nothing follows, hence no deadlock check. `mc_tty`: a ring of four,
which has every relative placement of three indices, lines that wrap and lines
that fill it exactly; reads of 0, 1, 2 and 5. `mc_trap`: two processes of two
instructions and two register values are enough to tell a skipped instruction
or another process's registers from the right ones; one character in the UART.
`mc_session`: sectors of four bytes, four entries and files of up to three
sectors, so that one archive has files that end inside, at the end of and behind
a sector, the largest that fits and one entry too many, another has a file
that is too big, and a third is short enough to be read to its end; a disk may lack its last three sectors; one failed request;
counters modulo four, which wrap several times. Four slots hold two shells with
a command each, lines of up to five characters hold three words with a limit of
two. One letter is enough: words and file names differ in length. `mc_umalloc`:
pages of twelve bytes, headers of two, four pages and three blocks; a request
that splits a page twice and one that needs two pages.

**Fairness.** `KProc`: weak fairness of the scheduler's loop, which is kernel
code nothing interrupts; none of any user program, so `NoStarvation` is
conditional on the hart coming back to the scheduler. `Tty`: weak fairness of
one-character reads, which is what the shell does in a loop. `Trap`: weak
fairness of kernel code; strong fairness of taking an interrupt, because the
line stays up while user code runs, and every return to user mode enables it;
weak fairness of the UART raising its line while it holds characters. With it,
`CharacterTaken` excludes exactly the three ways the machine can be dead.
`Disk` and `Session`: weak fairness of boot code, of the scheduler and of what
the shell and echo do besides reading, all of which is code that runs on; and of
the device answering, without which a driver that waits without a bound cannot
finish. Nothing is assumed of the keyboard or of a file that is no program, so
`CommandRuns` is conditional on the hart coming back to the scheduler: a shell
that waits for its line keeps the hart, and others' commands wait with it.
`BootsToPrompt` leaves out, besides a missing disk and failed requests, which it
names, the interrupt of finding (5) below: `Session` has no interrupts, and `Trap`
has the window in which one stops the machine before the shell has run.

**Disagreements found.** Each violation run states what a comment, an assertion
or the linker script says and shows how the code departs from it; `findings` in
`PROJECT.json` quotes the lines. In short: (1) `kproc_create` and `kproc_fork`
do not set `free_heap_page`, so sbrk in a process that has not exec'ed maps over
its own code; (2) `entry.S` adds a page to a stack pointer that already is the
top of the stack; (3) exit, kill and a failing open leave entries of `os_files`
in use; (4) `TtyRead` marks a full ring empty when it took nothing; (5) SIE is
still set when the first process is entered; (6) splitting a chunk of the user
heap does not move the tail pointer, so the next page is linked behind a stale
chunk, and if that has been freed, the merged chunk covers blocks in use. Under
`lifo` frees (6) only loses memory: the chunk is in use, really the last, or (`Stale`
below) one that the chain has lost. In that last case every further page is merged
into a chunk no search reaches, and `umalloc` asks for pages until there are none.

## Proofs

Everything below holds for all values of the constants that satisfy the named
assumptions of the modules: at least one slot; memory that outlasts boot; user
addresses that exceed memory; trap frame and stack under one second-level table;
a shell among the files; a file index that is no file; a file size limit that is
a whole number of sectors; three pages left for the driver; counters that have at
least two values; an archive whose files have names, and sizes that fit their
digits; a ring of at least one character.

*`KProcProofs`.* `IInv` strengthens `PageOwnership`, `RunsOnOwnRoot` and
`NeverReturnsAfterFree` with what they need to be inductive: the mapped sets are
finite (`FiniteMaps`, for the page counts), every live process maps its stack
(`StackMapped`, so that a fork's last copied frame is the stack and the three
released pages are distinct), no live process would resume in `kproc_free`
(`LiveResumable`), and boot has no process (`BootEmpty`). Popping the list
(`TakeFacts`) and pushing three pages (`GiveFacts`) are lemmas on sequences; all
of create, fork and exec go through `NewImageOwnership`, and exit and kill through
`ReleaseOwnership`. `RootNotRecycled` is the action property about a freed root
still in `satp`. `HeapIsPaidFor` is a second induction on the sum of heap
position, free pages and live processes, and yields `HeapStaysBelowStack`.
`Refinement` shows that every step of `KProc` is a step of `ProcLife` or a stutter
under `live <- Live`, `cpu <- CpuOf(mode)`; `ExecHeap` proves `ExecHeapFresh`
relative to `IInv`.

*`OpenFilesProofs`.* `IInv` adds that an entry in use names a file.
`Refinement` maps each pointer to the file and position behind it; exclusiveness
is what makes a read or close change one abstract descriptor and no other.

*`FoldLemmas`.* `FoldLeft` and the other folds of the community modules are
recursive functions over the subsets of an interval. `FoldExists` shows that there
is such a function, from which a proof about a fold gets the states it goes
through, one for every prefix of the sequence, and then reasons by induction along
them (`UpTo`, `Throughout`). The step of the fold is a function in these lemmas,
because a lemma cannot be used with an operator as parameter.

*`TtyProofs`.* The ring is described by three numbers: where `r` is, how much can
be read and how much is held, the unfinished line included. Every action is shown
to move these numbers as a queue would, with the two cases that the indices cannot
tell apart, the full and the empty ring, settled by the flags (`IndicesAgree`).
`Refinement` maps the ring to the sequence it holds.

*`TrapProofs`.* The invariant relates each place in the code to the CSRs
(`Control`) and to which frames are up to date (`Data`). `Data` fails once the
interrupt of finding (5) has happened, so the invariant is
`Control /\ (Doomed \/ Data)`, and `Doomed` states never reach user mode again.
`LifeRefinement` shows that every step is one of `ProcLife`: `Control` says in
which mode the hart is wherever a process is created, entered or freed.

*`DiskProofs`.* `Protocol` relates the driver's stage to the counters
(`Counters`: they agree between requests, and otherwise differ by the one request
under way, so equality is the right test whatever the modulus), to the device's
status (`Started`) and to the pages (`Pages`: the queue is the two pages below
those the kernel has taken). `Room` is a second induction: what is being read has
an entry and a place in it; it yields `FilesFit`, the part of `DiskTypeOK` that
keeps the loader inside its tables. `LoadsTheArchive` rests on three more
inductions. `OctalValue` shows that `oct2int` reads back every size that tar
writes; `StartAdds` and `StartGrows` place the headers on the disk, each behind
the data of the file before. `Asked` says which sector the request under way is
for and what its answer will be. `Progress` then says how far the loading has
come: the entries but the last are the archive's, the last is as far as the sector
reached, and that sector is the next header when the last is complete. The first
attempt at the proof failed on a real case: when the zero sector that *ends* the
archive cannot be read, the last header is still in `buffer` and the last file is
taken again. `LoadedAsArchive` therefore assumes of that sector too that it does
not fail; with the headers alone it is false, as TLC confirms on the archive of one
file.

*`SessionProofs`.* The invariant behind `PromptAfterCommand` is `Order`: counted
from where the scheduler goes on, a command's slot comes before its shell's. It
holds when the shell forks, because its own slot is then the last one, and every
step of the scan keeps the distance (`Closer`). `Lines` says that a line that has
begun belongs to the running process. `Table`, inductive beside it, relates the
slots to the programs in them and keeps a line below `BUF_SIZE`; with `ParseType`
(a command has at most `MAX_CMD_ARGS` words) it yields `TypeOK`. `ParsesWords` is
the theorem about `parse_buf`: after n characters the parser has exactly the words
that ended before (`Parsed`), or it has refused a line that has too many
(`Refused`). `Lists` says that a sequence of words is the runs that stop at given
ends, by their rank, which is how `WordsOf` is defined. `MachineLoadsDisk` carries
the theorems of `DiskProofs` over to the whole machine.

*`UMallocProofs`.* The theorems assume `Frees # "any"`: the program frees its
newest block first, or nothing. With any order they are false (`umalloc_overlap`).
The list does not keep the shape one would expect even then, because a split does
not move `head.prev`, and the next page goes behind a chunk that is no longer the
last. `IInv` says what is left: there is a set `C` of blocks and a chunk `T` such
that the chain is the blocks of `C`, from low to high addresses, and then `T`, the
only free chunk a search can meet (`Linked`, `Top`); blocks outside `C`, cut off by
a page linked behind an older one, lead only to one another and to dead chunks,
which are free and lie below everything newer in the chain (`Cut`); `head.prev` is
in the chain or dead (`Stale`); and blocks lie one behind the other, oldest first
(`Laid`). Each of `umalloc`, `ufree` and `umorecore` is shown to lead to another
`C` and `T`. `ChainFacts` shows that following `next` ends, since addresses grow
along it; `FitIsTop` that only `T` is ever cut, which is why the block is apart
from all others. `HeadersIntact`, `TypeOK`, `NoOverlap` and the refinement of
`Heap` follow. TLC checked `IInv` on the instance of `mc_umalloc` before it was
proved.

Model-checked only: liveness (`NoStarvation`, `LineIsRead`, `CharacterTaken`,
`LoadingEnds`, `BootsToPrompt`, `CommandRuns`), which needs fairness and
`ENABLED`.

## Not modelled

Contents of page-table entries, files and argv blocks; UART output; writing to
the disk, which nothing does; requests to `umalloc` near 2^32, where its
arithmetic wraps; formatting
and string helpers; `kspinlock.c` and `kterminal.c`, which nothing calls; a
descriptor beyond `MAX_OPEN_FILES`. The code does not refuse one:
`opened_files[MAX_OPEN_FILES]` is the next field of `struct process`,
`kernel_stack_top`, which points at the next slot of `proc_array`, so a close of
it clears that word and then writes the fields of an `os_file` over the next
slot's `pid`, `state` and `parent`. `OpenFiles` and everything it shows is about
programs that stay inside the array. The word
that `kernelvec` stores above its stack frame is outside the model, which has no
stack.

## Plan

1. Process table and memory, traps, open files, terminal, with proofs of the
   safety properties of the first three: done.
2. `UMalloc`, `Disk` and `Session`, with proofs of the driver's protocol, the
   bounds of the loader, and the shell's lines and prompts: done.
3. Proofs of `Tty`'s invariants and its refinement of the queue, of `Trap`'s
   refinement of `ProcLife`, of the loading of the archive and of the shell's
   words: done.
4. An inductive invariant for `UMalloc` under `lifo` frees, and the refinement of
   `Heap`: done.
5. `Kvmem`: two-level tables entry by entry, refining the mapped sets of
   `KProc`.
