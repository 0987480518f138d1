------------------------------ MODULE Session -------------------------------
(***************************************************************************)
(* A machine in use: kernel_main loads the disk (Disk) and starts the      *)
(* program in filesystem_files[2], the scheduler shares the hart among the *)
(* processes (ProcLife), and the programs are the shell (user/shell.c) and *)
(* echo (user/echo.c) over the start code of ulibc.c.                      *)
(*                                                                         *)
(* A process runs until it sleeps, exits or faults, so a system call of    *)
(* the shell is one step.  Page tables, memory and the terminal's ring are *)
(* those of KProc and Tty; here a character is there when it is typed, and *)
(* echo's arguments and output are left out.                               *)
(***************************************************************************)
EXTENDS Disk, ProcLife

CONSTANTS
  BUF_SIZE,        \* of the shell's line
  MAX_CMD_ARGS,
  Letters,         \* characters that can be typed, besides space and newline
  ShellName,       \* the archive's name of shell.elf
  EchoName         \* the archive's name of echo.elf

ASSUME ShellAssumption ==
  /\ BUF_SIZE \in Nat /\ BUF_SIZE > 1
  /\ MAX_CMD_ARGS \in Nat \ {0}

VARIABLES
  next,      \* the scheduler's loop index, where it resumes
  prog       \* what the process in a slot runs

sessionVars == <<next, prog>>
vars == <<diskVars, lifeVars, sessionVars>>

SPACE == "space"
NL == "newline"
NUL == "nul"

(***************************************************************************)
(* A process: the program it runs; where in it; the shell's line so far;   *)
(* the words of its command; and the slot of the shell that forked it, its *)
(* own for the process kernel_main creates.                                *)
(*   "read"   the shell reads its line                                     *)
(*   "fork"   the shell has parsed a command and calls usys_fork           *)
(*   "sleep"  the shell calls usys_sleep                                   *)
(*   "asleep" it is in usys_sleep                                          *)
(*   "exec"   the shell's child calls usys_exec                            *)
(*   "run"    another program                                              *)
(***************************************************************************)
Process(file, at, parent) ==
  [file |-> file, at |-> at, buf |-> <<>>, argv |-> <<>>, parent |-> parent]
Nothing == Process("none", "none", 0)

me == prog[current]
Running(at) == cpu = "user" /\ me.at = at

----------------------------------------------------------------------------
(***************************************************************************)
(* parse_buf: the words of the line, none when there are too many.         *)
(***************************************************************************)
EndWord(s) ==
  IF s.word = <<>> THEN s ELSE [s EXCEPT !.argv = Append(@, s.word), !.word = <<>>]

\* Mutant: one word more than MAX_CMD_ARGS is let through.
Mutant_TooMany_OffByOne(argv) == Len(argv) > MAX_CMD_ARGS

TooMany(argv) == Len(argv) >= MAX_CMD_ARGS

\* The limit is tested at every character but a space, the NUL included.
ParseChar(s, c) ==
  IF s.done THEN s
  ELSE IF c = SPACE THEN EndWord(s)
  ELSE IF TooMany(s.argv) THEN [s EXCEPT !.argv = <<>>, !.done = TRUE]
  ELSE IF c = NUL THEN [EndWord(s) EXCEPT !.done = TRUE]
  ELSE [s EXCEPT !.word = Append(@, c)]

parse_buf(line) ==
  FoldLeft(ParseChar, [argv |-> <<>>, word |-> <<>>, done |-> FALSE], line).argv

----------------------------------------------------------------------------
(***************************************************************************)
(* Programs.  A file in memory is a program when its entry and all of its  *)
(* sectors are those of shell.elf or echo.elf; nothing in the kernel looks *)
(* before it jumps into another one.                                       *)
(***************************************************************************)
Whole(f) ==
  \E k \in DOMAIN archive :
    /\ f.name = archive[k].name /\ f.size = archive[k].size
    /\ f.data = [j \in 1 .. SectorsOf(f.size) |-> Start(k) + j]

Program(k) ==
  IF k \notin DOMAIN filesystem_files THEN "junk"
  ELSE LET f == filesystem_files[k] IN
       IF Whole(f) /\ f.name = ShellName THEN "shell"
       ELSE IF Whole(f) /\ f.name = EchoName THEN "echo" ELSE "junk"

\* The process that starts a program: main of the shell reads its first line.
Load(k, parent) ==
  Process(Program(k), IF Program(k) = "shell" THEN "read" ELSE "run", parent)

SessionInit ==
  /\ DiskInit
  /\ LifeInit
  /\ next = 0
  /\ prog = [i \in Slots |-> Nothing]

Loading ==
  /\ cpu = "boot"
  /\ DiskNext
  /\ UNCHANGED <<lifeVars, sessionVars>>

\* Mutant: the entry before the shell is started.
Mutant_kernel_main_Second ==
  /\ boot = "loaded"
  /\ Create
  /\ prog' = [prog EXCEPT ![0] = Load(2, 0)]
  /\ UNCHANGED <<diskVars, next>>

\* kernel_main starts filesystem_files[2], the third entry.
kernel_main ==
  /\ boot = "loaded"
  /\ Create
  /\ prog' = [prog EXCEPT ![0] = Load(3, 0)]
  /\ UNCHANGED <<diskVars, next>>

BootPanic ==
  /\ boot = "panic" /\ cpu = "boot"
  /\ Halt
  /\ UNCHANGED <<diskVars, sessionVars>>

\* Mutant: the loop starts over after every process.
Mutant_kproc_scheduler_Restarts ==
  /\ cpu = "kernel"
  /\ next' = IF next \in live THEN 0 ELSE (next + 1) % NUM_PROCESSES
  /\ IF next \in live THEN Dispatch(next) ELSE UNCHANGED lifeVars
  /\ UNCHANGED <<diskVars, prog>>

\* One iteration of the scheduler's loop.
kproc_scheduler ==
  /\ cpu = "kernel"
  /\ next' = (next + 1) % NUM_PROCESSES
  /\ IF next \in live THEN Dispatch(next) ELSE UNCHANGED lifeVars
  /\ UNCHANGED <<diskVars, prog>>

----------------------------------------------------------------------------
(***************************************************************************)
(* The shell.                                                              *)
(***************************************************************************)
\* What the shell has in buf when it stops reading: the line and its NUL, or
\* BUF_SIZE characters and no NUL.
Entered(c) == Append(me.buf, IF c = NL THEN NUL ELSE c)

\* Mutant: usys_read gives up the hart after a character.
Mutant_usys_read_Yields(c) ==
  /\ Running("read")
  /\ c # NL /\ Len(me.buf) + 1 < BUF_SIZE
  /\ Yield
  /\ prog' = [prog EXCEPT ![current].buf = Entered(c)]
  /\ UNCHANGED <<diskVars, next>>

\* main reads one more character, and at the end of the line parses it.
usys_read(c) ==
  /\ Running("read")
  /\ IF c = NL \/ Len(me.buf) + 1 = BUF_SIZE
     THEN LET argv == parse_buf(Entered(c)) IN
          prog' = [prog EXCEPT ![current].buf = <<>>,
                               ![current].argv = argv,
                               ![current].at = IF argv = <<>> THEN "read" ELSE "fork"]
     ELSE prog' = [prog EXCEPT ![current].buf = Entered(c)]
  /\ UNCHANGED <<diskVars, lifeVars, next>>

\* Mutant: the child is not made RUNNABLE.
Mutant_usys_fork_NotRunnable ==
  /\ Running("fork")
  /\ \E i \in Slots \ live :
       prog' = [prog EXCEPT ![i] = [me EXCEPT !.at = "exec", !.parent = current],
                            ![current].at = "sleep",
                            ![current].argv = <<>>]
  /\ UNCHANGED <<diskVars, lifeVars, next>>

\* The child is the shell's copy, in a free slot.
usys_fork ==
  /\ Running("fork")
  /\ \E i \in Slots :
       /\ Fork(i)
       /\ prog' = [prog EXCEPT ![i] = [me EXCEPT !.at = "exec", !.parent = current],
                               ![current].at = "sleep",
                               ![current].argv = <<>>]
  /\ UNCHANGED <<diskVars, next>>

\* "No free PCB for forked process".
NoFreePCB ==
  /\ Running("fork")
  /\ live = Slots
  /\ Halt
  /\ UNCHANGED <<diskVars, sessionVars>>

\* The child becomes the program; when there is no such file, usys_exec
\* returns and the child goes on as a second shell.
usys_exec ==
  LET found == filesystem_locate_file(Head(me.argv)) IN
  /\ Running("exec")
  /\ prog' = [prog EXCEPT ![current] =
       IF found = {} THEN Process("shell", "read", me.parent)
                     ELSE Load(CHOOSE k \in found : TRUE, me.parent)]
  /\ UNCHANGED <<diskVars, lifeVars, next>>

usys_sleep ==
  /\ Running("sleep")
  /\ Yield
  /\ prog' = [prog EXCEPT ![current].at = "asleep"]
  /\ UNCHANGED <<diskVars, next>>

\* usys_sleep returns and the shell prompts for the next line.
Prompt ==
  /\ Running("asleep")
  /\ prog' = [prog EXCEPT ![current].at = "read"]
  /\ UNCHANGED <<diskVars, lifeVars, next>>

\* echo prints its words and returns into start, which calls exit.
usys_exit ==
  /\ Running("run") /\ me.file = "echo"
  /\ Exit
  /\ prog' = [prog EXCEPT ![current] = Nothing]
  /\ UNCHANGED <<diskVars, next>>

\* What is no program runs on forever or faults, and a fault stops the machine.
Fault ==
  /\ Running("run") /\ me.file = "junk"
  /\ Halt
  /\ UNCHANGED <<diskVars, sessionVars>>

\* kpanic loops forever.
kpanic == cpu = "stopped" /\ UNCHANGED vars

ProgramStep == usys_fork \/ NoFreePCB \/ usys_exec \/ usys_sleep \/ Prompt \/ usys_exit

SessionNext ==
  \/ Loading \/ kernel_main \/ BootPanic
  \/ kproc_scheduler
  \/ \E c \in Letters \cup {SPACE, NL} : usys_read(c)
  \/ ProgramStep
  \/ Fault
  \/ kpanic

\* Code that neither waits for the keyboard nor is unknown goes on.
SessionSpec ==
  /\ SessionInit /\ [][SessionNext]_vars
  /\ DiskFairness
  /\ WF_vars(kernel_main)
  /\ WF_vars(kproc_scheduler)
  /\ WF_vars(ProgramStep)

----------------------------------------------------------------------------
(***************************************************************************)
(* Properties                                                              *)
(***************************************************************************)
\* Every variable keeps its type, and a slot holds a program exactly when the
\* process table says that it is in use (fork, exec and exit of shell and echo).
TypeOK ==
  /\ DiskTypeOK
  /\ LifeTypeOK
  /\ next \in Slots
  /\ \A i \in Slots :
       /\ prog[i].file \in {"none", "shell", "echo", "junk"}
       /\ prog[i].at \in {"none", "read", "fork", "sleep", "asleep", "exec", "run"}
       /\ Len(prog[i].buf) < BUF_SIZE
       /\ Len(prog[i].argv) <= MAX_CMD_ARGS
       /\ prog[i].parent \in Slots
       /\ i \in live <=> prog[i] # Nothing

\* Two shells never share a line: one that is in the middle of its line has the
\* hart and keeps it until the line ends, so what is typed goes to it alone (main
\* of shell.c, ksys_read, kproc_scheduler).
LineNotSplit ==
  \A i \in Slots : prog[i].buf # <<>> => i = current /\ cpu \in {"user", "stopped"}

\* The words of a line: its longest runs without a space before its first NUL.
\* A line that ended for want of room has no NUL, and has lost the word it ended in.
WordsOf(line) ==
  LET nuls == {i \in DOMAIN line : line[i] = NUL}
      size == IF nuls = {} THEN Len(line) ELSE Min(nuls) - 1
      letter(i) == i \in 1 .. size /\ line[i] # SPACE
      ends == {e \in 1 .. size : letter(e) /\ ~letter(e + 1)}
      whole == IF nuls = {} THEN ends \ {size} ELSE ends
      first(e) == CHOOSE b \in 1 .. e : ~letter(b - 1) /\ \A i \in b .. e : letter(i)
  IN [k \in 1 .. Cardinality(whole) |->
        LET e == CHOOSE e \in whole : Cardinality({d \in whole : d <= e}) = k
        IN SubSeq(line, first(e), e)]

\* A command the shell accepts is the words of its line, all of them and in
\* order; it accepts every line of less than MAX_CMD_ARGS words and none with
\* more (parse_buf).  At the limit, a space at the end of the line decides.
ParseSound ==
  Running("read") =>
    \A c \in Letters \cup {SPACE, NL} :
      (c = NL \/ Len(me.buf) + 1 = BUF_SIZE) =>
        LET argv == parse_buf(Entered(c))
            words == WordsOf(Entered(c))
        IN /\ argv \in {words, <<>>}
           /\ Len(words) < MAX_CMD_ARGS => argv = words
           /\ Len(words) > MAX_CMD_ARGS => argv = <<>>

\* A shell prompts again only when its command is done, although usys_sleep
\* waits for nothing: as long as the child has not run, or runs echo, the shell
\* that forked it sleeps (main of shell.c, kproc_scheduler).
PromptAfterCommand ==
  \A i \in live :
    prog[i].parent # i /\ (prog[i].at = "exec" \/ prog[i].file = "echo") =>
      prog[prog[i].parent].at \in {"sleep", "asleep"}

\* A forked command comes to run, whichever slot it got, provided that the
\* shells that read in between are given their lines (kproc_scheduler).
CommandRuns ==
  []<>(cpu = "kernel") =>
    \A i \in Slots : prog[i].at = "exec" ~> prog[i].at # "exec"

ShellOnDisk ==
  /\ Len(archive) >= 3 /\ archive[3].name = ShellName
  /\ \A k \in DOMAIN archive : Start(k) < Len(disk) /\ archive[k].size <= MAX_FILESIZE

\* With the shell as the third file of a whole archive the machine boots to
\* its prompt, unless there is no disk or a request fails (kernel_main).  This
\* leaves out interrupts, which the module does not have: one that is taken on
\* the first way to user mode keeps the shell from running (UservecOnlyFromUser
\* of Trap).
BootsToPrompt ==
  (ShellOnDisk /\ Last(disk) = Zero) =>
    <>(\/ Running("read")
       \/ device.failed # {}
       \/ vq = 0 /\ boot = "panic")
=============================================================================
