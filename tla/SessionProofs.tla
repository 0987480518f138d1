--------------------------- MODULE SessionProofs ----------------------------
(***************************************************************************)
(* Proofs about Session, for every number of slots, every disk and every   *)
(* input: what holds of the loading holds of the whole machine, shells do  *)
(* not share a line, a shell prompts again only after its command, and     *)
(* the words it takes are those of its line; lines, commands and the table *)
(* of processes keep to their limits.                                      *)
(***************************************************************************)
EXTENDS Session, DiskProofs, FiniteSetTheorems, SequenceTheorems

Chars == Letters \cup {SPACE, NL, NUL}

Processes ==
  [file   : {"none", "shell", "echo", "junk"},
   at     : {"none", "read", "fork", "sleep", "asleep", "exec", "run"},
   buf    : Seq(Chars),
   argv   : {<<>>} \cup {parse_buf(line) : line \in Seq(Chars)},
   parent : Slots]

SessionTypes ==
  /\ LifeTypeOK
  /\ next \in Slots
  /\ prog \in [Slots -> Processes]

\* A line that has begun belongs to the process that has the hart.
Lines ==
  \A i \in Slots : prog[i].buf # <<>> =>
    prog[i].at = "read" /\ i = current /\ cpu \in {"user", "stopped"}

\* The scheduler goes on behind the process it has entered; a slot that is not
\* in use has no process; a program does only what it can.
Turn ==
  /\ cpu = "user" => current \in live /\ next = (current + 1) % NUM_PROCESSES
  /\ cpu = "boot" => live = {}
  /\ \A i \in Slots : i \notin live => prog[i].at = "none"
  /\ \A i \in Slots : prog[i].file = "echo" => prog[i].at = "run"

\* How many slots the scheduler passes from a on before it comes to b.
Ahead(a, b) == IF b >= a THEN b - a ELSE b - a + NUM_PROCESSES

\* A command that has not run, or that is echo.
Command(i) == prog[i].parent # i /\ (prog[i].at = "exec" \/ prog[i].file = "echo")

\* The shell of a command sleeps, and the scheduler comes to the command first.
Waits(i) ==
  LET p == prog[i].parent IN
  /\ prog[p].at \in {"sleep", "asleep"}
  /\ cpu = "user" /\ current = p => prog[p].at = "sleep"
  /\ cpu = "kernel" \/ (cpu = "user" /\ current # i) => Ahead(next, i) < Ahead(next, p)

Order == \A i \in live : Command(i) => Waits(i)

SInv == SessionTypes /\ Lines /\ Turn /\ Order

----------------------------------------------------------------------------
\* The scheduler's index, and how it comes closer to every slot but its own.
LEMMA NextSlot ==
  ASSUME NEW n \in Slots
  PROVE  /\ (n + 1) % NUM_PROCESSES = IF n + 1 = NUM_PROCESSES THEN 0 ELSE n + 1
         /\ (n + 1) % NUM_PROCESSES \in Slots
  <1>1. NUM_PROCESSES \in Nat \ {0}
    BY SlotCountAssumption
  <1>2. CASE n + 1 < NUM_PROCESSES
    <2>1. (n + 1) % NUM_PROCESSES = n + 1
      BY <1>1, <1>2 DEF Slots
    <2> QED BY <2>1, <1>1, <1>2 DEF Slots
  <1>3. CASE n + 1 = NUM_PROCESSES
    <2>1. NUM_PROCESSES % NUM_PROCESSES = 0
      BY <1>1
    <2> QED BY <2>1, <1>1, <1>3 DEF Slots
  <1> QED BY <1>1, <1>2, <1>3 DEF Slots

LEMMA Closer ==
  ASSUME NEW n \in Slots, NEW i \in Slots
  PROVE  /\ Ahead(n, i) \in Int /\ Ahead(n, i) >= 0
         /\ Ahead(n, n) = 0
         /\ n # i => Ahead((n + 1) % NUM_PROCESSES, i) = Ahead(n, i) - 1
         /\ n # i => Ahead((n + 1) % NUM_PROCESSES, i) < Ahead((n + 1) % NUM_PROCESSES, n)
  BY NextSlot, SlotCountAssumption DEF Ahead, Slots

LEMMA SlotZero == 0 \in Slots
  BY SlotCountAssumption DEF Slots

\* Process builds processes.
LEMMA ProcessType ==
  ASSUME NEW f \in {"none", "shell", "echo", "junk"},
         NEW a \in {"none", "read", "fork", "sleep", "asleep", "exec", "run"},
         NEW p \in Slots
  PROVE  /\ Process(f, a, p) \in Processes
         /\ Process(f, a, p).file = f /\ Process(f, a, p).at = a
         /\ Process(f, a, p).buf = <<>> /\ Process(f, a, p).parent = p
  BY DEF Process, Processes

LEMMA LoadType ==
  ASSUME NEW k, NEW p \in Slots
  PROVE  /\ Load(k, p) \in Processes
         /\ Load(k, p).at \in {"read", "run"} /\ Load(k, p).buf = <<>>
         /\ Load(k, p).parent = p
         /\ Load(k, p).file = "echo" => Load(k, p).at = "run"
  <1>1. Program(k) \in {"shell", "echo", "junk"}
    BY DEF Program
  <1> QED BY <1>1, ProcessType DEF Load

LEMMA InitSInv == SessionInit => SInv
  <1> SUFFICES ASSUME SessionInit PROVE SInv
    OBVIOUS
  <1>1. /\ Nothing \in Processes /\ Nothing.buf = <<>> /\ Nothing.at = "none"
        /\ Nothing.file = "none"
    BY ProcessType, SlotZero DEF Nothing
  <1> QED BY <1>1, SlotZero DEF SessionInit, LifeInit, SInv, SessionTypes, LifeTypeOK, Lines,
            Turn, Order

\* Steps that touch neither a process nor the scheduler.
LEMMA Stutter ==
  ASSUME SInv, UNCHANGED <<lifeVars, sessionVars>>
  PROVE  SInv'
  BY DEF lifeVars, sessionVars, SInv, SessionTypes, LifeTypeOK, Lines, Turn, Order, Command,
         Waits, Ahead

LEMMA StopSInv ==
  ASSUME SInv, Halt, UNCHANGED sessionVars
  PROVE  SInv'
  BY DEF Halt, sessionVars, SInv, SessionTypes, LifeTypeOK, Lines, Turn, Order, Command, Waits,
         Ahead

LEMMA MainSInv ==
  ASSUME SInv, kernel_main
  PROVE  SInv'
  <1>1. /\ Load(3, 0) \in Processes /\ Load(3, 0).buf = <<>> /\ Load(3, 0).parent = 0
        /\ Load(3, 0).file = "echo" => Load(3, 0).at = "run"
    BY LoadType, SlotZero
  <1>2. live' = {0} /\ cpu' = "kernel" /\ current' = current /\ next' = next /\ cpu = "boot"
        /\ prog' = [prog EXCEPT ![0] = Load(3, 0)]
    BY DEF kernel_main, Create
  <1>3. SessionTypes'
    BY <1>1, <1>2, SlotZero DEF SInv, SessionTypes, LifeTypeOK
  <1>4. Lines' /\ Turn'
    BY <1>1, <1>2, SlotZero DEF SInv, SessionTypes, Lines, Turn
  <1>5. Order'
    BY <1>1, <1>2, SlotZero DEF Order, Command, SInv, SessionTypes
  <1> QED BY <1>3, <1>4, <1>5 DEF SInv

LEMMA SchedulerSInv ==
  ASSUME SInv, kproc_scheduler
  PROVE  SInv'
  <1>1. next \in Slots /\ next' = (next + 1) % NUM_PROCESSES /\ next' \in Slots
    BY NextSlot DEF kproc_scheduler, SInv, SessionTypes
  <1>2. /\ cpu = "kernel" /\ prog' = prog /\ live' = live
        /\ \/ next \in live /\ current' = next /\ cpu' = "user"
           \/ next \notin live /\ current' = current /\ cpu' = "kernel"
    BY DEF kproc_scheduler, Dispatch, lifeVars
  <1>3. SessionTypes' /\ Lines' /\ Turn'
    BY <1>1, <1>2 DEF SInv, SessionTypes, LifeTypeOK, Lines, Turn
  <1>4. ASSUME NEW i \in live', Command(i)'
        PROVE  Waits(i)'
    <2> DEFINE p == prog[i].parent
    <2>1. i \in Slots /\ p \in Slots /\ i \in live /\ Command(i)
      BY <1>2, <1>4 DEF SInv, SessionTypes, LifeTypeOK, Processes, Command
    <2>2. prog[p].at \in {"sleep", "asleep"} /\ Ahead(next, i) < Ahead(next, p)
      BY <1>2, <2>1 DEF SInv, Order, Waits
    <2>3. next # p
      BY <1>1, <2>1, <2>2, Closer
    <2>4. next # i => Ahead(next', i) < Ahead(next', p)
      <3>1. Ahead(next', p) = Ahead(next, p) - 1 /\ Ahead(next, p) \in Int
        BY <1>1, <2>1, <2>3, Closer
      <3>2. next # i => Ahead(next', i) = Ahead(next, i) - 1 /\ Ahead(next, i) \in Int
        BY <1>1, <2>1, Closer
      <3> QED BY <2>2, <3>1, <3>2
    <2>5. next = i => cpu' = "user" /\ current' = i
      BY <1>2, <2>1
    <2> QED BY <1>2, <2>2, <2>3, <2>4, <2>5 DEF Waits, SInv, Turn, Ahead
  <1> QED BY <1>3, <1>4 DEF SInv, Order

\* A step of the running process that changes its own record only and does not
\* make it a command: it has no command of its own, so nobody's shell wakes up.
LEMMA OwnStep ==
  ASSUME SInv, cpu = "user", UNCHANGED <<lifeVars, next>>,
         NEW r \in Processes, prog' = [prog EXCEPT ![current] = r],
         prog[current].at # "sleep",
         r.buf # <<>> => r.at = "read",
         r.file = "echo" => r.at = "run",
         r.parent = prog[current].parent,
         r.at = "exec" \/ r.file = "echo" => prog[current].at = "exec" \/ prog[current].file = "echo"
  PROVE  SInv'
  <1>1. /\ current \in Slots /\ current \in live /\ live \subseteq Slots
        /\ live' = live /\ current' = current /\ cpu' = cpu /\ next' = next
        /\ prog \in [Slots -> Processes] /\ prog'[current] = r
        /\ \A i \in Slots \ {current} : prog'[i] = prog[i]
    BY DEF SInv, SessionTypes, LifeTypeOK, Turn, lifeVars
  <1>2. SessionTypes'
    BY <1>1 DEF SInv, SessionTypes, LifeTypeOK
  <1>3. Lines'
    BY <1>1 DEF SInv, Lines
  <1>4. Turn'
    BY <1>1 DEF SInv, Turn
  <1>5. ASSUME NEW i \in live, Command(i)'
        PROVE  Waits(i)'
    <2>1. i \in Slots /\ prog'[i].parent = prog[i].parent /\ prog[i].parent \in Slots
      BY <1>1 DEF Processes
    <2>2. Command(i)
      BY <1>1, <1>5, <2>1 DEF Command
    <2>3. Waits(i) /\ prog[i].parent # current
      BY <2>2 DEF SInv, Order, Waits
    <2> QED BY <1>1, <2>1, <2>3 DEF Waits, Ahead
  <1> QED BY <1>1, <1>2, <1>3, <1>4, <1>5 DEF SInv, Order

LEMMA ReadSInv ==
  ASSUME SInv, NEW c \in Letters \cup {SPACE, NL}, usys_read(c)
  PROVE  SInv'
  <1>1. /\ current \in Slots /\ me \in Processes /\ cpu = "user" /\ me.at = "read"
        /\ prog \in [Slots -> Processes]
    BY DEF usys_read, Running, SInv, SessionTypes, LifeTypeOK, me
  <1>2. Entered(c) \in Seq(Chars) /\ parse_buf(Entered(c)) \in {<<>>} \cup {parse_buf(l) : l \in Seq(Chars)}
    <2>1. me.buf \in Seq(Chars)
      BY <1>1 DEF Processes
    <2>2. (IF c = NL THEN NUL ELSE c) \in Chars
      BY DEF Chars
    <2>3. Entered(c) \in Seq(Chars)
      BY <2>1, <2>2 DEF Entered
    <2> QED BY <2>3
  <1> DEFINE a == parse_buf(Entered(c))
             r == IF c = NL \/ Len(me.buf) + 1 = BUF_SIZE
                  THEN [me EXCEPT !.buf = <<>>, !.argv = a,
                                  !.at = IF a = <<>> THEN "read" ELSE "fork"]
                  ELSE [me EXCEPT !.buf = Entered(c)]
  <1>3. prog' = [prog EXCEPT ![current] = r]
    BY <1>1 DEF usys_read, me
  <1>4. /\ r \in Processes
        /\ r.buf # <<>> => r.at = "read"
        /\ r.parent = me.parent /\ r.file = me.file /\ r.at \in {"read", "fork"}
    <2>1. CASE c = NL \/ Len(me.buf) + 1 = BUF_SIZE
      <3> DEFINE t == IF a = <<>> THEN "read" ELSE "fork"
      <3>1. r = [me EXCEPT !.buf = <<>>, !.argv = a, !.at = t]
        BY <2>1
      <3>2. t \in {"read", "fork"} /\ <<>> \in Seq(Chars)
        OBVIOUS
      <3> HIDE DEF t, a, r
      <3> QED BY <1>1, <1>2, <3>1, <3>2 DEF Processes, a
    <2>2. CASE ~(c = NL \/ Len(me.buf) + 1 = BUF_SIZE)
      <3>1. r = [me EXCEPT !.buf = Entered(c)]
        BY <2>2
      <3> HIDE DEF r
      <3> QED BY <1>1, <1>2, <3>1 DEF Processes
    <2> QED BY <2>1, <2>2
  <1> HIDE DEF r
  <1>5. me.file # "echo"
    BY <1>1 DEF SInv, Turn, me
  <1>6. UNCHANGED <<lifeVars, next>>
    BY DEF usys_read
  <1> QED BY <1>1, <1>3, <1>4, <1>5, <1>6, OwnStep DEF me

LEMMA ExecSInv ==
  ASSUME SInv, usys_exec
  PROVE  SInv'
  <1>1. /\ current \in Slots /\ me \in Processes /\ cpu = "user" /\ me.at = "exec"
        /\ me.parent \in Slots
    BY DEF usys_exec, Running, SInv, SessionTypes, LifeTypeOK, me, Processes
  <1>2. PICK r : /\ prog' = [prog EXCEPT ![current] = r]
                 /\ \/ r = Process("shell", "read", me.parent)
                    \/ \E k : r = Load(k, me.parent)
    BY DEF usys_exec
  <1>3. /\ r \in Processes /\ r.buf = <<>> /\ r.parent = me.parent /\ r.at # "exec"
        /\ r.file = "echo" => r.at = "run"
    <2>1. CASE r = Process("shell", "read", me.parent)
      BY <1>1, <2>1, ProcessType
    <2>2. CASE \E k : r = Load(k, me.parent)
      <3>1. PICK k : r = Load(k, me.parent)
        BY <2>2
      <3> QED BY <1>1, <3>1, LoadType
    <2> QED BY <1>2, <2>1, <2>2
  <1> QED BY <1>1, <1>2, <1>3, OwnStep DEF me, usys_exec

LEMMA PromptSInv ==
  ASSUME SInv, Prompt
  PROVE  SInv'
  <1>1. /\ current \in Slots /\ me \in Processes /\ cpu = "user" /\ me.at = "asleep"
        /\ prog \in [Slots -> Processes]
    BY DEF Prompt, Running, SInv, SessionTypes, LifeTypeOK, me
  <1> DEFINE r == [me EXCEPT !.at = "read"]
  <1>2. prog' = [prog EXCEPT ![current] = r]
    BY <1>1 DEF Prompt, me
  <1>3. r \in Processes /\ r.at = "read" /\ r.parent = me.parent /\ r.file = me.file
    BY <1>1 DEF Processes
  <1> HIDE DEF r
  <1>4. me.file # "echo"
    BY <1>1 DEF SInv, Turn, me
  <1>5. UNCHANGED <<lifeVars, next>>
    BY DEF Prompt
  <1> QED BY <1>1, <1>2, <1>3, <1>4, <1>5, OwnStep DEF me

\* The shell gives up the hart; the scheduler comes to its command first.
LEMMA SleepSInv ==
  ASSUME SInv, usys_sleep
  PROVE  SInv'
  <1>1. /\ current \in Slots /\ me \in Processes /\ cpu = "user" /\ me.at = "sleep"
        /\ prog \in [Slots -> Processes] /\ current \in live /\ live \subseteq Slots
    BY DEF usys_sleep, Running, SInv, SessionTypes, LifeTypeOK, Turn, me
  <1> DEFINE r == [me EXCEPT !.at = "asleep"]
  <1>2. prog' = [prog EXCEPT ![current] = r]
    BY <1>1 DEF usys_sleep, me
  <1>3. /\ r \in Processes /\ r.at = "asleep" /\ r.parent = me.parent /\ r.file = me.file
        /\ r.buf = me.buf
    BY <1>1 DEF Processes
  <1> HIDE DEF r
  <1>4. /\ cpu' = "kernel" /\ live' = live /\ current' = current /\ next' = next
        /\ prog'[current] = r /\ \A i \in Slots \ {current} : prog'[i] = prog[i]
    BY <1>1, <1>2 DEF usys_sleep, Yield
  <1>5. me.file # "echo" /\ \A i \in Slots : prog[i].buf = <<>>
    BY <1>1 DEF SInv, Turn, Lines, me
  <1>6. SessionTypes'
    BY <1>1, <1>2, <1>3, <1>4 DEF SInv, SessionTypes, LifeTypeOK
  <1>7. Lines' /\ Turn'
    BY <1>1, <1>3, <1>4, <1>5 DEF SInv, Lines, Turn, me
  <1>8. ASSUME NEW i \in live, Command(i)'
        PROVE  Waits(i)'
    <2>1. i \in Slots /\ i # current /\ prog'[i] = prog[i] /\ prog[i].parent \in Slots
      BY <1>1, <1>3, <1>4, <1>5, <1>8 DEF Processes, Command
    <2>2. Command(i) /\ Waits(i)
      BY <1>8, <2>1 DEF Command, SInv, Order
    <2> QED BY <1>1, <1>3, <1>4, <2>1, <2>2 DEF Waits, Ahead
  <1> QED BY <1>4, <1>6, <1>7, <1>8 DEF SInv, Order

LEMMA ExitSInv ==
  ASSUME SInv, usys_exit
  PROVE  SInv'
  <1>1. /\ current \in Slots /\ cpu = "user" /\ me.at = "run"
        /\ prog \in [Slots -> Processes] /\ current \in live /\ live \subseteq Slots
    BY DEF usys_exit, Running, SInv, SessionTypes, LifeTypeOK, Turn, me
  <1>2. Nothing \in Processes /\ Nothing.at = "none" /\ Nothing.file = "none" /\ Nothing.buf = <<>>
    BY ProcessType, SlotZero DEF Nothing
  <1>3. /\ cpu' = "kernel" /\ live' = live \ {current} /\ current' = current /\ next' = next
        /\ prog' = [prog EXCEPT ![current] = Nothing]
        /\ prog'[current] = Nothing /\ \A i \in Slots \ {current} : prog'[i] = prog[i]
    BY <1>1 DEF usys_exit, Exit
  <1>4. \A i \in Slots : prog[i].buf = <<>>
    BY <1>1 DEF SInv, Lines, me
  <1>5. SessionTypes'
    BY <1>1, <1>2, <1>3 DEF SInv, SessionTypes, LifeTypeOK
  <1>6. Lines' /\ Turn'
    BY <1>1, <1>2, <1>3, <1>4 DEF SInv, Lines, Turn
  <1>7. ASSUME NEW i \in live', Command(i)'
        PROVE  Waits(i)'
    <2>1. i \in live /\ i \in Slots /\ i # current /\ prog'[i] = prog[i] /\ prog[i].parent \in Slots
      BY <1>1, <1>3, <1>7 DEF Processes
    <2>2. Command(i) /\ Waits(i)
      BY <1>7, <2>1 DEF Command, SInv, Order
    <2>3. prog[i].parent # current
      BY <1>1, <2>2 DEF Waits, me
    <2> QED BY <1>1, <1>3, <2>1, <2>2, <2>3 DEF Waits, Ahead
  <1> QED BY <1>5, <1>6, <1>7 DEF SInv, Order

\* The new command is in another slot than its shell, and the shell's own is the
\* last one the scheduler comes to.
LEMMA ForkSInv ==
  ASSUME SInv, usys_fork
  PROVE  SInv'
  <1>1. /\ current \in Slots /\ me \in Processes /\ cpu = "user" /\ me.at = "fork"
        /\ prog \in [Slots -> Processes] /\ current \in live /\ live \subseteq Slots
        /\ next = (current + 1) % NUM_PROCESSES
    BY DEF usys_fork, Running, SInv, SessionTypes, LifeTypeOK, Turn, me
  <1>2. me.file # "echo" /\ \A i \in Slots : prog[i].buf = <<>>
    BY <1>1 DEF SInv, Turn, Lines, me
  <1> DEFINE r == [me EXCEPT !.at = "exec", !.parent = current]
             q == [me EXCEPT !.at = "sleep", !.argv = <<>>]
  <1>3. PICK k \in Slots : /\ Fork(k)
                           /\ prog' = [prog EXCEPT ![k] = r, ![current].at = "sleep",
                                                   ![current].argv = <<>>]
    BY DEF usys_fork
  <1>4. k \notin live /\ k # current /\ live' = live \cup {k} /\ UNCHANGED <<current, cpu, next>>
    BY <1>1, <1>3 DEF Fork, usys_fork
  <1>5. prog' = [prog EXCEPT ![k] = r, ![current] = q]
    BY <1>1, <1>3, <1>4 DEF me
  <1>6. /\ r \in Processes /\ r.at = "exec" /\ r.parent = current /\ r.file = me.file
        /\ r.buf = <<>>
    BY <1>1, <1>2 DEF Processes, me
  <1>7. /\ q \in Processes /\ q.at = "sleep" /\ q.parent = me.parent /\ q.file = me.file
        /\ q.buf = <<>>
    BY <1>1, <1>2 DEF Processes, me
  <1> HIDE DEF r, q
  <1>8. /\ prog' \in [Slots -> Processes] /\ prog'[k] = r /\ prog'[current] = q
        /\ \A i \in Slots \ {k, current} : prog'[i] = prog[i]
    BY <1>1, <1>4, <1>5, <1>6, <1>7
  <1>9. SessionTypes'
    BY <1>1, <1>4, <1>8 DEF SInv, SessionTypes, LifeTypeOK
  <1>10. Lines' /\ Turn'
    BY <1>1, <1>2, <1>4, <1>6, <1>7, <1>8 DEF SInv, Lines, Turn
  <1>11. ASSUME NEW i \in live', Command(i)'
         PROVE  Waits(i)'
    <2>1. CASE i = k
      <3>1. Ahead(next, k) < Ahead(next, current)
        BY <1>1, <1>4, Closer
      <3> QED BY <1>1, <1>4, <1>6, <1>7, <1>8, <2>1, <3>1 DEF Waits, Ahead
    <2>2. CASE i = current
      BY <1>2, <1>7, <1>8, <1>11, <2>2 DEF Command
    <2>3. CASE i \notin {k, current}
      <3>1. i \in live /\ i \in Slots /\ prog'[i] = prog[i] /\ prog[i].parent \in Slots
        BY <1>1, <1>4, <1>8, <2>3 DEF Processes
      <3>2. Command(i) /\ Waits(i)
        BY <1>11, <3>1 DEF Command, SInv, Order
      <3>3. prog[i].parent # current /\ prog[i].parent # k
        BY <1>1, <1>4, <3>2 DEF Waits, me, SInv, Turn
      <3> QED BY <1>4, <1>8, <3>1, <3>2, <3>3 DEF Waits, Ahead
    <2> QED BY <2>1, <2>2, <2>3
  <1> QED BY <1>9, <1>10, <1>11 DEF SInv, Order

LEMMA NextSInv == SInv /\ [SessionNext]_vars => SInv'
  <1> SUFFICES ASSUME SInv, [SessionNext]_vars PROVE SInv'
    OBVIOUS
  <1>1. CASE Loading
    BY <1>1, Stutter DEF Loading
  <1>2. CASE kernel_main
    BY <1>2, MainSInv
  <1>3. CASE BootPanic
    BY <1>3, StopSInv DEF BootPanic
  <1>4. CASE kproc_scheduler
    BY <1>4, SchedulerSInv
  <1>5. CASE \E c \in Letters \cup {SPACE, NL} : usys_read(c)
    BY <1>5, ReadSInv
  <1>6. CASE usys_fork
    BY <1>6, ForkSInv
  <1>7. CASE NoFreePCB
    BY <1>7, StopSInv DEF NoFreePCB
  <1>8. CASE usys_exec
    BY <1>8, ExecSInv
  <1>9. CASE usys_sleep
    BY <1>9, SleepSInv
  <1>10. CASE Prompt
    BY <1>10, PromptSInv
  <1>11. CASE usys_exit
    BY <1>11, ExitSInv
  <1>12. CASE Fault
    BY <1>12, StopSInv DEF Fault
  <1>13. CASE UNCHANGED vars \/ kpanic
    BY <1>13, Stutter DEF vars, kpanic
  <1> QED BY <1>1, <1>2, <1>3, <1>4, <1>5, <1>6, <1>7, <1>8, <1>9, <1>10, <1>11, <1>12, <1>13
          DEF SessionNext, ProgramStep

LEMMA SessionInvariant == SessionSpec => []SInv
  <1>1. SessionInit => SInv
    BY InitSInv
  <1>2. SInv /\ [SessionNext]_vars => SInv'
    BY NextSInv
  <1> QED BY <1>1, <1>2, PTL DEF SessionSpec

----------------------------------------------------------------------------
(***************************************************************************)
(* parse_buf, character by character.                                      *)
(***************************************************************************)
\* parse_buf keeps to its limit.
Parsers ==
  {s \in [argv : Seq(Seq(Chars)), word : Seq(Chars), done : BOOLEAN] :
     /\ Len(s.argv) <= MAX_CMD_ARGS
     /\ s.word # <<>> => Len(s.argv) < MAX_CMD_ARGS}

StartParse == [argv |-> <<>>, word |-> <<>>, done |-> FALSE]

LEMMA EndWordType ==
  ASSUME NEW s \in Parsers
  PROVE  EndWord(s) \in Parsers /\ EndWord(s).word = <<>>
  <1>1. CASE s.word = <<>>
    BY <1>1 DEF EndWord
  <1>2. CASE s.word # <<>>
    <2> DEFINE a == Append(s.argv, s.word)
    <2>1. a \in Seq(Seq(Chars)) /\ Len(a) = Len(s.argv) + 1 /\ Len(s.argv) \in Nat
      BY DEF Parsers
    <2>2. Len(a) <= MAX_CMD_ARGS
      BY <1>2, <2>1, ShellAssumption DEF Parsers
    <2>3. EndWord(s) = [s EXCEPT !.argv = a, !.word = <<>>]
      BY <1>2 DEF EndWord
    <2> HIDE DEF a
    <2>4. EndWord(s) = [argv |-> a, word |-> <<>>, done |-> s.done]
      BY <2>3 DEF Parsers
    <2> QED BY <2>1, <2>2, <2>4 DEF Parsers
  <1> QED BY <1>1, <1>2

LEMMA ParseCharType ==
  ASSUME NEW s \in Parsers, NEW c \in Chars
  PROVE  ParseChar(s, c) \in Parsers
  <1>1. CASE s.done
    BY <1>1 DEF ParseChar
  <1>2. CASE ~s.done /\ c = SPACE
    BY <1>2, EndWordType DEF ParseChar
  <1>3. CASE ~s.done /\ c # SPACE /\ TooMany(s.argv)
    <2>1. ParseChar(s, c) = [s EXCEPT !.argv = <<>>, !.done = TRUE]
      BY <1>3 DEF ParseChar
    <2>2. ParseChar(s, c) = [argv |-> <<>>, word |-> s.word, done |-> TRUE]
      BY <2>1 DEF Parsers
    <2> QED BY <2>2, ShellAssumption DEF Parsers
  <1>4. CASE ~s.done /\ c # SPACE /\ ~TooMany(s.argv) /\ c = NUL
    <2> DEFINE e == EndWord(s)
    <2>1. ParseChar(s, c) = [e EXCEPT !.done = TRUE]
      BY <1>4 DEF ParseChar
    <2>2. e \in Parsers
      BY EndWordType
    <2> HIDE DEF e
    <2>3. ParseChar(s, c) = [argv |-> e.argv, word |-> e.word, done |-> TRUE]
      BY <2>1, <2>2 DEF Parsers
    <2> QED BY <2>2, <2>3 DEF Parsers
  <1>5. CASE ~s.done /\ c # SPACE /\ ~TooMany(s.argv) /\ c # NUL
    <2>1. ParseChar(s, c) = [s EXCEPT !.word = Append(@, c)]
      BY <1>5 DEF ParseChar
    <2>2. ParseChar(s, c) = [argv |-> s.argv, word |-> Append(s.word, c), done |-> s.done]
      BY <2>1 DEF Parsers
    <2>3. Append(s.word, c) \in Seq(Chars) /\ Len(s.argv) < MAX_CMD_ARGS
      BY <1>5, ShellAssumption DEF Parsers, TooMany
    <2> QED BY <2>2, <2>3 DEF Parsers
  <1> QED BY <1>1, <1>2, <1>3, <1>4, <1>5

\* The states parse_buf goes through, character by character.
Parses(p, line) ==
  /\ p \in [0 .. Len(line) -> Parsers]
  /\ p[0] = StartParse
  /\ \A k \in 1 .. Len(line) : p[k] = ParseChar(p[k - 1], line[k])

LEMMA ParseSteps ==
  ASSUME NEW line \in Seq(Chars)
  PROVE  \E p : Parses(p, line) /\ parse_buf(line) = p[Len(line)].argv
  <1> DEFINE n == Len(line)
             step == [k \in 1 .. n |-> [s \in Parsers |-> ParseChar(s, line[k])]]
             Is(it) == it = [s \in SUBSET DOMAIN line |->
                               IF s = {} THEN [argv |-> <<>>, word |-> <<>>, done |-> FALSE]
                               ELSE ParseChar(it[s \ {Max(s)}], line[Max(s)])]
             c == CHOOSE it : Is(it)
  <1>1. n \in Nat /\ DOMAIN line = 1 .. n /\ \A k \in 1 .. n : line[k] \in Chars
    OBVIOUS
  <1>2. step \in [1 .. n -> [Parsers -> Parsers]]
    BY <1>1, ParseCharType
  <1>3. StartParse \in Parsers
    BY ShellAssumption DEF StartParse, Parsers
  <1>4. parse_buf(line) = c[DOMAIN line].argv
    BY Zenon DEF parse_buf, FoldLeft, MapThenFoldSet
  <1>5. PICK it \in [SUBSET (1 .. n) -> Parsers] : FoldOver(it, StartParse, n, step)
    <2> HIDE DEF step, n
    <2> QED BY <1>1, <1>2, <1>3, FoldExists
  <1>6. Is(it)
    <2> SUFFICES \A s \in SUBSET (1 .. n) :
                   it[s] = IF s = {} THEN [argv |-> <<>>, word |-> <<>>, done |-> FALSE]
                           ELSE ParseChar(it[s \ {Max(s)}], line[Max(s)])
      BY <1>1
    <2> TAKE s \in SUBSET (1 .. n)
    <2>1. it[s] = IF s = {} THEN StartParse ELSE step[Max(s)][it[s \ {Max(s)}]]
      <3> HIDE DEF step
      <3> QED BY <1>5 DEF FoldOver
    <2>2. s # {} => Max(s) \in 1 .. n /\ it[s \ {Max(s)}] \in Parsers
      BY <1>1, MaxFacts
    <2>3. s # {} => step[Max(s)][it[s \ {Max(s)}]] = ParseChar(it[s \ {Max(s)}], line[Max(s)])
      BY <2>2
    <2> QED BY <2>1, <2>3 DEF StartParse
  <1>7. Is(c)
    BY <1>6
  <1> HIDE DEF c, n
  <1>8. /\ c[1 .. 0] = StartParse
        /\ \A k \in 1 .. n : c[1 .. k] = ParseChar(c[1 .. (k - 1)], line[k])
    <2>1. 1 .. 0 = {} /\ {} \in SUBSET (1 .. n)
      OBVIOUS
    <2>2. \A s \in SUBSET (1 .. n) :
            c[s] = IF s = {} THEN StartParse ELSE ParseChar(c[s \ {Max(s)}], line[Max(s)])
      BY <1>1, <1>7 DEF StartParse
    <2>3. ASSUME NEW k \in 1 .. n
          PROVE  c[1 .. k] = ParseChar(c[1 .. (k - 1)], line[k])
      <3>1. /\ 1 .. k \in SUBSET (1 .. n) /\ 1 .. k # {}
            /\ Max(1 .. k) = k /\ (1 .. k) \ {k} = 1 .. (k - 1)
        BY <1>1, PrefixFacts
      <3> QED BY <2>2, <3>1
    <2> QED BY <2>1, <2>2, <2>3
  <1> DEFINE p == [k \in 0 .. n |-> c[1 .. k]]
  <1>9. p[0] = StartParse /\ \A k \in 1 .. n : p[k] = ParseChar(p[k - 1], line[k])
    BY <1>1, <1>8
  <1>10. \A k \in 0 .. n : p[k] \in Parsers
    <2> HIDE DEF p, n
    <2>1. \A k \in 1 .. n : p[k - 1] \in Parsers => p[k] \in Parsers
      BY <1>1, <1>9, ParseCharType
    <2> QED BY <1>1, <1>3, <1>9, <2>1, Throughout
  <1>11. p[n] = c[DOMAIN line] /\ p \in [0 .. n -> Parsers]
    BY <1>1, <1>10
  <1> HIDE DEF p
  <1> QED BY <1>4, <1>9, <1>11 DEF Parses, n

\* A command has at most MAX_CMD_ARGS words.
LEMMA ParseType ==
  ASSUME NEW line \in Seq(Chars)
  PROVE  parse_buf(line) \in Seq(Seq(Chars)) /\ Len(parse_buf(line)) <= MAX_CMD_ARGS
  <1>1. PICK p : Parses(p, line) /\ parse_buf(line) = p[Len(line)].argv
    BY ParseSteps
  <1>2. p[Len(line)] \in Parsers
    BY <1>1 DEF Parses
  <1> QED BY <1>1, <1>2 DEF Parsers

----------------------------------------------------------------------------
(***************************************************************************)
(* The words that parse_buf finds are those of the line.                   *)
(***************************************************************************)
\* The place of an end of a word among the ends.
Rank(ends, e) == Cardinality({d \in ends : d <= e})

\* The words are the runs that stop at the ends, in their order.
Lists(words, ends, run) ==
  /\ Len(words) = Cardinality(ends)
  /\ \A e \in ends : words[Rank(ends, e)] = run[e]
  /\ \A k \in 1 .. Len(words) : \E e \in ends : Rank(ends, e) = k

LEMMA ListsNone ==
  ASSUME NEW run
  PROVE  Lists(<<>>, {}, run)
  BY FS_EmptySet DEF Lists

\* One more end, behind the others, is one more word.
LEMMA ListsOneMore ==
  ASSUME NEW V, NEW words \in Seq(V), NEW ends, NEW run, NEW n \in Nat, NEW w \in V,
         ends \subseteq 1 .. n - 1, Lists(words, ends, run), n > 0, run[n] = w
  PROVE  Lists(Append(words, w), ends \cup {n}, run)
  <1> DEFINE more == ends \cup {n}
             a == Append(words, w)
  <1>1. IsFiniteSet(ends) /\ Cardinality(ends) \in Nat /\ Len(words) = Cardinality(ends)
    <2>1. IsFiniteSet(1 .. n - 1)
      BY FS_Interval
    <2>2. IsFiniteSet(ends)
      BY <2>1, FS_Subset
    <2> QED BY <2>2, FS_CardinalityType DEF Lists
  <1>0. n \notin ends /\ \A e \in ends : e \in Int /\ e <= n
    OBVIOUS
  <1>2. Cardinality(more) = Cardinality(ends) + 1
    BY <1>0, <1>1, FS_AddElement
  <1>3. Len(a) = Len(words) + 1 /\ a[Len(words) + 1] = w /\ Len(words) \in Nat
        /\ \A k \in 1 .. Len(words) : a[k] = words[k]
    OBVIOUS
  <1>4. Rank(more, n) = Len(words) + 1
    <2>0. \A d \in more : d <= n
      BY <1>0
    <2>1. {d \in more : d <= n} = more
      BY <2>0
    <2> QED BY <1>1, <1>2, <2>1 DEF Rank
  <1>5. ASSUME NEW e \in ends
        PROVE  Rank(more, e) = Rank(ends, e) /\ Rank(ends, e) \in 1 .. Len(words)
    <2>1. {d \in more : d <= e} = {d \in ends : d <= e}
      OBVIOUS
    <2> DEFINE s == {d \in ends : d <= e}
    <2>2. Rank(more, e) = Cardinality(s) /\ Rank(ends, e) = Cardinality(s)
      BY <2>1, Zenon DEF Rank
    <2>4. s \in SUBSET ends /\ e \in s
      BY <1>0
    <2> HIDE DEF s
    <2>3. Cardinality(s) \in Nat /\ Cardinality(s) <= Cardinality(ends) /\ Cardinality(s) # 0
      <3>1. IsFiniteSet(s) /\ Cardinality(s) <= Cardinality(ends)
        BY <1>1, <2>4, FS_Subset
      <3> QED BY <2>4, <3>1, FS_CardinalityType, FS_EmptySet
    <2> QED BY <1>1, <2>2, <2>3
  <1> HIDE DEF a, more
  <1>6. \A e \in more : a[Rank(more, e)] = run[e]
    BY <1>3, <1>4, <1>5 DEF more, Lists
  <1>7. ASSUME NEW k \in 1 .. Len(a)
        PROVE  \E e \in more : Rank(more, e) = k
    <2>1. CASE k = Len(words) + 1
      BY <1>4, <2>1 DEF more
    <2>2. CASE k \in 1 .. Len(words)
      BY <1>5, <2>2 DEF more, Lists
    <2> QED BY <1>3, <2>1, <2>2
  <1>8. Lists(a, more, run)
    BY <1>1, <1>2, <1>3, <1>6, <1>7 DEF Lists
  <1> QED BY <1>8 DEF a, more

----------------------------------------------------------------------------
\* The parts of WordsOf.
Nuls(line) == {i \in DOMAIN line : line[i] = NUL}
Size(line) == IF Nuls(line) = {} THEN Len(line) ELSE Min(Nuls(line)) - 1
Letter(line, i) == i \in 1 .. Size(line) /\ line[i] # SPACE
Ends(line, n) == {e \in 1 .. Size(line) : e <= n /\ Letter(line, e) /\ ~Letter(line, e + 1)}
Begins(line, b, e) == ~Letter(line, b - 1) /\ \A i \in b .. e : Letter(line, i)
First(line, e) == CHOOSE b \in 1 .. e : Begins(line, b, e)
Run(line) == [e \in 1 .. Size(line) |-> SubSeq(line, First(line, e), e)]

LEMMA SizeFacts ==
  ASSUME NEW line \in Seq(Chars)
  PROVE  /\ Size(line) \in 0 .. Len(line)
         /\ \A i \in 1 .. Size(line) : line[i] # NUL
         /\ Nuls(line) # {} => Size(line) + 1 \in 1 .. Len(line) /\ line[Size(line) + 1] = NUL
  <1>1. CASE Nuls(line) = {}
    BY <1>1 DEF Size, Nuls
  <1>2. CASE Nuls(line) # {}
    <2>1. Nuls(line) \in SUBSET (1 .. Len(line)) /\ Len(line) \in Nat
      BY DEF Nuls
    <2> DEFINE m == Min(Nuls(line))
    <2>2. m \in Nuls(line) /\ \A i \in Nuls(line) : m <= i
      <3>1. Nuls(line) \in SUBSET Nat
        BY <2>1
      <3> QED BY <1>2, <3>1, MinFacts
    <2>3. Size(line) = m - 1
      BY <1>2 DEF Size
    <2> HIDE DEF m
    <2> QED BY <1>2, <2>1, <2>2, <2>3 DEF Nuls
  <1> QED BY <1>1, <1>2

\* Every letter is in a run, and the run begins in one place.
LEMMA FirstFacts ==
  ASSUME NEW line \in Seq(Chars), NEW e \in 1 .. Size(line), Letter(line, e)
  PROVE  First(line, e) \in 1 .. e /\ Begins(line, First(line, e), e)
  <1> DEFINE n == Size(line)
             T == {k \in 0 .. n : Letter(line, k) => \E b \in 1 .. k : Begins(line, b, k)}
  <1>1. n \in Nat
    BY SizeFacts
  <1>2. 0 \in T
    BY <1>1 DEF Letter
  <1>3. ASSUME NEW k \in 1 .. n, k - 1 \in T
        PROVE  k \in T
    <2> SUFFICES ASSUME Letter(line, k) PROVE \E b \in 1 .. k : Begins(line, b, k)
      BY <1>1
    <2>1. CASE ~Letter(line, k - 1)
      BY <2>1 DEF Begins
    <2>2. CASE Letter(line, k - 1)
      <3>1. PICK b \in 1 .. k - 1 : Begins(line, b, k - 1)
        BY <1>1, <1>3, <2>2
      <3> QED BY <1>1, <3>1 DEF Begins
    <2> QED BY <2>1, <2>2
  <1> HIDE DEF n
  <1>4. \A k \in 0 .. n : k \in T
    <2> HIDE DEF T
    <2> QED BY <1>1, <1>2, <1>3, UpTo
  <1>5. \E b \in 1 .. e : Begins(line, b, e)
    BY <1>1, <1>4 DEF n
  <1> QED BY <1>5 DEF First

LEMMA FirstUnique ==
  ASSUME NEW line \in Seq(Chars), NEW e \in 1 .. Size(line), Letter(line, e),
         NEW b \in 1 .. e, Begins(line, b, e)
  PROVE  First(line, e) = b
  <1>1. First(line, e) \in 1 .. e /\ Begins(line, First(line, e), e)
    BY FirstFacts
  <1>2. Size(line) \in Nat
    BY SizeFacts
  <1> DEFINE f == First(line, e)
  <1> HIDE DEF f
  <1>3. f \in Int /\ b \in Int /\ e \in Int
    BY <1>1, <1>2 DEF f
  <1>4. ~(f < b) /\ ~(b < f)
    BY <1>1, <1>2, <1>3 DEF Begins, f
  <1> QED BY <1>3, <1>4 DEF f

\* A run grows with every letter.
LEMMA RunGrows ==
  ASSUME NEW line \in Seq(Chars), NEW k \in 1 .. Size(line), Letter(line, k)
  PROVE  /\ Run(line)[k] \in Seq(Chars) /\ Run(line)[k] # <<>>
         /\ Run(line)[k] = Append(IF Letter(line, k - 1) THEN Run(line)[k - 1] ELSE <<>>, line[k])
  <1>1. Size(line) \in Nat /\ Size(line) <= Len(line) /\ Len(line) \in Nat /\ k \in 1 .. Len(line)
    BY SizeFacts
  <1> DEFINE f == First(line, k)
             r == SubSeq(line, f, k)
  <1>2. f \in 1 .. k /\ Begins(line, f, k) /\ Run(line)[k] = r
    BY FirstFacts DEF Run
  <1> HIDE DEF f
  <1>3. r \in Seq(Chars) /\ Len(r) = k - f + 1 /\ \A i \in 1 .. Len(r) : r[i] = line[f + i - 1]
    BY <1>1, <1>2
  <1>4. CASE ~Letter(line, k - 1)
    <2>1. First(line, k) = k
      BY <1>4, FirstUnique DEF Begins
    <2> QED BY <1>1, <1>2, <1>3, <1>4, <2>1 DEF f
  <1>5. CASE Letter(line, k - 1)
    <2>1. f # k
      BY <1>2, <1>5 DEF Begins
    <2>2. k - 1 \in 1 .. Size(line) /\ f \in 1 .. k - 1 /\ Begins(line, f, k - 1)
      BY <1>1, <1>2, <1>5, <2>1 DEF Begins
    <2>3. First(line, k - 1) = f
      BY <1>5, <2>2, FirstUnique
    <2> DEFINE s == SubSeq(line, f, k - 1)
    <2>4. Run(line)[k - 1] = s
      BY <2>2, <2>3 DEF Run
    <2>5. s \in Seq(Chars) /\ Len(s) = k - f /\ \A i \in 1 .. Len(s) : s[i] = line[f + i - 1]
      BY <1>1, <1>2, <2>2
    <2> HIDE DEF s, r
    <2>6. r = Append(s, line[k])
      <3>1. Append(s, line[k]) \in Seq(Chars) /\ Len(Append(s, line[k])) = Len(r)
        <4>1. line[k] \in Chars
          BY <1>1
        <4>2. Append(s, line[k]) \in Seq(Chars) /\ Len(Append(s, line[k])) = Len(s) + 1
          BY <2>5, <4>1, AppendProperties
        <4>3. k \in Int /\ f \in Int
          BY <1>1, <1>2
        <4> QED BY <1>3, <2>5, <4>2, <4>3
      <3>2. ASSUME NEW i \in 1 .. Len(r)
            PROVE  Append(s, line[k])[i] = r[i]
        <4>1. line[k] \in Chars /\ k \in Int /\ f \in Int
          BY <1>1, <1>2
        <4>2. /\ \A j \in 1 .. Len(s) : Append(s, line[k])[j] = s[j]
              /\ Append(s, line[k])[Len(s) + 1] = line[k]
          BY <2>5, <4>1, AppendProperties
        <4>3. i \in Int /\ (i \in 1 .. Len(s) \/ i = Len(s) + 1)
          BY <1>3, <2>5, <4>1
        <4>4. r[i] = line[f + i - 1]
          BY <1>3
        <4>5. CASE i \in 1 .. Len(s)
          BY <2>5, <4>2, <4>4, <4>5
        <4>6. CASE i = Len(s) + 1
          <5>1. f + i - 1 = k
            BY <2>5, <4>1, <4>3, <4>6
          <5> QED BY <4>2, <4>4, <4>6, <5>1
        <4> QED BY <4>3, <4>5, <4>6
      <3> QED BY <1>3, <3>1, <3>2, SeqEqual
    <2> QED BY <1>2, <1>3, <1>5, <2>2, <2>4, <2>6
  <1> QED BY <1>4, <1>5

\* The ends of the words that a line holds complete.
WholeEnds(line) == IF Nuls(line) = {} THEN Ends(line, Size(line) - 1) ELSE Ends(line, Size(line))

LEMMA EndsFacts ==
  ASSUME NEW line \in Seq(Chars), NEW n \in 0 .. Size(line)
  PROVE  /\ Ends(line, n) \subseteq 1 .. n /\ Ends(line, n - 1) \subseteq 1 .. n - 1
         /\ IF Letter(line, n) /\ ~Letter(line, n + 1)
            THEN Ends(line, n) = Ends(line, n - 1) \cup {n}
            ELSE Ends(line, n) = Ends(line, n - 1)
  <1>1. Size(line) \in Nat
    BY SizeFacts
  <1>2. \A e \in Ends(line, n) : e \in 1 .. n
    BY <1>1 DEF Ends
  <1>3. \A e \in Ends(line, n - 1) : e \in 1 .. n - 1 /\ e \in Ends(line, n)
    BY <1>1 DEF Ends
  <1>4. \A e \in Ends(line, n) : e = n \/ e \in Ends(line, n - 1)
    BY <1>1 DEF Ends
  <1>5. n \in Ends(line, n) <=> Letter(line, n) /\ ~Letter(line, n + 1)
    BY <1>1 DEF Ends, Letter
  <1> QED BY <1>2, <1>3, <1>4, <1>5

LEMMA EndsCount ==
  ASSUME NEW line \in Seq(Chars), NEW n \in Int,
         n < Size(line) \/ (n = Size(line) /\ Nuls(line) # {})
  PROVE  /\ IsFiniteSet(Ends(line, n)) /\ Cardinality(Ends(line, n)) \in Nat
         /\ Cardinality(WholeEnds(line)) \in Nat
         /\ Cardinality(Ends(line, n)) <= Cardinality(WholeEnds(line))
  <1>1. Size(line) \in Nat
    BY SizeFacts
  <1>2. IsFiniteSet(1 .. Size(line))
    BY <1>1, FS_Interval
  <1>3. WholeEnds(line) \in SUBSET (1 .. Size(line)) /\ Ends(line, n) \in SUBSET WholeEnds(line)
    BY <1>1 DEF WholeEnds, Ends
  <1>4. IsFiniteSet(WholeEnds(line))
    BY <1>2, <1>3, FS_Subset
  <1>5. IsFiniteSet(Ends(line, n)) /\ Cardinality(Ends(line, n)) <= Cardinality(WholeEnds(line))
    BY <1>3, <1>4, FS_Subset
  <1> QED BY <1>4, <1>5, FS_CardinalityType

\* Where the parser is after n characters: it has the words that ended before,
\* and what it has read of the next.
Parsed(s, line, n) ==
  /\ ~s.done
  /\ s.word = IF Letter(line, n) THEN Run(line)[n] ELSE <<>>
  /\ Lists(s.argv, Ends(line, n - 1), Run(line))

\* Or it has given up, which it does only of a line with too many words.
Refused(s, line) ==
  s.done /\ s.argv = <<>> /\ Cardinality(WholeEnds(line)) >= MAX_CMD_ARGS

\* The word that ends, if there is one, joins the others.
LEMMA EndWordLists ==
  ASSUME NEW line \in Seq(Chars), NEW n \in 0 .. Size(line), NEW s \in Parsers,
         Parsed(s, line, n), ~Letter(line, n + 1)
  PROVE  /\ Lists(EndWord(s).argv, Ends(line, n), Run(line)) /\ EndWord(s).word = <<>>
         /\ EndWord(s).done = s.done
  <1>1. Size(line) \in Nat
    BY SizeFacts
  <1>2. CASE Letter(line, n)
    <2>1. n \in 1 .. Size(line) /\ s.word = Run(line)[n] /\ s.word # <<>> /\ s.word \in Seq(Chars)
      BY <1>1, <1>2, RunGrows DEF Parsed, Letter
    <2>2. /\ Ends(line, n) = Ends(line, n - 1) \cup {n} /\ Ends(line, n - 1) \subseteq 1 .. n - 1
      BY <1>2, EndsFacts
    <2>3. /\ EndWord(s).argv = Append(s.argv, s.word) /\ EndWord(s).word = <<>>
          /\ EndWord(s).done = s.done
      BY <2>1 DEF EndWord, Parsers
    <2>4. s.argv \in Seq(Seq(Chars)) /\ Lists(s.argv, Ends(line, n - 1), Run(line))
      BY DEF Parsers, Parsed
    <2>5. n \in Nat /\ n > 0
      BY <1>1, <2>1
    <2>6. Lists(Append(s.argv, s.word), Ends(line, n - 1) \cup {n}, Run(line))
      BY <2>1, <2>2, <2>4, <2>5, ListsOneMore
    <2> QED BY <2>2, <2>3, <2>6
  <1>3. CASE ~Letter(line, n)
    <2>1. Ends(line, n) = Ends(line, n - 1)
      BY <1>3, EndsFacts
    <2>2. s.word = <<>>
      BY <1>3 DEF Parsed
    <2> QED BY <2>1, <2>2 DEF EndWord, Parsed
  <1> QED BY <1>2, <1>3

LEMMA ParsedStep ==
  ASSUME NEW line \in Seq(Chars), NEW n \in 1 .. Size(line), NEW s \in Parsers,
         Parsed(s, line, n - 1)
  PROVE  LET t == ParseChar(s, line[n]) IN Parsed(t, line, n) \/ Refused(t, line)
  <1>1. Size(line) \in Nat /\ n - 1 \in 0 .. Size(line) /\ (n - 1) + 1 = n /\ line[n] # NUL
    BY SizeFacts
  <1>2. s.argv \in Seq(Seq(Chars)) /\ Len(s.argv) = Cardinality(Ends(line, n - 2))
        /\ (n - 1) - 1 = n - 2
    BY <1>1 DEF Parsers, Parsed, Lists
  <1> DEFINE t == ParseChar(s, line[n])
  <1>3. CASE line[n] = SPACE
    <2>1. ~Letter(line, n) /\ t = EndWord(s)
      BY <1>3 DEF Letter, ParseChar, Parsed
    <2>2. /\ Lists(EndWord(s).argv, Ends(line, n - 1), Run(line)) /\ EndWord(s).word = <<>>
          /\ EndWord(s).done = s.done
      BY <1>1, <2>1, EndWordLists
    <2> QED BY <2>1, <2>2 DEF Parsed
  <1>4. CASE line[n] # SPACE /\ TooMany(s.argv)
    <2>1. t = [s EXCEPT !.argv = <<>>, !.done = TRUE]
      BY <1>4 DEF ParseChar, Parsed
    <2>2. t.done /\ t.argv = <<>>
      BY <2>1 DEF Parsers
    <2>3. n - 2 \in Int /\ n - 2 < Size(line)
      BY <1>1
    <2>4. Cardinality(Ends(line, n - 2)) <= Cardinality(WholeEnds(line))
          /\ Cardinality(Ends(line, n - 2)) \in Nat /\ Cardinality(WholeEnds(line)) \in Nat
      BY <2>3, EndsCount
    <2> QED BY <1>2, <1>4, <2>2, <2>4, ShellAssumption DEF Refused, TooMany
  <1>5. CASE line[n] # SPACE /\ ~TooMany(s.argv)
    <2>1. t = [s EXCEPT !.word = Append(@, line[n])]
      BY <1>1, <1>5 DEF ParseChar, Parsed
    <2>2. t.done = s.done /\ t.argv = s.argv /\ t.word = Append(s.word, line[n])
      BY <2>1 DEF Parsers
    <2>3. Letter(line, n)
      BY <1>5 DEF Letter
    <2>4. Ends(line, n - 1) = Ends(line, n - 2)
      BY <1>1, <1>2, <2>3, EndsFacts
    <2>5. Run(line)[n] = Append(s.word, line[n])
      BY <2>3, RunGrows DEF Parsed
    <2> HIDE DEF t
    <2>6. Lists(t.argv, Ends(line, n - 1), Run(line)) /\ ~t.done
      BY <1>2, <2>2, <2>4 DEF Parsed
    <2>7. Parsed(t, line, n)
      BY <2>2, <2>3, <2>5, <2>6 DEF Parsed
    <2> QED BY <2>7 DEF t
  <1> QED BY <1>3, <1>4, <1>5

\* The NUL ends the last word, or the line is refused.
LEMMA ParsedEnd ==
  ASSUME NEW line \in Seq(Chars), Nuls(line) # {}, NEW s \in Parsers,
         Parsed(s, line, Size(line))
  PROVE  LET t == ParseChar(s, NUL) IN
         t.done /\ (Lists(t.argv, WholeEnds(line), Run(line)) \/ Refused(t, line))
  <1> DEFINE n == Size(line)
             t == ParseChar(s, NUL)
  <1>1. n \in Nat /\ NUL # SPACE /\ WholeEnds(line) = Ends(line, n)
    BY SizeFacts DEF NUL, SPACE, WholeEnds
  <1>2. s.argv \in Seq(Seq(Chars)) /\ Len(s.argv) = Cardinality(Ends(line, n - 1))
    BY <1>1 DEF Parsers, Parsed, Lists
  <1>4. CASE TooMany(s.argv)
    <2>1. t = [s EXCEPT !.argv = <<>>, !.done = TRUE]
      BY <1>1, <1>4 DEF ParseChar, Parsed
    <2>2. t.done /\ t.argv = <<>>
      BY <2>1 DEF Parsers
    <2>3. n - 1 \in Int /\ n - 1 < n
      BY <1>1
    <2>4. Cardinality(Ends(line, n - 1)) <= Cardinality(WholeEnds(line))
          /\ Cardinality(Ends(line, n - 1)) \in Nat /\ Cardinality(WholeEnds(line)) \in Nat
      BY <2>3, EndsCount
    <2> QED BY <1>2, <1>4, <2>2, <2>4, ShellAssumption DEF Refused, TooMany
  <1>5. CASE ~TooMany(s.argv)
    <2>1. t = [EndWord(s) EXCEPT !.done = TRUE] /\ EndWord(s) \in Parsers
      BY <1>1, <1>5, EndWordType DEF ParseChar, Parsed
    <2>2. t.done /\ t.argv = EndWord(s).argv
      BY <2>1 DEF Parsers
    <2>3. n \in 0 .. Size(line) /\ ~Letter(line, n + 1)
      BY <1>1 DEF Letter
    <2>4. Lists(EndWord(s).argv, Ends(line, n), Run(line))
      BY <2>3, EndWordLists
    <2> QED BY <1>1, <2>2, <2>4
  <1> QED BY <1>4, <1>5

\* The parser gives up, or ends with the words of the line.
LEMMA ParsedLine ==
  ASSUME NEW line \in Seq(Chars)
  PROVE  LET argv == parse_buf(line) IN
         \/ Lists(argv, WholeEnds(line), Run(line))
         \/ argv = <<>> /\ Cardinality(WholeEnds(line)) >= MAX_CMD_ARGS
  <1> DEFINE n == Size(line)
             m == Len(line)
  <1>1. PICK p : Parses(p, line) /\ parse_buf(line) = p[m].argv
    BY ParseSteps
  <1>2. /\ p[0] = StartParse /\ \A k \in 0 .. m : p[k] \in Parsers
        /\ \A k \in 1 .. m : p[k] = ParseChar(p[k - 1], line[k])
    BY <1>1 DEF Parses
  <1>3. n \in 0 .. m /\ m \in Nat /\ n \in Nat
    BY SizeFacts
  <1> DEFINE T == {k \in 0 .. n : Parsed(p[k], line, k) \/ Refused(p[k], line)}
  <1>4. 0 \in T
    <2>1. Ends(line, 0 - 1) = {}
      BY <1>3 DEF Ends
    <2>2. Lists(<<>>, {}, Run(line))
      BY ListsNone
    <2>3. ~Letter(line, 0)
      BY DEF Letter
    <2>4. /\ StartParse.done = FALSE /\ StartParse.word = <<>> /\ StartParse.argv = <<>>
          /\ 0 \in 0 .. n
      BY <1>3 DEF StartParse
    <2>5. Parsed(p[0], line, 0)
      BY <1>2, <2>1, <2>2, <2>3, <2>4 DEF Parsed
    <2> QED BY <2>4, <2>5
  <1>5. ASSUME NEW k \in 1 .. n, k - 1 \in T
        PROVE  k \in T
    <2>1. /\ p[k - 1] \in Parsers /\ p[k] = ParseChar(p[k - 1], line[k]) /\ k \in 0 .. n
      BY <1>2, <1>3
    <2>2. CASE Parsed(p[k - 1], line, k - 1)
      BY <2>1, <2>2, ParsedStep
    <2>3. CASE Refused(p[k - 1], line)
      BY <2>1, <2>3 DEF Refused, ParseChar
    <2> QED BY <1>5, <2>2, <2>3
  <1>6. Parsed(p[n], line, n) \/ Refused(p[n], line)
    <2> HIDE DEF T
    <2>1. n \in T
      BY <1>3, <1>4, <1>5, UpTo
    <2> QED BY <2>1 DEF T
  <1>7. CASE Nuls(line) = {}
    <2>1. n = m /\ WholeEnds(line) = Ends(line, n - 1)
      BY <1>7 DEF Size, WholeEnds
    <2> QED BY <1>1, <1>6, <2>1 DEF Parsed, Refused
  <1>8. CASE Nuls(line) # {}
    <2>1. n + 1 \in 1 .. m /\ line[n + 1] = NUL
      BY <1>8, SizeFacts
    <2> DEFINE t == p[n + 1]
    <2>2. t = ParseChar(p[n], NUL) /\ p[n] \in Parsers
      <3>1. (n + 1) - 1 = n
        BY <1>3
      <3> QED BY <1>2, <1>3, <2>1, <3>1
    <2>3. t.done /\ (Lists(t.argv, WholeEnds(line), Run(line)) \/ Refused(t, line))
      <3>1. CASE Parsed(p[n], line, n)
        BY <1>8, <2>2, <3>1, ParsedEnd
      <3>2. CASE Refused(p[n], line)
        BY <2>2, <3>2 DEF Refused, ParseChar
      <3> QED BY <1>6, <3>1, <3>2
    <2> DEFINE U == {k \in 0 .. m : k > n => p[k] = t}
    <2>4. 0 \in U
      BY <1>3
    <2>5. ASSUME NEW k \in 1 .. m, k - 1 \in U
          PROVE  k \in U
      <3> HIDE DEF t
      <3>1. p[k] = ParseChar(p[k - 1], line[k])
        BY <1>2
      <3>2. CASE k = n + 1
        BY <1>3, <3>2 DEF t
      <3>3. CASE k - 1 > n
        BY <1>3, <2>3, <2>5, <3>1, <3>3 DEF ParseChar
      <3>4. CASE k <= n
        BY <1>3, <3>4
      <3> QED BY <1>3, <3>2, <3>3, <3>4
    <2>6. p[m] = t
      <3> HIDE DEF U, t, m, n
      <3>1. m \in U
        BY <1>3, <2>4, <2>5, UpTo
      <3> QED BY <1>3, <2>1, <3>1 DEF U
    <2> QED BY <1>1, <2>3, <2>6 DEF Refused
  <1> QED BY <1>7, <1>8

\* WordsOf, in these parts.
LEMMA WordsForm ==
  ASSUME NEW line \in Seq(Chars)
  PROVE  LET W == WholeEnds(line)
             End(k) == CHOOSE e \in W : Cardinality({d \in W : d <= e}) = k
         IN WordsOf(line) =
              [k \in 1 .. Cardinality(W) |-> SubSeq(line, First(line, End(k)), End(k))]
  <1> DEFINE W == WholeEnds(line)
             End(k) == CHOOSE e \in W : Cardinality({d \in W : d <= e}) = k
  <1> SUFFICES WordsOf(line) =
                 [k \in 1 .. Cardinality(W) |-> SubSeq(line, First(line, End(k)), End(k))]
    BY Zenon
  <1>0. Size(line) \in Nat
    BY SizeFacts
  <1> DEFINE nuls == {i \in DOMAIN line : line[i] = NUL}
             size == IF nuls = {} THEN Len(line) ELSE Min(nuls) - 1
             letter(i) == i \in 1 .. size /\ line[i] # SPACE
             ends == {e \in 1 .. size : letter(e) /\ ~letter(e + 1)}
             whole == IF nuls = {} THEN ends \ {size} ELSE ends
             first(e) == CHOOSE b \in 1 .. e : ~letter(b - 1) /\ \A i \in b .. e : letter(i)
  <1>1. /\ nuls = Nuls(line) /\ size = Size(line)
        /\ \A i : letter(i) = Letter(line, i)
        /\ \A e : first(e) = First(line, e)
    BY Zenon DEF Nuls, Size, Letter, First, Begins
  <1>2. WordsOf(line) =
          [k \in 1 .. Cardinality(whole) |->
             LET e == CHOOSE e \in whole : Cardinality({d \in whole : d <= e}) = k
             IN SubSeq(line, first(e), e)]
    BY Zenon DEF WordsOf
  <1>3. whole = W
    <2> HIDE DEF nuls, size, letter
    <2>1. ends = Ends(line, Size(line))
      BY <1>0, <1>1 DEF Ends
    <2>2. Ends(line, Size(line)) \ {Size(line)} = Ends(line, Size(line) - 1)
      BY <1>0 DEF Ends
    <2> QED BY <1>1, <2>1, <2>2 DEF WholeEnds
  <1> HIDE DEF nuls, size, letter, ends, whole, first, W
  <1> QED BY <1>1, <1>2, <1>3, Zenon

\* WordsOf lists the runs in the same order.
LEMMA ListsAreWords ==
  ASSUME NEW line \in Seq(Chars), NEW words \in Seq(Seq(Chars)),
         Lists(words, WholeEnds(line), Run(line))
  PROVE  words = WordsOf(line)
  <1> DEFINE W == WholeEnds(line)
             End(k) == CHOOSE e \in W : Cardinality({d \in W : d <= e}) = k
  <1>1. Size(line) \in Nat
    BY SizeFacts
  <1>2. WordsOf(line) =
          [k \in 1 .. Cardinality(W) |-> SubSeq(line, First(line, End(k)), End(k))]
    BY WordsForm, Zenon
  <1>3. \A k : End(k) = CHOOSE e \in W : Rank(W, e) = k
    BY Zenon DEF Rank
  <1>4. W \subseteq 1 .. Size(line) /\ Len(words) = Cardinality(W) /\ Len(words) \in Nat
    BY <1>1 DEF WholeEnds, Ends, Lists
  <1> HIDE DEF W, End
  <1>5. ASSUME NEW k \in 1 .. Len(words)
        PROVE  words[k] = SubSeq(line, First(line, End(k)), End(k))
    <2>1. \E e \in W : Rank(W, e) = k
      BY DEF Lists, W
    <2>2. End(k) \in W /\ Rank(W, End(k)) = k
      BY <1>3, <2>1
    <2>3. words[k] = Run(line)[End(k)]
      BY <2>2 DEF Lists, W
    <2> QED BY <1>4, <2>2, <2>3 DEF Run
  <1>6. words = [k \in 1 .. Len(words) |-> words[k]]
    OBVIOUS
  <1> QED BY <1>2, <1>4, <1>5, <1>6

LEMMA ParsesSoundly ==
  ASSUME NEW line \in Seq(Chars)
  PROVE  LET argv == parse_buf(line)
             words == WordsOf(line)
         IN /\ argv \in {words, <<>>}
            /\ Len(words) < MAX_CMD_ARGS => argv = words
            /\ Len(words) > MAX_CMD_ARGS => argv = <<>>
  <1> DEFINE argv == parse_buf(line)
             words == WordsOf(line)
  <1> SUFFICES /\ argv \in {words, <<>>}
               /\ Len(words) < MAX_CMD_ARGS => argv = words
               /\ Len(words) > MAX_CMD_ARGS => argv = <<>>
    BY Zenon
  <1>1. argv \in Seq(Seq(Chars)) /\ Len(argv) <= MAX_CMD_ARGS
    BY ParseType
  <1>2. Len(words) = Cardinality(WholeEnds(line)) /\ Len(words) \in Nat
    <2>1. Cardinality(WholeEnds(line)) \in Nat
      <3>1. Size(line) - 1 \in Int /\ Size(line) - 1 < Size(line)
        BY SizeFacts
      <3> QED BY <3>1, EndsCount
    <2> DEFINE W == WholeEnds(line)
               End(k) == CHOOSE e \in W : Cardinality({d \in W : d <= e}) = k
    <2>2. words = [k \in 1 .. Cardinality(W) |-> SubSeq(line, First(line, End(k)), End(k))]
      BY WordsForm, Zenon
    <2> HIDE DEF words, End, W
    <2> QED BY <2>1, <2>2 DEF W
  <1>3. CASE Lists(argv, WholeEnds(line), Run(line))
    <2>1. argv = words
      BY <1>1, <1>3, ListsAreWords
    <2> HIDE DEF argv, words
    <2> QED BY <1>1, <1>2, <2>1, ShellAssumption
  <1>4. CASE argv = <<>> /\ Cardinality(WholeEnds(line)) >= MAX_CMD_ARGS
    <2> HIDE DEF argv, words
    <2> QED BY <1>1, <1>2, <1>4, ShellAssumption
  <1> QED BY <1>3, <1>4, ParsedLine

----------------------------------------------------------------------------
(***************************************************************************)
(* The table of processes and the lines in it.                             *)
(***************************************************************************)
\* A line has room for one more character; a slot in use has a process that has
\* come somewhere, the others hold nothing.
Table ==
  \A i \in Slots :
    /\ Len(prog[i].buf) < BUF_SIZE
    /\ i \in live => prog[i].at # "none"
    /\ i \notin live => prog[i] = Nothing

LEMMA InitTable == SessionInit => Table
  BY ShellAssumption DEF SessionInit, LifeInit, Table, Nothing, Process

\* One process is written, and the slots in use stay.
LEMMA WriteTable ==
  ASSUME SInv, Table, NEW i \in Slots, i \in live, live' = live,
         NEW r, prog' = [prog EXCEPT ![i] = r], Len(r.buf) < BUF_SIZE, r.at # "none"
  PROVE  Table'
  BY DEF SInv, SessionTypes, Table, Nothing, Process

LEMMA ReadTable ==
  ASSUME SInv, Table, NEW c \in Letters \cup {SPACE, NL}, usys_read(c)
  PROVE  Table'
  <1>1. /\ current \in Slots /\ me \in Processes /\ current \in live /\ me.at = "read"
        /\ prog \in [Slots -> Processes] /\ live' = live /\ Len(me.buf) < BUF_SIZE
    BY DEF usys_read, Running, SInv, SessionTypes, LifeTypeOK, Turn, lifeVars, Table, me
  <1>2. Len(Entered(c)) = Len(me.buf) + 1 /\ Len(me.buf) \in Nat
    BY <1>1 DEF Entered, Processes
  <1> DEFINE a == parse_buf(Entered(c))
             r == IF c = NL \/ Len(me.buf) + 1 = BUF_SIZE
                  THEN [me EXCEPT !.buf = <<>>, !.argv = a,
                                  !.at = IF a = <<>> THEN "read" ELSE "fork"]
                  ELSE [me EXCEPT !.buf = Entered(c)]
  <1>3. prog' = [prog EXCEPT ![current] = r]
    BY <1>1 DEF usys_read, me
  <1>4. Len(r.buf) < BUF_SIZE /\ r.at # "none"
    <2>1. CASE c = NL \/ Len(me.buf) + 1 = BUF_SIZE
      <3> DEFINE t == IF a = <<>> THEN "read" ELSE "fork"
      <3>1. r = [me EXCEPT !.buf = <<>>, !.argv = a, !.at = t] /\ t # "none"
        BY <2>1
      <3> HIDE DEF t, a, r
      <3> QED BY <1>1, <3>1, ShellAssumption DEF Processes
    <2>2. CASE ~(c = NL \/ Len(me.buf) + 1 = BUF_SIZE)
      <3>1. r = [me EXCEPT !.buf = Entered(c)]
        BY <2>2
      <3> HIDE DEF r
      <3> QED BY <1>1, <1>2, <2>2, <3>1, ShellAssumption DEF Processes
    <2> QED BY <2>1, <2>2
  <1> HIDE DEF r
  <1> QED BY <1>1, <1>3, <1>4, WriteTable

LEMMA ForkTable ==
  ASSUME SInv, Table, usys_fork
  PROVE  Table'
  <1>1. /\ current \in Slots /\ me \in Processes /\ current \in live
        /\ prog \in [Slots -> Processes] /\ Len(me.buf) < BUF_SIZE
    BY DEF usys_fork, Running, SInv, SessionTypes, LifeTypeOK, Turn, Table, me
  <1> DEFINE r == [me EXCEPT !.at = "exec", !.parent = current]
             q == [me EXCEPT !.at = "sleep", !.argv = <<>>]
  <1>2. PICK k \in Slots : /\ Fork(k)
                           /\ prog' = [prog EXCEPT ![k] = r, ![current].at = "sleep",
                                                   ![current].argv = <<>>]
    BY DEF usys_fork
  <1>3. k \notin live /\ k # current /\ live' = live \cup {k}
    BY <1>1, <1>2 DEF Fork
  <1>4. prog' = [prog EXCEPT ![k] = r, ![current] = q]
    BY <1>1, <1>2, <1>3 DEF me
  <1>5. r.at = "exec" /\ r.buf = me.buf /\ q.at = "sleep" /\ q.buf = me.buf
    BY <1>1 DEF Processes
  <1> HIDE DEF r, q
  <1>6. /\ prog'[k] = r /\ prog'[current] = q
        /\ \A i \in Slots \ {k, current} : prog'[i] = prog[i]
    BY <1>1, <1>3, <1>4
  <1>7. ASSUME NEW i \in Slots
        PROVE  /\ Len(prog'[i].buf) < BUF_SIZE
               /\ i \in live' => prog'[i].at # "none"
               /\ i \notin live' => prog'[i] = Nothing
    <2>1. CASE i = k
      BY <1>1, <1>3, <1>5, <1>6, <2>1
    <2>2. CASE i = current
      BY <1>1, <1>3, <1>5, <1>6, <2>2
    <2>3. CASE i \notin {k, current}
      BY <1>3, <1>6, <2>3 DEF Table
    <2> QED BY <2>1, <2>2, <2>3
  <1> QED BY <1>7 DEF Table, Nothing, Process

LEMMA NextTable == SInv /\ Table /\ [SessionNext]_vars => Table'
  <1> SUFFICES ASSUME SInv, Table, [SessionNext]_vars PROVE Table'
    OBVIOUS
  <1>0. /\ current \in Slots /\ me \in Processes /\ prog \in [Slots -> Processes]
        /\ cpu = "user" => current \in live
        /\ Len(me.buf) < BUF_SIZE
    BY DEF SInv, SessionTypes, LifeTypeOK, Turn, Table, me
  <1>1. CASE live' = live /\ prog' = prog
    BY <1>1 DEF Table, Nothing, Process
  <1>2. CASE kernel_main
    <2>1. live' = {0} /\ live = {} /\ prog' = [prog EXCEPT ![0] = Load(3, 0)]
      BY <1>2 DEF kernel_main, Create, SInv, Turn
    <2>2. Load(3, 0).at # "none" /\ Load(3, 0).buf = <<>> /\ Len(Load(3, 0).buf) < BUF_SIZE
      BY LoadType, SlotZero, ShellAssumption
    <2>3. \A i \in Slots \ {0} : prog'[i] = prog[i]
      BY <1>0, <2>1
    <2>4. prog'[0] = Load(3, 0)
      BY <1>0, <2>1, SlotZero
    <2> QED BY <2>1, <2>2, <2>3, <2>4 DEF Table, Nothing, Process
  <1>3. CASE \E c \in Letters \cup {SPACE, NL} : usys_read(c)
    BY <1>3, ReadTable
  <1>4. CASE usys_fork
    BY <1>4, ForkTable
  <1>5. CASE usys_exec
    <2>1. PICK r : /\ prog' = [prog EXCEPT ![current] = r]
                   /\ \/ r = Process("shell", "read", me.parent)
                      \/ \E k : r = Load(k, me.parent)
      BY <1>5 DEF usys_exec
    <2>2. me.parent \in Slots /\ live' = live /\ cpu = "user"
      BY <1>0, <1>5 DEF usys_exec, Running, Processes, lifeVars
    <2>3. r.buf = <<>> /\ r.at # "none"
      BY <2>1, <2>2, ProcessType, LoadType
    <2>4. Len(r.buf) < BUF_SIZE
      BY <2>3, ShellAssumption
    <2> QED BY <1>0, <2>1, <2>2, <2>3, <2>4, WriteTable
  <1>6. CASE usys_sleep \/ Prompt
    <2>1. PICK a \in {"asleep", "read"} : prog' = [prog EXCEPT ![current].at = a]
      BY <1>6 DEF usys_sleep, Prompt
    <2> DEFINE r == [me EXCEPT !.at = a]
    <2>2. live' = live /\ cpu = "user" /\ prog' = [prog EXCEPT ![current] = r]
      BY <1>0, <1>6, <2>1 DEF usys_sleep, Prompt, Running, Yield, lifeVars, me
    <2>3. r.buf = me.buf /\ r.at = a
      BY <1>0 DEF Processes
    <2> HIDE DEF r
    <2> QED BY <1>0, <2>2, <2>3, WriteTable
  <1>7. CASE usys_exit
    <2>1. live' = live \ {current} /\ prog' = [prog EXCEPT ![current] = Nothing]
      BY <1>7 DEF usys_exit, Exit
    <2> QED BY <1>0, <2>1, ShellAssumption DEF Table, Nothing, Process
  <1>8. CASE Loading \/ BootPanic \/ kproc_scheduler \/ NoFreePCB \/ Fault \/ kpanic \/ UNCHANGED vars
    BY <1>1, <1>8 DEF Loading, BootPanic, kproc_scheduler, NoFreePCB, Fault, kpanic, vars, Halt,
       Dispatch, lifeVars, sessionVars
  <1> QED BY <1>2, <1>3, <1>4, <1>5, <1>6, <1>7, <1>8 DEF SessionNext, ProgramStep

LEMMA TableInvariant == SessionSpec => []Table
  BY InitTable, NextTable, SessionInvariant, PTL DEF SessionSpec

\* The two are what the session's part of TypeOK needs.
LEMMA TableTypes == SInv /\ Table /\ DiskTypeOK => TypeOK
  <1> SUFFICES ASSUME SInv, Table, DiskTypeOK PROVE TypeOK
    OBVIOUS
  <1>1. ASSUME NEW i \in Slots
        PROVE  /\ prog[i].file \in {"none", "shell", "echo", "junk"}
               /\ prog[i].at \in {"none", "read", "fork", "sleep", "asleep", "exec", "run"}
               /\ Len(prog[i].buf) < BUF_SIZE
               /\ Len(prog[i].argv) <= MAX_CMD_ARGS
               /\ prog[i].parent \in Slots
               /\ i \in live <=> prog[i] # Nothing
    <2>1. prog[i] \in Processes
      BY DEF SInv, SessionTypes
    <2>2. Len(prog[i].argv) <= MAX_CMD_ARGS
      <3>1. CASE prog[i].argv = <<>>
        BY <3>1, ShellAssumption
      <3>2. CASE prog[i].argv \in {parse_buf(line) : line \in Seq(Chars)}
        BY <3>2, ParseType
      <3> QED BY <2>1, <3>1, <3>2 DEF Processes
    <2>3. Nothing.at = "none"
      BY DEF Nothing, Process
    <2> QED BY <2>1, <2>2, <2>3 DEF Processes, Table
  <1> QED BY <1>1 DEF TypeOK, SInv, SessionTypes

----------------------------------------------------------------------------
\* Two shells never share a line, however many there are and whatever is typed:
\* the one that has begun a line has the hart (main of shell.c).
THEOREM LinesAreWhole == SessionSpec => []LineNotSplit
  <1>1. SInv => LineNotSplit
    BY DEF SInv, Lines, LineNotSplit
  <1> QED BY <1>1, SessionInvariant, PTL

\* usys_sleep does for a shell what waiting for its command would, for every
\* number of slots: the scheduler comes to the command, and echo runs to its end,
\* before the shell prompts again (main of shell.c, kproc_scheduler).
THEOREM PromptsAfterCommands == SessionSpec => []PromptAfterCommand
  <1>1. SInv => PromptAfterCommand
    BY DEF SInv, Order, Command, Waits, PromptAfterCommand
  <1> QED BY <1>1, SessionInvariant, PTL

\* What the shell makes of a line is the words of the line, for every length of
\* buf, every limit and every line: it never joins, splits, loses or reorders
\* words, refuses no line that is below the limit and accepts none above it
\* (parse_buf).
THEOREM ParsesWords == SessionSpec => []ParseSound
  <1>1. SInv => ParseSound
    <2> SUFFICES ASSUME SInv, Running("read"), NEW c \in Letters \cup {SPACE, NL}
                 PROVE  LET argv == parse_buf(Entered(c))
                            words == WordsOf(Entered(c))
                        IN /\ argv \in {words, <<>>}
                           /\ Len(words) < MAX_CMD_ARGS => argv = words
                           /\ Len(words) > MAX_CMD_ARGS => argv = <<>>
      BY DEF ParseSound
    <2>1. me.buf \in Seq(Chars)
      BY DEF SInv, SessionTypes, LifeTypeOK, Processes, me
    <2>2. (IF c = NL THEN NUL ELSE c) \in Chars
      BY DEF Chars
    <2>3. Entered(c) \in Seq(Chars)
      BY <2>1, <2>2 DEF Entered
    <2> QED BY <2>3, ParsesSoundly
  <1> QED BY <1>1, SessionInvariant, PTL

\* The machine uses its disk as Disk says: only kernel_main's loading touches it
\* (Loading).
THEOREM MachineLoadsDisk == SessionSpec => DiskSpec
  <1>1. SessionInit => DiskInit
    BY DEF SessionInit
  <1>2. [SessionNext]_vars => [DiskNext]_diskVars
    BY DEF SessionNext, ProgramStep, Loading, kernel_main, BootPanic, kproc_scheduler, usys_read,
         usys_fork, NoFreePCB, usys_exec, usys_sleep, Prompt, usys_exit, Fault, kpanic, vars
  <1> QED BY <1>1, <1>2, PTL DEF SessionSpec, DiskSpec

\* So what is proved of the loading holds of the machine in use: the device has
\* been started before its first request (virtio_blk_init).
THEOREM MachineDriverOkFirst == SessionSpec => []DriverOkFirst
  BY MachineLoadsDisk, DeviceIsStarted, PTL

\* The virtqueue's pages stay its own while programs run (virtq_init).
THEOREM MachineVirtqMemory == SessionSpec => []VirtqMemory
  BY MachineLoadsDisk, QueueHasItsPages, PTL

\* Every request of the boot is complete when its data is taken (virtio_rw).
THEOREM MachineRequestCompleted == SessionSpec => RequestCompleted
  BY MachineLoadsDisk, RequestsComplete, PTL
\* Every variable of the machine keeps its type, whatever is typed: a line never
\* outgrows buf, nor a command its array of words, and a slot holds a program
\* exactly when it is in use (main and parse_buf of shell.c, fork, exec, exit).
THEOREM SessionTypeCorrect == SessionSpec => []TypeOK
  BY SessionInvariant, TableInvariant, TableTypes, MachineLoadsDisk, DiskTypeCorrect, PTL

\* What the programs are taken from is the archive: as long as the headers and
\* its end can be read, the files in memory are its files, while programs run as
\* during the boot (filesystem_init).
THEOREM MachineLoadsArchive == SessionSpec => []LoadedAsArchive
  BY MachineLoadsDisk, LoadsTheArchive, PTL
=============================================================================
