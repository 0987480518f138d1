----------------------------- MODULE OpenFiles -----------------------------
(***************************************************************************)
(* Open files: the system-wide table os_files of kernel/filesystem.c, the  *)
(* opened_files array of each process (kernel/kproc.c), and the calls      *)
(* open, read and close on them, while processes fork, exit, are killed    *)
(* and their slots are used again.                                         *)
(*                                                                         *)
(* A handle is an index into os_files where the code has a pointer; NULL   *)
(* is MAX_OS_FILES, the index one past the table.  File contents do not    *)
(* change after boot, so a read is its effect on the position.             *)
(*                                                                         *)
(* Fds are the descriptors inside opened_files.  The code refuses none     *)
(* beyond it: opened_files[MAX_OPEN_FILES] is the word kernel_stack_top,   *)
(* and what lies there is followed as a pointer to an entry.  The model    *)
(* and all its properties are about programs that use descriptors in Fds.  *)
(***************************************************************************)
EXTENDS ProcLife

CONSTANTS
  MAX_OS_FILES,     \* entries of os_files
  MAX_OPEN_FILES,   \* entries of opened_files
  Files,            \* indices filesystem_locate_file can return
  NoFile,           \* the index 0xFFFFFFFF, which is no file
  Size,             \* filesystem_files[f].size
  ReadSizes         \* the sizes a process asks for

ASSUME TableAssumption ==
  /\ MAX_OS_FILES \in Nat
  /\ MAX_OPEN_FILES \in Nat
  /\ NoFile \notin Files
  /\ Size \in [Files -> Nat]
  /\ ReadSizes \subseteq Nat

VARIABLES os_files, opened_files

vars == <<live, current, cpu, os_files, opened_files>>

Handles == 0 .. MAX_OS_FILES - 1
NULL    == MAX_OS_FILES
Fds     == 3 .. MAX_OPEN_FILES - 1

OsFile == [in_use : BOOLEAN, rwpos : Nat, filesystem_file_idx : Files \cup {NoFile}]
Unused == [in_use |-> FALSE, rwpos |-> 0, filesystem_file_idx |-> NoFile]

Init ==
  /\ LifeInit
  /\ os_files = [h \in Handles |-> Unused]
  /\ opened_files = [i \in Slots |-> [fd \in Fds |-> NULL]]

----------------------------------------------------------------------------
\* Mutant: the search takes the first entry without looking at in_use.
Mutant_FirstFreeHandle_Any(h) == h = 0

FirstFreeHandle(h) ==
  /\ ~os_files[h].in_use
  /\ \A g \in Handles : g < h => os_files[g].in_use

FirstFreeFd(fd) ==
  /\ opened_files[current][fd] = NULL
  /\ \A e \in Fds : e < fd => opened_files[current][e] # NULL

\* kproc_file_add: the first free descriptor points at h; with none free it
\* reports -1 and the table stays as it is.
kproc_file_add(h) ==
  \/ \E fd \in Fds :
       /\ FirstFreeFd(fd)
       /\ opened_files' = [opened_files EXCEPT ![current][fd] = h]
  \/ /\ \A fd \in Fds : opened_files[current][fd] # NULL
     /\ UNCHANGED opened_files

\* Mutant: the search loop's exit value is used unchecked as the handle.
Mutant_filesystem_file_open_NoCheck(f) ==
  /\ cpu = "user"
  /\ \E h \in Handles \cup {NULL} :
       /\ IF h = NULL THEN \A g \in Handles : os_files[g].in_use ELSE FirstFreeHandle(h)
       /\ os_files' = [g \in Handles \cup {h} |->
            IF g = h THEN [in_use |-> TRUE, rwpos |-> 0, filesystem_file_idx |-> f]
            ELSE os_files[g]]
       /\ kproc_file_add(h)
  /\ UNCHANGED lifeVars

\* open of an existing file.  The entry of os_files is taken before the process
\* is asked for a descriptor and stays taken when it has none.
filesystem_file_open(f) ==
  /\ cpu = "user"
  /\ \E h \in Handles :
       /\ FirstFreeHandle(h)
       /\ os_files' = [os_files EXCEPT ![h] =
            [in_use |-> TRUE, rwpos |-> 0, filesystem_file_idx |-> f]]
       /\ kproc_file_add(h)
  /\ UNCHANGED lifeVars

\* Mutant: the copy loop does not stop at the end of the file.
Mutant_CursorAfter_PastEnd(cursor, n, size) == cursor + n

\* The position after copying at most n bytes: the loop of the read.
CursorAfter(cursor, n, size) ==
  IF cursor >= size THEN cursor
  ELSE IF cursor + n <= size THEN cursor + n ELSE size

filesystem_file_read(fd, n) ==
  LET h == opened_files[current][fd] IN
  /\ cpu = "user"
  /\ h # NULL
  /\ os_files' = [os_files EXCEPT ![h].rwpos =
       CursorAfter(@, n, Size[os_files[h].filesystem_file_idx])]
  /\ UNCHANGED <<live, current, cpu, opened_files>>

\* A read of a closed descriptor follows a null pointer inside the kernel,
\* and ktrap_from_supervisor_handler panics on the exception.
ReadClosed ==
  /\ cpu = "user"
  /\ \E fd \in Fds : opened_files[current][fd] = NULL
  /\ Halt
  /\ UNCHANGED <<os_files, opened_files>>

\* Mutant: close releases the entry and leaves the pointer in opened_files.
Mutant_filesystem_file_close_KeepsPointer(fd) ==
  LET h == opened_files[current][fd] IN
  /\ cpu = "user"
  /\ h # NULL
  /\ os_files' = [os_files EXCEPT ![h] = Unused]
  /\ UNCHANGED <<live, current, cpu, opened_files>>

\* close: the descriptor first (kproc_file_remove), then the entry behind it.
filesystem_file_close(fd) ==
  LET h == opened_files[current][fd] IN
  /\ cpu = "user"
  /\ h # NULL
  /\ opened_files' = [opened_files EXCEPT ![current][fd] = NULL]
  /\ os_files' = [os_files EXCEPT ![h] = Unused]
  /\ UNCHANGED lifeVars

\* create, fork, exit, kill and scheduling touch neither table: exit and kill
\* close nothing, and a fork neither copies nor clears opened_files.
ProcessStep == LifeNext /\ UNCHANGED <<os_files, opened_files>>

Next ==
  \/ \E f \in Files : filesystem_file_open(f)
  \/ \E fd \in Fds, n \in ReadSizes : filesystem_file_read(fd, n)
  \/ \E fd \in Fds : filesystem_file_close(fd)
  \/ ReadClosed
  \/ ProcessStep

Spec == Init /\ [][Next]_vars

----------------------------------------------------------------------------
(***************************************************************************)
(* Properties                                                              *)
(***************************************************************************)
TypeOK ==
  /\ LifeTypeOK
  /\ os_files \in [Handles -> OsFile]
  /\ opened_files \in [Slots -> [Fds -> Handles \cup {NULL}]]

\* No two descriptors, of one process or of two, lead to the same entry of
\* os_files, and every entry a descriptor leads to is in use and names a file,
\* through any sequence of opens, closes, forks, exits and slot reuse.
ExclusiveHandle ==
  /\ \A i, j \in Slots : \A d, e \in Fds :
       (opened_files[i][d] # NULL /\ opened_files[i][d] = opened_files[j][e])
         => i = j /\ d = e
  /\ \A i \in Slots : \A d \in Fds : opened_files[i][d] # NULL =>
       /\ os_files[opened_files[i][d]].in_use
       /\ os_files[opened_files[i][d]].filesystem_file_idx # NoFile

\* A position never runs past the end of its file, so a read never copies a
\* byte from beyond filesystem_files[f].size.
CursorInFile ==
  \A h \in Handles : os_files[h].in_use =>
    os_files[h].rwpos <= Size[os_files[h].filesystem_file_idx]

(***************************************************************************)
(* The abstract table: what a descriptor shows of the entry it points at.  *)
(***************************************************************************)
Shown(i, fd) ==
  IF opened_files[i][fd] = NULL THEN [file |-> NoFile, pos |-> 0]
  ELSE [file |-> os_files[opened_files[i][fd]].filesystem_file_idx,
        pos  |-> os_files[opened_files[i][fd]].rwpos]

D == INSTANCE Descriptors WITH table <- [i \in Slots |-> [fd \in Fds |-> Shown(i, fd)]]

\* The shared table is invisible to processes: open, read and close act as if
\* each descriptor had a file position of its own.
ImplementsDescriptors == D!DSpec

\* kernel/filesystem.c calls os_files the "table of all files opened by
\* operating system": an entry in use is open in some live process.  (exit and
\* kill leave entries that only a later owner of the slot can close, having
\* inherited opened_files; the entry of an open that finds no free descriptor is
\* in no table and nobody can ever close it.)
NoOrphanedEntry ==
  \A h \in Handles : os_files[h].in_use =>
    \E i \in live : \E fd \in Fds : opened_files[i][fd] = h
=============================================================================
