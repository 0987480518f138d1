---------------------------- MODULE Descriptors ----------------------------
(***************************************************************************)
(* What open, read and close promise a process: a table of its own, in     *)
(* which every open descriptor is a file and a private position in it.     *)
(* There is no system-wide table here; OpenFiles implements this one with  *)
(* the pointers and the shared os_files array of kernel/filesystem.c.      *)
(***************************************************************************)
EXTENDS ProcLife

CONSTANTS
  MAX_OPEN_FILES,   \* descriptors of a process; 0, 1 and 2 are the terminal
  Files,            \* indices into filesystem_files
  NoFile,           \* what a closed descriptor shows
  Size,             \* size of each file
  ReadSizes         \* the sizes a process asks for

VARIABLE table      \* table[slot][fd]: Closed, or a file and a position

Fds    == 3 .. MAX_OPEN_FILES - 1
Closed == [file |-> NoFile, pos |-> 0]

dvars == <<live, current, cpu, table>>

\* Where n bytes from position pos of file f end.
Advance(f, pos, n) == IF pos + n <= Size[f] THEN pos + n ELSE Size[f]

DInit == LifeInit /\ table = [i \in Slots |-> [fd \in Fds |-> Closed]]

\* open takes the lowest closed descriptor.
DOpen(f) ==
  /\ cpu = "user"
  /\ \E fd \in Fds :
       /\ table[current][fd] = Closed
       /\ \A e \in Fds : e < fd => table[current][e] # Closed
       /\ table' = [table EXCEPT ![current][fd] = [file |-> f, pos |-> 0]]
  /\ UNCHANGED lifeVars

\* A read moves the position of this descriptor and of no other.
DRead(fd, n) ==
  /\ cpu = "user"
  /\ table[current][fd] # Closed
  /\ LET e == table[current][fd] IN
       table' = [table EXCEPT ![current][fd] =
                   [file |-> e.file, pos |-> Advance(e.file, e.pos, n)]]
  /\ UNCHANGED lifeVars

DClose(fd) ==
  /\ cpu = "user"
  /\ table[current][fd] # Closed
  /\ table' = [table EXCEPT ![current][fd] = Closed]
  /\ UNCHANGED lifeVars

\* The life cycle leaves every table alone: a child does not share the
\* descriptors of its parent.
DNext ==
  \/ \E f \in Files : DOpen(f)
  \/ \E fd \in Fds : DClose(fd) \/ \E n \in ReadSizes : DRead(fd, n)
  \/ LifeNext /\ UNCHANGED table

DSpec == DInit /\ [][DNext]_dvars
=============================================================================
