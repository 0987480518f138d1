-------------------------- MODULE OpenFilesProofs --------------------------
(***************************************************************************)
(* Proofs about OpenFiles, for every size of the tables and every set of   *)
(* files: no two descriptors share an entry of os_files, positions stay    *)
(* inside their files, and so the shared table behaves like one table per  *)
(* process.                                                                *)
(***************************************************************************)
EXTENDS OpenFiles, TLAPS

\* An entry in use names a file.
UsedNamesFile == \A h \in Handles : os_files[h].in_use => os_files[h].filesystem_file_idx \in Files

IInv ==
  /\ TypeOK
  /\ UsedNamesFile
  /\ ExclusiveHandle
  /\ CursorInFile

\* NULL is not a handle.
LEMMA NullNoHandle == NULL \notin Handles
  BY TableAssumption DEF NULL, Handles

\* Where a read leaves the position.
LEMMA CursorFacts ==
  ASSUME NEW c \in Nat, NEW n \in Nat, NEW z \in Nat, c <= z
  PROVE  /\ CursorAfter(c, n, z) \in Nat
         /\ CursorAfter(c, n, z) <= z
         /\ CursorAfter(c, n, z) = IF c + n <= z THEN c + n ELSE z
  BY DEF CursorAfter

\* The life cycle keeps its types.
LEMMA LifeTypes == LifeTypeOK /\ LifeNext => LifeTypeOK'
  <1> SUFFICES ASSUME LifeTypeOK, LifeNext PROVE LifeTypeOK'
    OBVIOUS
  <1>0. 0 \in Slots
    BY SlotCountAssumption DEF Slots
  <1> QED BY <1>0 DEF LifeTypeOK, LifeNext, Create, Dispatch, Fork, Kill, Yield, Exit, Halt

LEMMA InitIInv == Init => IInv
  <1> SUFFICES ASSUME Init PROVE IInv
    OBVIOUS
  <1>1. 0 \in Slots
    BY SlotCountAssumption DEF Slots
  <1>2. Unused \in OsFile
    BY DEF Unused, OsFile
  <1>3. TypeOK
    BY <1>1, <1>2 DEF Init, LifeInit, TypeOK, LifeTypeOK
  <1>4. \A h \in Handles : ~os_files[h].in_use
    BY DEF Init, Unused
  <1>5. \A i \in Slots : \A d \in Fds : opened_files[i][d] = NULL
    BY DEF Init
  <1> QED BY <1>3, <1>4, <1>5 DEF IInv, UsedNamesFile, CursorInFile, ExclusiveHandle

\* Steps that leave both tables alone.
LEMMA SameTables ==
  ASSUME IInv, LifeTypeOK', os_files' = os_files, opened_files' = opened_files
  PROVE  IInv'
  BY DEF IInv, TypeOK, UsedNamesFile, ExclusiveHandle, CursorInFile, NULL

\* open: the new entry was not in use, so no descriptor leads to it yet.
LEMMA OpenStep ==
  ASSUME IInv, NEW f \in Files, filesystem_file_open(f)
  PROVE  IInv'
  <1> DEFINE e == [in_use |-> TRUE, rwpos |-> 0, filesystem_file_idx |-> f]
  <1>0. /\ os_files \in [Handles -> OsFile]
        /\ opened_files \in [Slots -> [Fds -> Handles \cup {NULL}]]
        /\ LifeTypeOK /\ current \in Slots
    BY DEF IInv, TypeOK, LifeTypeOK
  <1>1. PICK h \in Handles :
          /\ ~os_files[h].in_use
          /\ os_files' = [os_files EXCEPT ![h] = e]
          /\ kproc_file_add(h)
    BY DEF filesystem_file_open, FirstFreeHandle
  <1>2. LifeTypeOK' /\ current' = current
    BY <1>0 DEF filesystem_file_open, lifeVars, LifeTypeOK
  <1>3. e \in OsFile /\ e.in_use /\ e.rwpos = 0 /\ e.filesystem_file_idx = f
    BY DEF OsFile
  <1> HIDE DEF e
  <1>4. /\ os_files' \in [Handles -> OsFile]
        /\ \A g \in Handles : os_files'[g] = IF g = h THEN e ELSE os_files[g]
    BY <1>0, <1>1, <1>3
  <1>5. UsedNamesFile'
    BY <1>3, <1>4 DEF UsedNamesFile, IInv
  <1>6. CursorInFile'
    <2>1. Size[f] \in Nat
      BY TableAssumption
    <2> QED BY <1>3, <1>4, <2>1 DEF CursorInFile, IInv
  <1>7. \A i \in Slots : \A d \in Fds : opened_files[i][d] # h
    BY <1>1, NullNoHandle DEF IInv, ExclusiveHandle
  <1>8. CASE \E fd \in Fds : opened_files' = [opened_files EXCEPT ![current][fd] = h]
    <2>1. PICK fd \in Fds : opened_files' = [opened_files EXCEPT ![current][fd] = h]
      BY <1>8
    <2>2. /\ opened_files' \in [Slots -> [Fds -> Handles \cup {NULL}]]
          /\ \A i \in Slots : \A d \in Fds : opened_files'[i][d] =
               IF i = current /\ d = fd THEN h ELSE opened_files[i][d]
      BY <1>0, <2>1
    <2>3. ASSUME NEW i \in Slots, NEW j \in Slots, NEW c \in Fds, NEW d \in Fds,
                 opened_files'[i][c] # NULL, opened_files'[i][c] = opened_files'[j][d]
          PROVE  i = j /\ c = d
      BY <1>7, <2>2, <2>3 DEF IInv, ExclusiveHandle
    <2>4. ASSUME NEW i \in Slots, NEW d \in Fds, opened_files'[i][d] # NULL
          PROVE  /\ os_files'[opened_files'[i][d]].in_use
                 /\ os_files'[opened_files'[i][d]].filesystem_file_idx # NoFile
      <3>1. CASE i = current /\ d = fd
        BY <1>3, <1>4, <2>2, <3>1, TableAssumption
      <3>2. CASE ~(i = current /\ d = fd)
        <4>1. opened_files'[i][d] = opened_files[i][d] /\ opened_files[i][d] \in Handles
          BY <1>0, <2>2, <2>4, <3>2
        <4>2. os_files'[opened_files[i][d]] = os_files[opened_files[i][d]]
          BY <1>4, <1>7, <4>1
        <4> QED BY <2>4, <4>1, <4>2 DEF IInv, ExclusiveHandle
      <3> QED BY <3>1, <3>2
    <2>5. ExclusiveHandle'
      BY <2>3, <2>4 DEF ExclusiveHandle, NULL
    <2> QED BY <1>2, <1>4, <1>5, <1>6, <2>2, <2>5 DEF IInv, TypeOK, NULL
  <1>9. CASE opened_files' = opened_files
    <2>1. ASSUME NEW i \in Slots, NEW d \in Fds, opened_files[i][d] # NULL
          PROVE  os_files'[opened_files[i][d]] = os_files[opened_files[i][d]]
      BY <1>0, <1>4, <1>7, <2>1
    <2>2. ExclusiveHandle'
      BY <1>9, <2>1 DEF IInv, ExclusiveHandle, NULL
    <2> QED BY <1>0, <1>2, <1>4, <1>5, <1>6, <1>9, <2>2 DEF IInv, TypeOK, NULL
  <1> QED BY <1>1, <1>8, <1>9 DEF kproc_file_add

\* read: only the position of one entry moves, and not past the end.
LEMMA ReadStep ==
  ASSUME IInv, NEW fd \in Fds, NEW n \in ReadSizes, filesystem_file_read(fd, n)
  PROVE  IInv'
  <1> DEFINE h == opened_files[current][fd]
             f == os_files[h].filesystem_file_idx
             c == CursorAfter(os_files[h].rwpos, n, Size[f])
  <1>0. /\ os_files \in [Handles -> OsFile]
        /\ opened_files \in [Slots -> [Fds -> Handles \cup {NULL}]]
        /\ LifeTypeOK /\ current \in Slots
    BY DEF IInv, TypeOK, LifeTypeOK
  <1>1. /\ h # NULL /\ os_files' = [os_files EXCEPT ![h].rwpos = c]
        /\ live' = live /\ current' = current /\ cpu' = cpu /\ opened_files' = opened_files
    BY DEF filesystem_file_read
  <1>2. h \in Handles
    BY <1>0, <1>1
  <1>3. os_files[h].in_use /\ f \in Files /\ os_files[h].rwpos \in Nat /\ os_files[h].rwpos <= Size[f]
    BY <1>0, <1>1, <1>2 DEF IInv, ExclusiveHandle, UsedNamesFile, CursorInFile, OsFile
  <1>4. Size[f] \in Nat /\ n \in Nat
    BY <1>3, TableAssumption
  <1>5. c \in Nat /\ c <= Size[f]
    BY <1>3, <1>4, CursorFacts
  <1> HIDE DEF c
  <1>6. /\ os_files' \in [Handles -> OsFile]
        /\ \A g \in Handles : /\ os_files'[g].in_use = os_files[g].in_use
                              /\ os_files'[g].filesystem_file_idx = os_files[g].filesystem_file_idx
                              /\ os_files'[g].rwpos = IF g = h THEN c ELSE os_files[g].rwpos
    BY <1>0, <1>1, <1>2, <1>5 DEF OsFile
  <1>7. UsedNamesFile'
    BY <1>6 DEF IInv, UsedNamesFile
  <1>8. CursorInFile'
    BY <1>5, <1>6 DEF IInv, CursorInFile
  <1>9. \A i \in Slots : \A d \in Fds : opened_files[i][d] # NULL => opened_files[i][d] \in Handles
    BY <1>0
  <1>10. ExclusiveHandle'
    BY <1>1, <1>6, <1>9 DEF IInv, ExclusiveHandle, NULL
  <1> QED BY <1>0, <1>1, <1>6, <1>7, <1>8, <1>10 DEF IInv, TypeOK, LifeTypeOK, NULL

\* close: the entry goes with the only descriptor that led to it.
LEMMA CloseStep ==
  ASSUME IInv, NEW fd \in Fds, filesystem_file_close(fd)
  PROVE  IInv'
  <1> DEFINE h == opened_files[current][fd]
  <1>0. /\ os_files \in [Handles -> OsFile]
        /\ opened_files \in [Slots -> [Fds -> Handles \cup {NULL}]]
        /\ LifeTypeOK /\ current \in Slots
    BY DEF IInv, TypeOK, LifeTypeOK
  <1>1. /\ h # NULL
        /\ opened_files' = [opened_files EXCEPT ![current][fd] = NULL]
        /\ os_files' = [os_files EXCEPT ![h] = Unused]
        /\ live' = live /\ current' = current /\ cpu' = cpu
    BY DEF filesystem_file_close, lifeVars
  <1>2. h \in Handles /\ Unused \in OsFile /\ ~Unused.in_use
    BY <1>0, <1>1 DEF Unused, OsFile
  <1>3. /\ os_files' \in [Handles -> OsFile]
        /\ \A g \in Handles : os_files'[g] = IF g = h THEN Unused ELSE os_files[g]
    BY <1>0, <1>1, <1>2
  <1>4. /\ opened_files' \in [Slots -> [Fds -> Handles \cup {NULL}]]
        /\ \A i \in Slots : \A d \in Fds : opened_files'[i][d] =
             IF i = current /\ d = fd THEN NULL ELSE opened_files[i][d]
    BY <1>0, <1>1
  <1>5. UsedNamesFile' /\ CursorInFile'
    BY <1>2, <1>3 DEF IInv, UsedNamesFile, CursorInFile
  <1>6. ASSUME NEW i \in Slots, NEW d \in Fds, opened_files'[i][d] # NULL
        PROVE  /\ opened_files'[i][d] = opened_files[i][d]
               /\ opened_files[i][d] \in Handles
               /\ os_files'[opened_files[i][d]] = os_files[opened_files[i][d]]
    <2>1. /\ opened_files'[i][d] = opened_files[i][d]
          /\ opened_files[i][d] \in Handles
          /\ ~(i = current /\ d = fd)
      BY <1>0, <1>4, <1>6
    <2>2. opened_files[i][d] # h
      BY <1>0, <1>1, <1>6, <2>1 DEF IInv, ExclusiveHandle
    <2> QED BY <1>3, <2>1, <2>2
  <1>7. ExclusiveHandle'
    BY <1>6 DEF IInv, ExclusiveHandle, NULL
  <1> QED BY <1>0, <1>1, <1>3, <1>4, <1>5, <1>7 DEF IInv, TypeOK, LifeTypeOK, NULL

LEMMA NextIInv == IInv /\ [Next]_vars => IInv'
  <1> SUFFICES ASSUME IInv, [Next]_vars PROVE IInv'
    OBVIOUS
  <1>0. LifeTypeOK
    BY DEF IInv, TypeOK
  <1>1. CASE \E f \in Files : filesystem_file_open(f)
    BY <1>1, OpenStep
  <1>2. CASE \E fd \in Fds, n \in ReadSizes : filesystem_file_read(fd, n)
    BY <1>2, ReadStep
  <1>3. CASE \E fd \in Fds : filesystem_file_close(fd)
    BY <1>3, CloseStep
  <1>4. CASE ReadClosed
    <2>1. LifeTypeOK'
      BY <1>0, <1>4, LifeTypes DEF ReadClosed, LifeNext
    <2> QED BY <1>4, <2>1, SameTables DEF ReadClosed
  <1>5. CASE ProcessStep
    <2>1. LifeTypeOK'
      BY <1>0, <1>5, LifeTypes DEF ProcessStep
    <2> QED BY <1>5, <2>1, SameTables DEF ProcessStep
  <1>6. CASE UNCHANGED vars
    <2>1. LifeTypeOK'
      BY <1>0, <1>6 DEF vars, LifeTypeOK
    <2> QED BY <1>6, <2>1, SameTables DEF vars
  <1> QED BY <1>1, <1>2, <1>3, <1>4, <1>5, <1>6 DEF Next

----------------------------------------------------------------------------
THEOREM Invariance == Spec => []IInv
  <1>1. Init => IInv
    BY InitIInv
  <1>2. IInv /\ [Next]_vars => IInv'
    BY NextIInv
  <1> QED BY <1>1, <1>2, PTL DEF Spec

\* A descriptor is NULL or points at an entry of os_files, whatever is opened,
\* closed, forked, killed and reused.
THEOREM TypeCorrect == Spec => []TypeOK
  <1>1. IInv => TypeOK
    BY DEF IInv
  <1> QED BY <1>1, Invariance, PTL

\* No two descriptors lead to one entry of os_files, and a descriptor never
\* leads to an entry that has been closed.
THEOREM HandlesAreExclusive == Spec => []ExclusiveHandle
  <1>1. IInv => ExclusiveHandle
    BY DEF IInv
  <1> QED BY <1>1, Invariance, PTL

\* A read never copies a byte from beyond the end of its file.
THEOREM CursorsStayInFiles == Spec => []CursorInFile
  <1>1. IInv => CursorInFile
    BY DEF IInv
  <1> QED BY <1>1, Invariance, PTL

----------------------------------------------------------------------------
(***************************************************************************)
(* The refinement.  The abstract table shows, for every descriptor, the    *)
(* entry it points at; because handles are exclusive, a step on one entry  *)
(* shows at one descriptor only.                                           *)
(***************************************************************************)
Table == [i \in Slots |-> [fd \in Fds |-> Shown(i, fd)]]

\* An open descriptor does not look closed.
LEMMA ShownClosed ==
  ASSUME IInv, NEW i \in Slots, NEW fd \in Fds
  PROVE  Shown(i, fd) = D!Closed <=> opened_files[i][fd] = NULL
  <1>1. CASE opened_files[i][fd] = NULL
    BY <1>1 DEF Shown, D!Closed
  <1>2. CASE opened_files[i][fd] # NULL
    <2>1. os_files[opened_files[i][fd]].filesystem_file_idx # NoFile
      BY <1>2 DEF IInv, ExclusiveHandle
    <2>2. Shown(i, fd).file # NoFile
      BY <1>2, <2>1 DEF Shown
    <2> QED BY <1>2, <2>2 DEF D!Closed
  <1> QED BY <1>1, <1>2

\* A step that leaves what every descriptor shows alone leaves the table alone.
LEMMA SameShown ==
  ASSUME \A i \in Slots : \A fd \in Fds : Shown(i, fd)' = Shown(i, fd)
  PROVE  Table' = Table
  BY DEF Table

\* A step that changes what descriptor (c, fd) shows to v and nothing else.
LEMMA OneShown ==
  ASSUME NEW c \in Slots, NEW fd \in Fds, NEW v,
         \A i \in Slots : \A d \in Fds :
           Shown(i, d)' = IF i = c /\ d = fd THEN v ELSE Shown(i, d)
  PROVE  Table' = [Table EXCEPT ![c][fd] = v]
  BY DEF Table

LEMMA DOpenStep ==
  ASSUME IInv, NEW f \in Files, filesystem_file_open(f)
  PROVE  \/ D!DOpen(f)
         \/ Table' = Table /\ UNCHANGED lifeVars
  <1>0. /\ os_files \in [Handles -> OsFile]
        /\ opened_files \in [Slots -> [Fds -> Handles \cup {NULL}]]
        /\ current \in Slots
    BY DEF IInv, TypeOK, LifeTypeOK
  <1>1. PICK h \in Handles :
          /\ ~os_files[h].in_use
          /\ os_files' = [os_files EXCEPT ![h] =
               [in_use |-> TRUE, rwpos |-> 0, filesystem_file_idx |-> f]]
          /\ kproc_file_add(h)
    BY DEF filesystem_file_open, FirstFreeHandle
  <1>2. cpu = "user" /\ UNCHANGED lifeVars
    BY DEF filesystem_file_open
  <1>3. \A i \in Slots : \A d \in Fds : opened_files[i][d] # h
    BY <1>1, NullNoHandle DEF IInv, ExclusiveHandle
  <1>4. /\ os_files'[h].filesystem_file_idx = f /\ os_files'[h].rwpos = 0
        /\ \A g \in Handles : g # h => os_files'[g] = os_files[g]
    BY <1>0, <1>1
  <1>5. CASE \E fd \in Fds : /\ FirstFreeFd(fd)
                             /\ opened_files' = [opened_files EXCEPT ![current][fd] = h]
    <2>1. PICK fd \in Fds : /\ FirstFreeFd(fd)
                            /\ opened_files' = [opened_files EXCEPT ![current][fd] = h]
      BY <1>5
    <2>2. \A i \in Slots : \A d \in Fds : opened_files'[i][d] =
            IF i = current /\ d = fd THEN h ELSE opened_files[i][d]
      BY <1>0, <2>1
    <2>3. \A i \in Slots : \A d \in Fds : Shown(i, d)' =
            IF i = current /\ d = fd THEN [file |-> f, pos |-> 0] ELSE Shown(i, d)
      <3> SUFFICES ASSUME NEW i \in Slots, NEW d \in Fds
                   PROVE  Shown(i, d)' =
                            IF i = current /\ d = fd THEN [file |-> f, pos |-> 0] ELSE Shown(i, d)
        OBVIOUS
      <3>1. CASE i = current /\ d = fd
        BY <1>4, <2>2, <3>1, NullNoHandle DEF Shown, NULL
      <3>2. CASE ~(i = current /\ d = fd)
        BY <1>0, <1>3, <1>4, <2>2, <3>2 DEF Shown, NULL
      <3> QED BY <3>1, <3>2
    <2>4. Table' = [Table EXCEPT ![current][fd] = [file |-> f, pos |-> 0]]
      BY <1>0, <2>3, OneShown
    <2>5. /\ Table[current][fd] = D!Closed
          /\ \A e \in Fds : e < fd => Table[current][e] # D!Closed
      BY <1>0, <2>1, ShownClosed DEF Table, FirstFreeFd
    <2>6. D!DOpen(f)
      BY <1>2, <2>4, <2>5 DEF D!DOpen, D!Fds, Fds, D!lifeVars, lifeVars, Table, D!Closed
    <2> QED BY <2>6
  <1>6. CASE opened_files' = opened_files
    <2>1. \A i \in Slots : \A d \in Fds : Shown(i, d)' = Shown(i, d)
      BY <1>0, <1>3, <1>4, <1>6 DEF Shown, NULL
    <2> QED BY <1>2, <2>1, SameShown
  <1> QED BY <1>1, <1>5, <1>6 DEF kproc_file_add

LEMMA DReadStep ==
  ASSUME IInv, NEW fd \in Fds, NEW n \in ReadSizes, filesystem_file_read(fd, n)
  PROVE  D!DRead(fd, n)
  <1> DEFINE h == opened_files[current][fd]
             f == os_files[h].filesystem_file_idx
             c == CursorAfter(os_files[h].rwpos, n, Size[f])
  <1>0. /\ os_files \in [Handles -> OsFile]
        /\ opened_files \in [Slots -> [Fds -> Handles \cup {NULL}]]
        /\ current \in Slots
    BY DEF IInv, TypeOK, LifeTypeOK
  <1>1. /\ cpu = "user" /\ h # NULL /\ os_files' = [os_files EXCEPT ![h].rwpos = c]
        /\ live' = live /\ current' = current /\ cpu' = cpu /\ opened_files' = opened_files
    BY DEF filesystem_file_read
  <1>2. h \in Handles
    BY <1>0, <1>1
  <1>3. f \in Files /\ os_files[h].rwpos \in Nat /\ os_files[h].rwpos <= Size[f]
    BY <1>0, <1>1, <1>2 DEF IInv, ExclusiveHandle, UsedNamesFile, CursorInFile, OsFile
  <1>4. Size[f] \in Nat /\ n \in Nat
    BY <1>3, TableAssumption
  <1>5. c = IF os_files[h].rwpos + n <= Size[f] THEN os_files[h].rwpos + n ELSE Size[f]
    BY <1>3, <1>4, CursorFacts
  <1>6. c = D!Advance(f, os_files[h].rwpos, n)
    BY <1>5 DEF D!Advance
  <1> HIDE DEF c
  <1>7. /\ \A g \in Handles : g # h => os_files'[g] = os_files[g]
        /\ os_files'[h].filesystem_file_idx = f /\ os_files'[h].rwpos = c
    BY <1>0, <1>1, <1>2 DEF OsFile
  <1>8. \A i \in Slots : \A d \in Fds :
          ~(i = current /\ d = fd) => opened_files[i][d] # h
    BY <1>0, <1>1 DEF IInv, ExclusiveHandle
  <1>9. Shown(current, fd) = [file |-> f, pos |-> os_files[h].rwpos]
    BY <1>1 DEF Shown
  <1>10. \A i \in Slots : \A d \in Fds : Shown(i, d)' =
           IF i = current /\ d = fd THEN [file |-> f, pos |-> c] ELSE Shown(i, d)
    <2> SUFFICES ASSUME NEW i \in Slots, NEW d \in Fds
                 PROVE  Shown(i, d)' =
                          IF i = current /\ d = fd THEN [file |-> f, pos |-> c] ELSE Shown(i, d)
      OBVIOUS
    <2>1. CASE i = current /\ d = fd
      BY <1>1, <1>7, <2>1 DEF Shown, NULL
    <2>2. CASE ~(i = current /\ d = fd)
      BY <1>0, <1>1, <1>7, <1>8, <2>2 DEF Shown, NULL
    <2> QED BY <2>1, <2>2
  <1>11. Table' = [Table EXCEPT ![current][fd] = [file |-> f, pos |-> c]]
    BY <1>0, <1>10, OneShown
  <1>12. /\ Table[current][fd] = [file |-> f, pos |-> os_files[h].rwpos]
         /\ Table[current][fd] # D!Closed
    BY <1>0, <1>1, <1>9, ShownClosed DEF Table
  <1>13. Table' = [Table EXCEPT ![current][fd] =
                     [file |-> Table[current][fd].file,
                      pos |-> D!Advance(Table[current][fd].file, Table[current][fd].pos, n)]]
    <2>1. /\ Table[current][fd].file = f
          /\ Table[current][fd].pos = os_files[h].rwpos
      BY <1>12
    <2> QED BY <1>6, <1>11, <2>1
  <1> QED BY <1>1, <1>12, <1>13 DEF D!DRead, D!lifeVars, Table

LEMMA DCloseStep ==
  ASSUME IInv, NEW fd \in Fds, filesystem_file_close(fd)
  PROVE  D!DClose(fd)
  <1> DEFINE h == opened_files[current][fd]
  <1>0. /\ os_files \in [Handles -> OsFile]
        /\ opened_files \in [Slots -> [Fds -> Handles \cup {NULL}]]
        /\ current \in Slots
    BY DEF IInv, TypeOK, LifeTypeOK
  <1>1. /\ cpu = "user" /\ h # NULL
        /\ opened_files' = [opened_files EXCEPT ![current][fd] = NULL]
        /\ os_files' = [os_files EXCEPT ![h] = Unused]
        /\ live' = live /\ current' = current /\ cpu' = cpu
    BY DEF filesystem_file_close, lifeVars
  <1>2. /\ \A g \in Handles : g # h => os_files'[g] = os_files[g]
        /\ \A i \in Slots : \A d \in Fds : opened_files'[i][d] =
             IF i = current /\ d = fd THEN NULL ELSE opened_files[i][d]
    BY <1>0, <1>1
  <1>3. \A i \in Slots : \A d \in Fds :
          ~(i = current /\ d = fd) => opened_files[i][d] # h
    BY <1>0, <1>1 DEF IInv, ExclusiveHandle
  <1>4. \A i \in Slots : \A d \in Fds : Shown(i, d)' =
          IF i = current /\ d = fd THEN [file |-> NoFile, pos |-> 0] ELSE Shown(i, d)
    <2> SUFFICES ASSUME NEW i \in Slots, NEW d \in Fds
                 PROVE  Shown(i, d)' =
                          IF i = current /\ d = fd THEN [file |-> NoFile, pos |-> 0] ELSE Shown(i, d)
      OBVIOUS
    <2>1. CASE i = current /\ d = fd
      BY <1>2, <2>1 DEF Shown, NULL
    <2>2. CASE ~(i = current /\ d = fd)
      BY <1>0, <1>2, <1>3, <2>2 DEF Shown, NULL
    <2> QED BY <2>1, <2>2
  <1>5. Table' = [Table EXCEPT ![current][fd] = D!Closed]
    BY <1>0, <1>4, OneShown DEF D!Closed
  <1>6. Table[current][fd] # D!Closed
    BY <1>0, <1>1, ShownClosed DEF Table
  <1> QED BY <1>1, <1>5, <1>6 DEF D!DClose, D!lifeVars, Table

\* The life cycle is the same in both specifications.
LEMMA SameLife ==
  /\ LifeNext => D!LifeNext
  /\ LifeInit => D!LifeInit
  BY DEF LifeNext, Create, Dispatch, Fork, Kill, Yield, Exit, Halt, LifeInit, Slots,
     D!LifeNext, D!Create, D!Dispatch, D!Fork, D!Kill, D!Yield, D!Exit, D!Halt, D!LifeInit, D!Slots

LEMMA DNextStep ==
  ASSUME IInv, [Next]_vars
  PROVE  [D!DNext]_(D!dvars)
  <1> USE DEF D!DNext, D!dvars
  <1>0. D!Fds = Fds
    BY DEF D!Fds, Fds
  <1>1. CASE \E f \in Files : filesystem_file_open(f)
    <2>1. PICK f \in Files : filesystem_file_open(f)
      BY <1>1
    <2>2. CASE D!DOpen(f)
      BY <2>2
    <2>3. CASE Table' = Table /\ UNCHANGED lifeVars
      BY <2>3 DEF lifeVars, Table
    <2> QED BY <2>1, <2>2, <2>3, DOpenStep
  <1>2. CASE \E fd \in Fds, n \in ReadSizes : filesystem_file_read(fd, n)
    BY <1>0, <1>2, DReadStep
  <1>3. CASE \E fd \in Fds : filesystem_file_close(fd)
    BY <1>0, <1>3, DCloseStep
  <1>4. CASE ReadClosed \/ ProcessStep
    <2>1. LifeNext /\ os_files' = os_files /\ opened_files' = opened_files
      BY <1>4 DEF ReadClosed, ProcessStep, LifeNext
    <2>2. \A i \in Slots : \A d \in Fds : Shown(i, d)' = Shown(i, d)
      BY <2>1 DEF Shown, NULL
    <2>3. Table' = Table
      BY <2>2, SameShown
    <2>4. D!LifeNext
      BY <2>1, SameLife
    <2> QED BY <2>3, <2>4 DEF Table
  <1>5. CASE UNCHANGED vars
    <2>1. \A i \in Slots : \A d \in Fds : Shown(i, d)' = Shown(i, d)
      BY <1>5 DEF vars, Shown, NULL
    <2>2. Table' = Table
      BY <2>1, SameShown
    <2> QED BY <1>5, <2>2 DEF vars, Table
  <1> QED BY <1>1, <1>2, <1>3, <1>4, <1>5 DEF Next

\* The system-wide table is invisible: open, read and close behave as if every
\* process had a private table of files and positions.
THEOREM Refinement == Spec => ImplementsDescriptors
  <1>1. Init => D!DInit
    <2> SUFFICES ASSUME Init PROVE D!DInit
      OBVIOUS
    <2>1. \A i \in Slots : \A fd \in Fds : Shown(i, fd) = D!Closed
      BY DEF Init, Shown, D!Closed
    <2>2. Table = [i \in Slots |-> [fd \in Fds |-> D!Closed]]
      BY <2>1 DEF Table
    <2>3. D!LifeInit
      BY SameLife DEF Init
    <2> QED BY <2>2, <2>3 DEF D!DInit, D!Slots, Slots, D!Fds, Fds, Table
  <1>2. IInv /\ [Next]_vars => [D!DNext]_(D!dvars)
    BY DNextStep
  <1> QED BY <1>1, <1>2, Invariance, PTL DEF Spec, ImplementsDescriptors, D!DSpec
=============================================================================
