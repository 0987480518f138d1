----------------------------- MODULE DiskProofs -----------------------------
(***************************************************************************)
(* Proofs about Disk, for every disk, every size of memory and tables and  *)
(* every modulus of the counters: the device is started before it is used, *)
(* the virtqueue has its two pages to itself, the driver waits for the     *)
(* answer it needs, no file runs out of its entry, and what the loading    *)
(* leaves in memory is what tar has written on the disk.                   *)
(***************************************************************************)
EXTENDS Disk, FoldLemmas, TLAPS

Index == 0 .. IndexModulus - 1

Types ==
  /\ blk_req \in [page : Int, sector : Int, data : Int, status : Int]
  /\ queue \in [avail : Index, used : Index, last_used_index : Index]
  /\ device \in [status : SUBSET Nat, served : Index, failed : SUBSET Int]
  /\ stage \in {"idle", "notified", "waiting"}
  /\ buffer \in Int
  /\ current_sector \in Nat

\* Requests are made in filesystem_init, after the device has been started.
Started ==
  /\ boot \in {"header", "data"} => DriverOkBit \in device.status
  /\ stage # "idle" => boot \in {"header", "data"}

\* The counters: all agree between requests; the device has answered all
\* requests but possibly the one just sent, which the driver counts last.
Counters ==
  /\ queue.used = device.served
  /\ queue.used # queue.avail => Inc(queue.used) = queue.avail
  /\ stage = "idle" => queue.last_used_index = queue.avail /\ queue.used = queue.avail
  /\ stage = "notified" => Inc(queue.last_used_index) = queue.avail
  /\ stage = "waiting" => queue.last_used_index = queue.avail

\* The virtqueue is the two pages below the kernel's, the request the one below
\* them, and what is below that is free.
Pages ==
  /\ boot = "init" => vq = 0 /\ free = SubSeq(kmem_init, KernelPages + 1, RamPages)
  /\ vq # 0 => /\ vq = RamPages - KernelPages - 1
               /\ blk_req.page = RamPages - KernelPages - 2
               /\ Range(free) \subseteq 1 .. RamPages - KernelPages - 3
  /\ vq = 0 => blk_req.page = 0

Protocol == Types /\ Started /\ Counters /\ Pages

----------------------------------------------------------------------------
\* The next value of a counter is another one.
LEMMA IncFacts ==
  ASSUME NEW i \in Index
  PROVE  Inc(i) \in Index /\ Inc(i) # i
  <1>1. IndexModulus \in Nat /\ IndexModulus > 1
    BY DiskAssumption
  <1>2. CASE i + 1 < IndexModulus
    <2>1. (i + 1) % IndexModulus = i + 1
      BY <1>1, <1>2 DEF Index
    <2> QED BY <2>1, <1>1, <1>2 DEF Inc, Index
  <1>3. CASE i + 1 = IndexModulus
    <2>1. IndexModulus % IndexModulus = 0
      BY <1>1
    <2> QED BY <2>1, <1>1, <1>3 DEF Inc, Index
  <1> QED BY <1>1, <1>2, <1>3 DEF Index

\* What kmem_init leaves to the driver.
LEMMA FreeFacts ==
  LET f == SubSeq(kmem_init, KernelPages + 1, RamPages)
  IN /\ f[2] = RamPages - KernelPages - 1
     /\ f[3] = RamPages - KernelPages - 2
     /\ Range(SubSeq(f, 4, Len(f))) \subseteq 1 .. RamPages - KernelPages - 3
  <1> DEFINE f == SubSeq(kmem_init, KernelPages + 1, RamPages)
  <1>1. KernelPages \in Nat /\ RamPages \in Nat /\ RamPages >= KernelPages + 3
    BY DiskAssumption
  <1>2. kmem_init \in Seq(Int)
    BY <1>1 DEF kmem_init
  <1>3. /\ f \in Seq(Int) /\ Len(f) = RamPages - KernelPages
        /\ \A i \in 1 .. RamPages - KernelPages : f[i] = RamPages - KernelPages + 1 - i
    BY <1>1, <1>2 DEF kmem_init
  <1> HIDE DEF f
  <1>4. Range(SubSeq(f, 4, Len(f))) \subseteq 1 .. RamPages - KernelPages - 3
    <2> DEFINE g == SubSeq(f, 4, Len(f))
    <2>1. /\ DOMAIN g = 1 .. RamPages - KernelPages - 3
          /\ \A i \in 1 .. RamPages - KernelPages - 3 : g[i] = f[i + 3]
      BY <1>1, <1>3
    <2> HIDE DEF g
    <2>2. \A i \in DOMAIN g : g[i] \in 1 .. RamPages - KernelPages - 3
      <3> SUFFICES ASSUME NEW i \in 1 .. RamPages - KernelPages - 3
                   PROVE  g[i] \in 1 .. RamPages - KernelPages - 3
        BY <2>1
      <3>1. i + 3 \in 1 .. RamPages - KernelPages
        BY <1>1
      <3>2. g[i] = RamPages - KernelPages + 1 - (i + 3)
        BY <1>3, <2>1, <3>1
      <3> QED BY <1>1, <3>2
    <2>3. Range(g) \subseteq 1 .. RamPages - KernelPages - 3
      BY <2>2 DEF Range
    <2> QED BY <2>3 DEF g
  <1>5. f[2] = RamPages - KernelPages - 1 /\ f[3] = RamPages - KernelPages - 2
    BY <1>1, <1>3
  <1> QED BY <1>4, <1>5 DEF f

LEMMA InitProtocol == DiskInit => Protocol
  BY DiskAssumption DEF DiskInit, Protocol, Types, Started, Counters, Pages, Index, NoSector

LEMMA SendProtocol ==
  ASSUME Protocol, boot \in {"header", "data"}, boot' = boot,
         NEW s \in Int, Send(s), UNCHANGED <<memory, device, buffer, current_sector>>
  PROVE  Protocol'
  <1>1. Inc(queue.avail) \in Index /\ Inc(queue.avail) # queue.avail
    BY IncFacts DEF Protocol, Types
  <1> QED BY <1>1 DEF Protocol, Types, Started, Counters, Pages, Send, memory

LEMMA ReturnProtocol ==
  ASSUME Protocol, stage = "waiting", ~virtq_is_busy, stage' = "idle",
         UNCHANGED <<memory, blk_req, queue, device>>,
         boot' \in {"header", "data", "loaded", "panic"},
         buffer' \in Int, current_sector' \in Nat
  PROVE  Protocol'
  BY DEF Protocol, Types, Started, Counters, Pages, virtq_is_busy, memory

LEMMA ServeProtocol ==
  ASSUME Protocol, NEW ok \in BOOLEAN, Serve(ok)
  PROVE  Protocol'
  <1>1. device.served # queue.avail
    BY DEF Serve
  <1>2. Inc(queue.used) \in Index /\ Inc(queue.used) = queue.avail
    BY <1>1, IncFacts DEF Protocol, Types, Counters
  <1>3. queue.used = device.served /\ Types
    BY DEF Protocol, Counters
  <1>4. queue' = [queue EXCEPT !.used = Inc(@)] /\ UNCHANGED <<memory, stage, loader>>
    BY DEF Serve
  <1>5. /\ device' \in [status : SUBSET Nat, served : Index, failed : SUBSET Int]
        /\ device'.status = device.status /\ device'.served = Inc(device.served)
        /\ blk_req' \in [page : Int, sector : Int, data : Int, status : Int]
        /\ blk_req'.page = blk_req.page
    <2>1. CASE ok = TRUE
      <3>1. /\ blk_req' = [blk_req EXCEPT !.data = blk_req.sector, !.status = 0]
            /\ device' = [device EXCEPT !.served = Inc(@), !.failed = @]
        BY <2>1 DEF Serve
      <3>2. /\ device' \in [status : SUBSET Nat, served : Index, failed : SUBSET Int]
            /\ device'.status = device.status /\ device'.served = Inc(device.served)
        BY <3>1, <1>2, <1>3 DEF Types
      <3>3. /\ blk_req' \in [page : Int, sector : Int, data : Int, status : Int]
            /\ blk_req'.page = blk_req.page
        <4> DEFINE r == [blk_req EXCEPT !.data = blk_req.sector]
        <4>1. r \in [page : Int, sector : Int, data : Int, status : Int] /\ r.page = blk_req.page
          BY <1>3 DEF Types
        <4>2. blk_req' = [r EXCEPT !.status = 0]
          BY <3>1
        <4> HIDE DEF r
        <4> QED BY <4>1, <4>2
      <3> QED BY <3>2, <3>3
    <2>2. CASE ok = FALSE
      <3>1. /\ blk_req' = [blk_req EXCEPT !.status = 1]
            /\ device' = [device EXCEPT !.served = Inc(@), !.failed = @ \cup {blk_req.sector}]
        BY <2>2 DEF Serve
      <3>2. /\ device' \in [status : SUBSET Nat, served : Index, failed : SUBSET Int]
            /\ device'.status = device.status /\ device'.served = Inc(device.served)
        BY <3>1, <1>2, <1>3 DEF Types
      <3>3. /\ blk_req' \in [page : Int, sector : Int, data : Int, status : Int]
            /\ blk_req'.page = blk_req.page
        BY <3>1, <1>3 DEF Types
      <3> QED BY <3>2, <3>3
    <2> QED BY <2>1, <2>2
  <1> QED BY <1>1, <1>2, <1>4, <1>5 DEF loader, memory, Protocol, Types, Started, Counters, Pages

LEMMA NextProtocol == Protocol /\ [DiskNext]_diskVars => Protocol'
  <1> SUFFICES ASSUME Protocol, [DiskNext]_diskVars PROVE Protocol'
    OBVIOUS
  <1> USE DEF memory, channel, loader
  <1>1. CASE virtio_blk_init
    <2>1. vq' = free[2] /\ blk_req' = [blk_req EXCEPT !.page = free[3]]
      BY <1>1 DEF virtio_blk_init
    <2>2. Pages' /\ blk_req'.page \in Int
      <3>1. free = SubSeq(kmem_init, KernelPages + 1, RamPages)
        BY <1>1 DEF virtio_blk_init, Protocol, Pages
      <3>2. /\ vq' = RamPages - KernelPages - 1
            /\ free[3] = RamPages - KernelPages - 2
            /\ Range(free') \subseteq 1 .. RamPages - KernelPages - 3
        BY <1>1, <2>1, <3>1, FreeFacts DEF virtio_blk_init
      <3>3. blk_req'.page = free[3]
        BY <2>1 DEF Protocol, Types
      <3> QED BY <1>1, <3>2, <3>3, DiskAssumption DEF virtio_blk_init, Pages
    <2>3. Types'
      <3>1. blk_req' \in [page : Int, sector : Int, data : Int, status : Int]
        <4>1. free[3] \in Int
          BY <2>1, <2>2 DEF Protocol, Types
        <4> QED BY <2>1, <4>1 DEF Protocol, Types
      <3>2. device' \in [status : SUBSET Nat, served : Index, failed : SUBSET Int]
        <4> DEFINE bits == Found \cup VIRTIO_STATUS_FEATURES_OK \cup VIRTIO_STATUS_DIRVER_OK
        <4>1. bits \in SUBSET Nat
          BY DEF Found, VIRTIO_STATUS_ACKNOWLEDGE, VIRTIO_STATUS_DRIVER,
               VIRTIO_STATUS_FEATURES_OK, VIRTIO_STATUS_DIRVER_OK
        <4>2. device' = [device EXCEPT !.status = bits]
          BY <1>1 DEF virtio_blk_init
        <4> HIDE DEF bits
        <4> QED BY <4>1, <4>2 DEF Protocol, Types
      <3> QED BY <1>1, <3>1, <3>2 DEF virtio_blk_init, Protocol, Types
    <2>4. Started' /\ Counters'
      BY <1>1 DEF virtio_blk_init, Protocol, Types, Started, Counters,
           VIRTIO_STATUS_FEATURES_OK, DriverOkBit
    <2> QED BY <2>2, <2>3, <2>4 DEF Protocol
  <1>2. CASE NoDisk
    BY <1>2 DEF NoDisk, Protocol, Types, Started, Counters, Pages, Found,
         VIRTIO_STATUS_ACKNOWLEDGE, VIRTIO_STATUS_DRIVER
  <1>3. CASE virtq_kick
    BY <1>3, IncFacts DEF virtq_kick, Protocol, Types, Started, Counters, Pages
  <1>4. CASE ReadHeader
    BY <1>4, SendProtocol DEF ReadHeader, Protocol, Types
  <1>5. CASE HeaderRead
    BY <1>5, ReturnProtocol DEF HeaderRead, Returned, Protocol, Types
  <1>6. CASE AllRead
    BY <1>6 DEF AllRead, Protocol, Types, Started, Counters, Pages
  <1>7. CASE ReadData
    BY <1>7, SendProtocol DEF ReadData, Protocol, Types
  <1>8. CASE DataRead
    BY <1>8, ReturnProtocol DEF DataRead, Returned, Store, Protocol, Types
  <1>9. CASE PastTheEnd
    BY <1>9 DEF PastTheEnd, Store, Protocol, Types, Started, Counters, Pages
  <1>10. CASE FileRead
    BY <1>10 DEF FileRead, Protocol, Types, Started, Counters, Pages
  <1>11. CASE DeviceStep
    BY <1>11, ServeProtocol DEF DeviceStep
  <1>12. CASE UNCHANGED diskVars
    BY <1>12 DEF diskVars, Protocol, Types, Started, Counters, Pages, Inc
  <1> QED BY <1>1, <1>2, <1>3, <1>4, <1>5, <1>6, <1>7, <1>8, <1>9, <1>10, <1>11, <1>12
          DEF DiskNext, LoadStep

LEMMA ProtocolInvariant == DiskSpec => []Protocol
  <1>1. DiskInit => Protocol
    BY InitProtocol
  <1>2. Protocol /\ [DiskNext]_diskVars => Protocol'
    BY NextProtocol
  <1> QED BY <1>1, <1>2, PTL DEF DiskSpec

\* No request is made before the device has been told DRIVER_OK
\* (virtio_blk_init, virtio_rw).
THEOREM DeviceIsStarted == DiskSpec => []DriverOkFirst
  <1>1. Protocol => DriverOkFirst
    BY DEF Protocol, Started, DriverOkFirst
  <1> QED BY <1>1, ProtocolInvariant, PTL

\* The queue's two pages are adjacent and nobody else's, for every number of
\* pages the kernel has taken before (virtq_init, kmem_init).
THEOREM QueueHasItsPages == DiskSpec => []VirtqMemory
  <1>1. \A i \in 1 .. KernelPages : SubSeq(kmem_init, 1, KernelPages)[i] = RamPages + 1 - i
    <2>1. kmem_init \in Seq(Int) /\ Len(kmem_init) = RamPages
      BY DiskAssumption DEF kmem_init
    <2> QED BY <2>1, DiskAssumption DEF kmem_init
  <1>2. \A p \in Range(SubSeq(kmem_init, 1, KernelPages)) : p > RamPages - KernelPages
    <2>1. DOMAIN SubSeq(kmem_init, 1, KernelPages) = 1 .. KernelPages
      BY DiskAssumption DEF kmem_init
    <2> QED BY <1>1, <2>1, DiskAssumption DEF Range
  <1>3. Protocol => VirtqMemory
    BY <1>2, DiskAssumption DEF Protocol, Pages, VirtqMemory
  <1> QED BY <1>3, ProtocolInvariant, PTL

\* The driver takes the data of a request only when the device has answered
\* it, for every modulus of the counters (virtq_kick, virtq_is_busy).
THEOREM RequestsComplete == DiskSpec => RequestCompleted
  <1>1. ASSUME Protocol, DiskNext, stage = "waiting", stage' = "idle"
        PROVE  ~virtq_is_busy
    BY <1>1 DEF DiskNext, LoadStep, DeviceStep, virtio_blk_init, NoDisk, virtq_kick,
         ReadHeader, ReadData, Send, HeaderRead, DataRead, Returned, AllRead,
         PastTheEnd, FileRead, Serve, channel
  <1>2. Protocol /\ [DiskNext]_diskVars =>
          [stage = "waiting" /\ stage' = "idle" => device.served = queue.avail]_diskVars
    BY <1>1 DEF Protocol, Counters, virtq_is_busy
  <1> QED BY <1>2, ProtocolInvariant, PTL DEF DiskSpec, RequestCompleted

----------------------------------------------------------------------------
(***************************************************************************)
(* The files.                                                              *)
(***************************************************************************)
MaxSectors == MAX_FILESIZE \div SECTOR_SIZE

Entries ==
  [name : {Header(b).name : b \in Int}, size : {oct2int(Header(b).digits) : b \in Int},
   data : Seq(Int)]

\* There is room for what is being read: an entry while a header is, a sector
\* while data is.
Room ==
  /\ filesystem_files \in Seq(Entries)
  /\ Len(filesystem_files) <= MAX_FS_FILES
  /\ \A k \in DOMAIN filesystem_files : Len(filesystem_files[k].data) <= MaxSectors
  /\ boot = "header" /\ stage # "idle" => Len(filesystem_files) < MAX_FS_FILES
  /\ boot = "data" => filesystem_files # <<>> /\ (CopiedSectors = MaxSectors => ~MoreData)
  /\ boot = "data" /\ stage # "idle" => MoreData

\* MAX_FILESIZE is a whole number of sectors.
LEMMA SectorFacts ==
  /\ SECTOR_SIZE \in Nat \ {0} /\ MAX_FILESIZE \in Nat \ {0} /\ MAX_FS_FILES \in Nat \ {0}
  /\ MaxSectors \in Nat \ {0} /\ MaxSectors * SECTOR_SIZE = MAX_FILESIZE
  <1>1. /\ SECTOR_SIZE \in Nat \ {0} /\ MAX_FILESIZE \in Nat \ {0} /\ MAX_FS_FILES \in Nat \ {0}
        /\ MAX_FILESIZE % SECTOR_SIZE = 0
    BY DiskAssumption
  <1>2. ASSUME NEW m \in Nat, NEW d \in Nat \ {0}, m % d = 0
        PROVE  m \div d \in Nat /\ (m \div d) * d = m
    BY <1>2
  <1>3. MaxSectors \in Nat /\ MaxSectors * SECTOR_SIZE = MAX_FILESIZE
    BY <1>1, <1>2 DEF MaxSectors
  <1>4. MaxSectors # 0
    BY <1>1, <1>3
  <1> QED BY <1>1, <1>3, <1>4

LEMMA InitRoom == DiskInit => Room
  BY SectorFacts DEF DiskInit, Room

\* A sector is added only where there is room, and the test of the size comes
\* before the next one.
LEMMA StoreRoom ==
  ASSUME Room, boot = "data", MoreData, stage' = "idle", UNCHANGED image,
         NEW b \in Int, Store(b)
  PROVE  Room'
  <1> DEFINE n == Len(filesystem_files)
             f == filesystem_files[n]
             g == [f EXCEPT !.data = Append(f.data, b)]
  <1>1. n \in DOMAIN filesystem_files /\ f \in Entries
    BY DEF Room
  <1>2. Len(f.data) \in Nat /\ Len(f.data) < MaxSectors
    <2>1. CopiedSectors = Len(f.data)
      BY DEF CopiedSectors, File, Last
    <2>2. f.data \in Seq(Int)
      BY <1>1 DEF Entries
    <2>3. Len(f.data) <= MaxSectors /\ Len(f.data) # MaxSectors
      BY <1>1, <2>1 DEF Room
    <2> QED BY <2>2, <2>3, SectorFacts
  <1>3. /\ g \in Entries /\ g.data = Append(f.data, b) /\ g.size = f.size
        /\ Len(g.data) = Len(f.data) + 1
    <2>1. f.data \in Seq(Int)
      BY <1>1 DEF Entries
    <2>2. Append(f.data, b) \in Seq(Int) /\ Len(Append(f.data, b)) = Len(f.data) + 1
      BY <2>1
    <2>3. g \in Entries /\ g.data = Append(f.data, b) /\ g.size = f.size
      BY <1>1, <2>2 DEF Entries
    <2> QED BY <2>2, <2>3
  <1>4. filesystem_files' = [filesystem_files EXCEPT ![n] = g]
    BY <1>1 DEF Store, Entries
  <1> HIDE DEF g
  <1>5. /\ filesystem_files' \in Seq(Entries) /\ Len(filesystem_files') = n
        /\ filesystem_files'[n] = g
        /\ \A k \in DOMAIN filesystem_files \ {n} : filesystem_files'[k] = filesystem_files[k]
        /\ DOMAIN filesystem_files' = DOMAIN filesystem_files
    BY <1>1, <1>3, <1>4 DEF Room
  <1>6. Entries' = Entries
    BY DEF Entries, Header, image
  <1>7. /\ CopiedSectors' = Len(f.data) + 1 /\ File'.size = f.size
        /\ CopiedSectors = Len(f.data) /\ File.size = f.size
    BY <1>3, <1>5 DEF CopiedSectors, File, Last
  <1>8. boot' = "data" => ~TooBig(CopiedSectors', File'.size)
    BY <1>7 DEF Store
  <1>9. boot' = "data" /\ CopiedSectors' = MaxSectors => ~MoreData'
    BY <1>8 DEF TooBig, MoreData, MaxSectors
  <1>10. \A k \in DOMAIN filesystem_files' : Len(filesystem_files'[k].data) <= MaxSectors
    BY <1>2, <1>3, <1>5, SectorFacts DEF Room
  <1>11. filesystem_files' # <<>> /\ n <= MAX_FS_FILES
    BY <1>1, <1>5 DEF Room
  <1>12. boot' \in {"data", "panic"}
    BY DEF Store
  <1> QED BY <1>5, <1>6, <1>9, <1>10, <1>11, <1>12 DEF Room

\* A header that was read has an entry to go to.
LEMMA HeaderRoom ==
  ASSUME Room, Protocol, HeaderRead
  PROVE  Room'
  <1> USE DEF Returned
  <1>1. PICK b \in {buffer, blk_req.data} :
          /\ Returned(buffer, b)
          /\ IF Header(b).name = NoName
             THEN /\ boot' = "loaded"
                  /\ UNCHANGED <<current_sector, filesystem_files>>
             ELSE /\ boot' = "data"
                  /\ current_sector' = current_sector + 1
                  /\ filesystem_files' = Append(filesystem_files,
                       [name |-> Header(b).name, size |-> oct2int(Header(b).digits), data |-> <<>>])
    BY DEF HeaderRead
  <1>2. b \in Int /\ Entries' = Entries /\ stage' = "idle" /\ stage # "idle"
    BY <1>1 DEF HeaderRead, Protocol, Types, Entries, Header, image
  <1>3. CASE Header(b).name = NoName
    BY <1>1, <1>2, <1>3 DEF Room
  <1>4. CASE Header(b).name # NoName
    <2> DEFINE e == [name |-> Header(b).name, size |-> oct2int(Header(b).digits), data |-> <<>>]
    <2>1. e \in Entries /\ e.data = <<>>
      BY <1>2 DEF Entries
    <2>2. filesystem_files' = Append(filesystem_files, e) /\ boot' = "data"
      BY <1>1, <1>4
    <2> HIDE DEF e
    <2>3. Len(filesystem_files) < MAX_FS_FILES
      BY <1>2 DEF HeaderRead, Room
    <2>4. /\ filesystem_files' \in Seq(Entries)
          /\ Len(filesystem_files') = Len(filesystem_files) + 1
          /\ filesystem_files'[Len(filesystem_files')] = e
          /\ \A k \in DOMAIN filesystem_files : filesystem_files'[k] = filesystem_files[k]
          /\ DOMAIN filesystem_files' = 1 .. Len(filesystem_files) + 1
          /\ DOMAIN filesystem_files = 1 .. Len(filesystem_files)
          /\ Len(filesystem_files) \in Nat
      BY <2>1, <2>2 DEF Room
    <2>5. CopiedSectors' = 0 /\ filesystem_files' # <<>>
      BY <2>1, <2>4 DEF CopiedSectors, File, Last
    <2>6. \A k \in DOMAIN filesystem_files' : Len(filesystem_files'[k].data) <= MaxSectors
      BY <2>1, <2>4, SectorFacts DEF Room
    <2>7. Len(filesystem_files') <= MAX_FS_FILES
      BY <2>3, <2>4, SectorFacts
    <2> QED BY <1>2, <2>2, <2>4, <2>5, <2>6, <2>7, SectorFacts DEF Room
  <1> QED BY <1>3, <1>4

\* Steps that leave the files alone.
LEMMA SameFiles ==
  ASSUME Room, UNCHANGED <<image, filesystem_files>>,
         boot' # boot => boot' # "data" /\ stage' = "idle",
         stage' # "idle" => \/ stage # "idle"
                            \/ boot = "data" /\ MoreData
                            \/ boot = "header" /\ MoreEntries
  PROVE  Room'
  <1>1. Entries' = Entries /\ CopiedSectors' = CopiedSectors /\ MoreData' = MoreData
    BY DEF Entries, Header, CopiedSectors, File, MoreData, image
  <1> QED BY <1>1 DEF Room, MoreEntries

LEMMA NextRoom == Room /\ Protocol /\ [DiskNext]_diskVars => Room'
  <1> SUFFICES ASSUME Room, Protocol, [DiskNext]_diskVars PROVE Room'
    OBVIOUS
  <1> USE DEF channel, loader
  <1>1. CASE HeaderRead
    BY <1>1, HeaderRoom
  <1>2. CASE DataRead
    <2>1. stage # "idle" /\ boot = "data" /\ stage' = "idle"
      BY <1>2 DEF DataRead, Returned
    <2>2. MoreData
      BY <2>1 DEF Room
    <2>3. PICK b \in {NoSector, blk_req.data} : Store(b)
      BY <1>2 DEF DataRead
    <2>4. b \in Int
      BY DEF Protocol, Types, NoSector
    <2> QED BY <1>2, <2>1, <2>2, <2>3, <2>4, StoreRoom DEF DataRead
  <1>3. CASE PastTheEnd
    <2>1. NoSector \in Int
      BY DEF NoSector
    <2> QED BY <1>3, <2>1, StoreRoom DEF PastTheEnd
  <1>4. CASE virtio_blk_init \/ NoDisk
    BY <1>4, SameFiles DEF virtio_blk_init, NoDisk, Protocol, Started
  <1>5. CASE virtq_kick
    BY <1>5, SameFiles DEF virtq_kick
  <1>6. CASE ReadHeader
    BY <1>6, SameFiles DEF ReadHeader
  <1>7. CASE ReadData
    BY <1>7, SameFiles DEF ReadData
  <1>8. CASE AllRead \/ FileRead
    BY <1>8, SameFiles DEF AllRead, FileRead
  <1>9. CASE DeviceStep
    BY <1>9, SameFiles DEF DeviceStep, Serve
  <1>10. CASE UNCHANGED diskVars
    BY <1>10, SameFiles DEF diskVars
  <1> QED BY <1>1, <1>2, <1>3, <1>4, <1>5, <1>6, <1>7, <1>8, <1>9, <1>10
          DEF DiskNext, LoadStep

\* Whatever is on the disk, and whichever reads fail, filesystem_init stays
\* inside filesystem_files and inside the data of every entry.
THEOREM FilesStayInEntries == DiskSpec => []FilesFit
  <1>1. DiskInit => Room
    BY InitRoom
  <1>2. Room /\ Protocol /\ [DiskNext]_diskVars => Room'
    BY NextRoom
  <1>3. Room => FilesFit
    <2> SUFFICES ASSUME Room PROVE FilesFit
      OBVIOUS
    <2>1. ASSUME NEW k \in DOMAIN filesystem_files
          PROVE  Len(filesystem_files[k].data) * SECTOR_SIZE <= MAX_FILESIZE
      <3>1. filesystem_files[k].data \in Seq(Int) /\ Len(filesystem_files[k].data) <= MaxSectors
        <4>1. filesystem_files[k] \in Entries
          BY <2>1 DEF Room
        <4> QED BY <2>1, <4>1 DEF Room, Entries
      <3>2. \A l \in Nat : l <= MaxSectors => l * SECTOR_SIZE <= MaxSectors * SECTOR_SIZE
        BY SectorFacts
      <3> QED BY <3>1, <3>2, SectorFacts
    <2> QED BY <2>1 DEF Room, FilesFit
  <1> QED BY <1>1, <1>2, <1>3, ProtocolInvariant, PTL DEF DiskSpec

----------------------------------------------------------------------------
(***************************************************************************)
(* The size of a file: oct2int reads what tar has written.                 *)
(***************************************************************************)
LEMMA WeightFacts ==
  /\ Weight[0] = 1
  /\ \A i \in 1 .. SizeDigits : Weight[i] = 8 * Weight[i - 1]
  /\ \A i \in 0 .. SizeDigits : Weight[i] \in Nat \ {0}
  <1> DEFINE Pos == Nat \ {0}
             step == [k \in 1 .. SizeDigits |-> [w \in Pos |-> 8 * w]]
             Is(f) == f = [i \in 0 .. SizeDigits |-> IF i = 0 THEN 1 ELSE 8 * f[i - 1]]
  <1>1. SizeDigits \in Nat
    BY DiskAssumption
  <1>2. step \in [1 .. SizeDigits -> [Pos -> Pos]] /\ 1 \in Pos
    OBVIOUS
  <1>3. PICK f : Iterates(f, Pos, 1, SizeDigits, step)
    <2> HIDE DEF step, Pos
    <2> QED BY <1>1, <1>2, Iteration
  <1>4. Is(f)
    <2>1. f \in [0 .. SizeDigits -> Pos] /\ f[0] = 1
      BY <1>3 DEF Iterates
    <2>2. ASSUME NEW i \in 1 .. SizeDigits
          PROVE  f[i] = 8 * f[i - 1]
      <3>1. f[i] = step[i][f[i - 1]]
        <4> HIDE DEF step, Pos
        <4> QED BY <1>3 DEF Iterates
      <3>2. f[i - 1] \in Pos
        BY <1>1, <2>1
      <3> QED BY <3>1, <3>2
    <2> QED BY <2>1, <2>2
  <1>5. Is(Weight)
    <2>1. Weight = CHOOSE g : Is(g)
      BY Zenon DEF Weight
    <2> QED BY <1>4, <2>1
  <1>6. Weight[0] = 1 /\ \A i \in 1 .. SizeDigits : Weight[i] = 8 * Weight[i - 1]
    <2> HIDE DEF Is
    <2>1. Weight = [i \in 0 .. SizeDigits |-> IF i = 0 THEN 1 ELSE 8 * Weight[i - 1]]
      BY <1>5 DEF Is
    <2> DEFINE W == Weight
    <2>2. W = [i \in 0 .. SizeDigits |-> IF i = 0 THEN 1 ELSE 8 * W[i - 1]]
      BY <2>1
    <2> HIDE DEF W
    <2>3. W[0] = 1 /\ \A i \in 1 .. SizeDigits : W[i] = 8 * W[i - 1]
      BY <1>1, <2>2
    <2> QED BY <2>3 DEF W
  <1>7. \A i \in 0 .. SizeDigits : Weight[i] \in Pos
    <2>1. Weight[0] \in Pos /\ \A k \in 1 .. SizeDigits : Weight[k - 1] \in Pos => Weight[k] \in Pos
      BY <1>6
    <2> HIDE DEF Pos
    <2> QED BY <1>1, <2>1, Throughout
  <1> QED BY <1>6, <1>7

LEMMA DivisionUnique ==
  ASSUME NEW m \in Nat \ {0}, NEW a \in Nat, NEW e \in 0 .. m - 1
  PROVE  (m * a + e) \div m = a
  <1> DEFINE n == m * a + e
             b == n \div m
             f == n % m
  <1>1. n \in Nat
    OBVIOUS
  <1>2. b \in Nat /\ f \in 0 .. m - 1 /\ n = m * b + f
    <2> HIDE DEF n
    <2> QED BY <1>1
  <1> HIDE DEF b, f
  <1>3. ~ (a > b)
    <2> SUFFICES ASSUME a >= b + 1 PROVE FALSE
      BY <1>2
    <2>1. m * a >= m * (b + 1)
      BY <1>2
    <2>2. m * (b + 1) = m * b + m
      BY <1>2
    <2> QED BY <1>2, <2>1, <2>2
  <1>4. ~ (b > a)
    <2> SUFFICES ASSUME b >= a + 1 PROVE FALSE
      BY <1>2
    <2>1. m * b >= m * (a + 1)
      BY <1>2
    <2>2. m * (a + 1) = m * a + m
      BY <1>2
    <2> QED BY <1>2, <2>1, <2>2
  <1> QED BY <1>2, <1>3, <1>4 DEF b

LEMMA NextDigit ==
  ASSUME NEW n \in Nat, NEW w \in Nat \ {0}
  PROVE  (n \div (8 * w)) * 8 + ((n \div w) % 8) = n \div w
  <1> DEFINE q == n \div w
             r == n % w
             a == q \div 8
             d == q % 8
  <1>1. q \in Nat /\ r \in 0 .. w - 1 /\ n = w * q + r
    OBVIOUS
  <1>2. a \in Nat /\ d \in 0 .. 7 /\ q = 8 * a + d
    <2> HIDE DEF q
    <2> QED BY <1>1
  <1> HIDE DEF q, r, a, d
  <1>3. n = (8 * w) * a + (w * d + r)
    <2>1. w * q = (8 * w) * a + w * d
      BY <1>1, <1>2
    <2> QED BY <1>1, <1>2, <2>1
  <1>4. w * d + r \in 0 .. 8 * w - 1
    <2>1. w * d <= w * 7 /\ w * d >= 0
      BY <1>2
    <2> QED BY <1>1, <1>2, <2>1
  <1>5. n \div (8 * w) = a
    <2> DEFINE m == 8 * w
               e == w * d + r
    <2>1. m \in Nat \ {0} /\ e \in 0 .. m - 1 /\ n = m * a + e
      BY <1>3, <1>4
    <2> HIDE DEF m, e
    <2>2. n \div m = a
      BY <1>2, <2>1, DivisionUnique
    <2> QED BY <2>2 DEF m
  <1>6. a * 8 + d = q
    BY <1>2
  <1> DEFINE x == n \div (8 * w)
  <1>7. x * 8 + d = q
    BY <1>5, <1>6
  <1> HIDE DEF x
  <1>8. x * 8 + ((n \div w) % 8) = n \div w
    BY <1>7 DEF q, d
  <1> QED BY <1>8 DEF x

LEMMA OctalValue ==
  ASSUME NEW n \in 0 .. Weight[SizeDigits] - 1
  PROVE  oct2int(Octal(n)) = n
  <1> DEFINE N == SizeDigits
             digits == Octal(n)
             step == [k \in 1 .. N |-> [v \in Int |-> v * 8 + digits[k]]]
             Is(it) == it = [s \in SUBSET DOMAIN digits |->
                               IF s = {} THEN 0
                               ELSE it[s \ {Max(s)}] * 8 + digits[Max(s)]]
             c == CHOOSE it : Is(it)
  <1>1. N \in Nat /\ n \in Nat /\ n < Weight[N]
    BY WeightFacts, DiskAssumption
  <1>2. /\ DOMAIN digits = 1 .. N
        /\ \A k \in 1 .. N : digits[k] = (n \div Weight[N - k]) % 8
    BY <1>1 DEF Octal
  <1>3. ASSUME NEW k \in 1 .. N
        PROVE  /\ N - k \in 0 .. N /\ Weight[N - k] \in Nat \ {0}
               /\ Weight[N - (k - 1)] = 8 * Weight[N - k]
               /\ digits[k] \in Int
    <2>1. N - k \in 0 .. N /\ N - (k - 1) \in 1 .. N /\ (N - (k - 1)) - 1 = N - k
      BY <1>1
    <2>2. Weight[N - k] \in Nat \ {0} /\ Weight[N - (k - 1)] = 8 * Weight[N - k]
      BY <2>1, WeightFacts
    <2>3. \A w \in Nat \ {0} : (n \div w) % 8 \in Int
      BY <1>1
    <2> QED BY <1>2, <2>1, <2>2, <2>3
  <1>4. oct2int(digits) = c[DOMAIN digits]
    BY Zenon DEF oct2int, FoldLeft, MapThenFoldSet
  <1> HIDE DEF digits
  <1>5. step \in [1 .. N -> [Int -> Int]]
    BY <1>3
  <1>6. PICK it \in [SUBSET (1 .. N) -> Int] : FoldOver(it, 0, N, step)
    <2>1. 0 \in Int
      OBVIOUS
    <2> HIDE DEF step
    <2> QED BY <1>1, <1>5, <2>1, FoldExists
  <1>7. Is(it)
    <2> SUFFICES \A s \in SUBSET (1 .. N) :
                   it[s] = IF s = {} THEN 0 ELSE it[s \ {Max(s)}] * 8 + digits[Max(s)]
      BY <1>2
    <2> TAKE s \in SUBSET (1 .. N)
    <2>1. it[s] = IF s = {} THEN 0 ELSE step[Max(s)][it[s \ {Max(s)}]]
      <3> HIDE DEF step
      <3> QED BY <1>6 DEF FoldOver
    <2>2. s # {} => Max(s) \in 1 .. N /\ it[s \ {Max(s)}] \in Int
      BY <1>1, MaxFacts
    <2> QED BY <2>1, <2>2
  <1>8. Is(c)
    BY <1>7
  <1> HIDE DEF c
  <1>9. /\ c[1 .. 0] = 0
        /\ \A k \in 1 .. N : c[1 .. k] = c[1 .. (k - 1)] * 8 + digits[k]
    <2>1. 1 .. 0 = {} /\ {} \in SUBSET (1 .. N)
      OBVIOUS
    <2>2. \A s \in SUBSET (1 .. N) :
            c[s] = IF s = {} THEN 0 ELSE c[s \ {Max(s)}] * 8 + digits[Max(s)]
      BY <1>2, <1>8
    <2>3. ASSUME NEW k \in 1 .. N
          PROVE  c[1 .. k] = c[1 .. (k - 1)] * 8 + digits[k]
      <3>1. /\ 1 .. k \in SUBSET (1 .. N) /\ 1 .. k # {}
            /\ Max(1 .. k) = k /\ (1 .. k) \ {k} = 1 .. (k - 1)
        BY <1>1, PrefixFacts
      <3> QED BY <2>2, <3>1
    <2> QED BY <2>1, <2>2, <2>3
  <1> DEFINE T == {k \in 0 .. N : c[1 .. k] = n \div Weight[N - k]}
  <1>10. 0 \in T
    <2>1. n \div Weight[N] = 0
      <3> DEFINE w == Weight[N]
      <3>1. w \in Nat \ {0} /\ n < w
        BY <1>1, WeightFacts
      <3> HIDE DEF w
      <3>2. n \div w = 0
        BY <1>1, <3>1
      <3> QED BY <3>2 DEF w
    <2>2. N - 0 = N /\ 0 \in 0 .. N
      BY <1>1
    <2>3. c[1 .. 0] = n \div Weight[N - 0]
      BY <1>9, <2>1, <2>2
    <2> QED BY <2>2, <2>3
  <1>11. ASSUME NEW k \in 1 .. N, k - 1 \in T
         PROVE  k \in T
    <2> DEFINE w == Weight[N - k]
    <2>1. w \in Nat \ {0} /\ Weight[N - (k - 1)] = 8 * w
      BY <1>3
    <2>2. c[1 .. (k - 1)] = n \div Weight[N - (k - 1)]
      BY <1>11
    <2>3. c[1 .. (k - 1)] = n \div (8 * w)
      BY <2>1, <2>2
    <2>4. digits[k] = (n \div w) % 8
      BY <1>2
    <2>5. c[1 .. k] = (n \div (8 * w)) * 8 + ((n \div w) % 8)
      BY <1>9, <2>3, <2>4
    <2> HIDE DEF w
    <2>6. (n \div (8 * w)) * 8 + ((n \div w) % 8) = n \div w
      BY <1>1, <2>1, NextDigit
    <2>7. c[1 .. k] = n \div w
      BY <2>5, <2>6
    <2>8. k \in 0 .. N
      BY <1>1
    <2> QED BY <2>7, <2>8 DEF w
  <1>12. c[1 .. N] = n \div Weight[N - N]
    <2>1. \A k \in 0 .. N : k \in T
      <3> HIDE DEF T
      <3> QED BY <1>1, <1>10, <1>11, UpTo
    <2>2. N \in 0 .. N
      BY <1>1
    <2>3. N \in T
      BY <2>1, <2>2
    <2> QED BY <2>3
  <1>13. N - N = 0 /\ n \div 1 = n
    BY <1>1
  <1>14. c[1 .. N] = n
    BY <1>12, <1>13, WeightFacts
  <1> QED BY <1>2, <1>4, <1>14 DEF digits

----------------------------------------------------------------------------
(***************************************************************************)
(* Where the files are on the disk.                                        *)
(***************************************************************************)
LEMMA SectorsOfFacts ==
  ASSUME NEW size \in Nat
  PROVE  /\ SectorsOf(size) \in Nat
         /\ \A m \in Nat : m * SECTOR_SIZE < size <=> m < SectorsOf(size)
  <1> DEFINE s == SECTOR_SIZE
             x == size + s - 1
             q == x \div s
             r == x % s
  <1>1. s \in Nat \ {0} /\ x \in Nat
    BY DiskAssumption
  <1>2. q \in Nat /\ r \in 0 .. s - 1 /\ x = s * q + r
    <2> HIDE DEF s, x
    <2> QED BY <1>1
  <1>3. SectorsOf(size) = q
    BY DEF SectorsOf
  <1>4. s * q >= size /\ s * q - s < size
    <2> HIDE DEF q, r
    <2>1. s * q = size + s - 1 - r
      BY <1>1, <1>2
    <2> QED BY <1>1, <1>2, <2>1
  <1> HIDE DEF q, r, x
  <1>5. ASSUME NEW m \in Nat
        PROVE  m * s < size <=> m < q
    <2>1. CASE m < q
      <3>1. m <= q - 1
        BY <1>2, <2>1
      <3>2. s * m <= s * (q - 1) /\ s * (q - 1) = s * q - s /\ s * m = m * s
        BY <1>1, <1>2, <3>1
      <3> QED BY <1>1, <1>2, <1>4, <2>1, <3>2
    <2>2. CASE m >= q
      <3>1. s * m >= s * q /\ s * m = m * s
        BY <1>1, <1>2, <2>2
      <3> QED BY <1>1, <1>2, <1>4, <2>2, <3>1
    <2> QED BY <1>2, <2>1, <2>2
  <1> QED BY <1>2, <1>3, <1>5

\* The files of an archive.
LEMMA ArchiveFacts ==
  ASSUME archive \in Archives
  PROVE  /\ archive \in Seq(Range(archive)) /\ Len(archive) \in Nat
         /\ DOMAIN archive = 1 .. Len(archive)
         /\ \A k \in 1 .. Len(archive) :
              /\ archive[k].name # NoName
              /\ archive[k].size \in Nat
              /\ archive[k].size \in 0 .. Weight[SizeDigits] - 1
              /\ SectorsOf(archive[k].size) \in Nat
  <1>1. archive \in Seq(Range(archive)) /\ \A k \in DOMAIN archive :
          archive[k].name # NoName /\ archive[k].size \in 0 .. Weight[SizeDigits] - 1
    BY ArchiveAssumption
  <1>2. Len(archive) \in Nat /\ DOMAIN archive = 1 .. Len(archive)
    BY <1>1
  <1>3. ASSUME NEW k \in 1 .. Len(archive)
        PROVE  archive[k].size \in Nat
    <2>1. archive[k].size \in 0 .. Weight[SizeDigits] - 1
      BY <1>1, <1>2
    <2> QED BY <2>1
  <1> QED BY <1>1, <1>2, <1>3, SectorsOfFacts

\* The sectors in front of each of n files and behind the last.
Adds(p, n) ==
  /\ p \in [0 .. n -> Nat]
  /\ p[0] = 0
  /\ \A j \in 1 .. n : p[j] = p[j - 1] + 1 + SectorsOf(archive[j].size)

LEMMA StartAdds ==
  ASSUME archive \in Archives, NEW k \in 1 .. Len(archive) + 1
  PROVE  \E p : Adds(p, k - 1) /\ Start(k) = p[k - 1]
  <1> DEFINE n == k - 1
             files == SubSeq(archive, 1, k - 1)
             step == [j \in 1 .. n |-> [v \in Nat |-> v + 1 + SectorsOf(files[j].size)]]
             Is(it) == it = [s \in SUBSET DOMAIN files |->
                               IF s = {} THEN 0
                               ELSE it[s \ {Max(s)}] + 1 + SectorsOf(files[Max(s)].size)]
             c == CHOOSE it : Is(it)
  <1>1. /\ n \in Nat /\ DOMAIN files = 1 .. n
        /\ \A j \in 1 .. n : files[j] = archive[j] /\ SectorsOf(archive[j].size) \in Nat
    <2>1. archive \in Seq(Range(archive)) /\ Len(archive) \in Nat
      BY ArchiveFacts
    <2>2. n \in Nat /\ n <= Len(archive)
      BY <2>1
    <2>3. DOMAIN files = 1 .. n /\ \A j \in 1 .. n : files[j] = archive[j]
      BY <2>1, <2>2
    <2>4. \A j \in 1 .. n : j \in 1 .. Len(archive)
      BY <2>1, <2>2
    <2> QED BY <2>2, <2>3, <2>4, ArchiveFacts
  <1>2. Start(k) = c[DOMAIN files]
    BY Zenon DEF Start, FoldLeft, MapThenFoldSet
  <1> HIDE DEF files, n
  <1>3. step \in [1 .. n -> [Nat -> Nat]]
    BY <1>1
  <1>4. PICK it \in [SUBSET (1 .. n) -> Nat] : FoldOver(it, 0, n, step)
    <2>1. 0 \in Nat
      OBVIOUS
    <2> HIDE DEF step
    <2> QED BY <1>1, <1>3, <2>1, FoldExists
  <1>5. Is(it)
    <2> SUFFICES \A s \in SUBSET (1 .. n) :
                   it[s] = IF s = {} THEN 0
                           ELSE it[s \ {Max(s)}] + 1 + SectorsOf(files[Max(s)].size)
      BY <1>1
    <2> TAKE s \in SUBSET (1 .. n)
    <2>1. it[s] = IF s = {} THEN 0 ELSE step[Max(s)][it[s \ {Max(s)}]]
      <3> HIDE DEF step
      <3> QED BY <1>4 DEF FoldOver
    <2>2. s # {} => Max(s) \in 1 .. n /\ it[s \ {Max(s)}] \in Nat
      BY <1>1, MaxFacts
    <2> QED BY <2>1, <2>2
  <1>6. Is(c)
    BY <1>5
  <1> HIDE DEF c
  <1>7. /\ c[1 .. 0] = 0
        /\ \A j \in 1 .. n : c[1 .. j] = c[1 .. (j - 1)] + 1 + SectorsOf(archive[j].size)
    <2>1. 1 .. 0 = {} /\ {} \in SUBSET (1 .. n)
      OBVIOUS
    <2>2. \A s \in SUBSET (1 .. n) :
            c[s] = IF s = {} THEN 0 ELSE c[s \ {Max(s)}] + 1 + SectorsOf(files[Max(s)].size)
      BY <1>1, <1>6
    <2>3. ASSUME NEW j \in 1 .. n
          PROVE  c[1 .. j] = c[1 .. (j - 1)] + 1 + SectorsOf(archive[j].size)
      <3>1. /\ 1 .. j \in SUBSET (1 .. n) /\ 1 .. j # {}
            /\ Max(1 .. j) = j /\ (1 .. j) \ {j} = 1 .. (j - 1)
        BY <1>1, PrefixFacts
      <3> QED BY <1>1, <2>2, <3>1
    <2> QED BY <2>1, <2>2, <2>3
  <1> DEFINE p == [j \in 0 .. n |-> c[1 .. j]]
  <1>8. p[0] = 0 /\ \A j \in 1 .. n : p[j] = p[j - 1] + 1 + SectorsOf(archive[j].size)
    BY <1>1, <1>7
  <1>9. \A j \in 0 .. n : p[j] \in Nat
    <2> HIDE DEF p
    <2>1. p[0] \in Nat /\ \A j \in 1 .. n : p[j - 1] \in Nat => p[j] \in Nat
      BY <1>1, <1>8
    <2> QED BY <1>1, <2>1, Throughout
  <1>10. Adds(p, n) /\ Start(k) = p[n]
    <2>1. p \in [0 .. n -> Nat]
      BY <1>9
    <2>2. Start(k) = p[n]
      BY <1>1, <1>2
    <2> HIDE DEF p
    <2> QED BY <1>8, <2>1, <2>2 DEF Adds
  <1> QED BY <1>10 DEF n

LEMMA AddsAgree ==
  ASSUME archive \in Archives, NEW n \in Nat, n + 1 <= Len(archive),
         NEW p, Adds(p, n), NEW q, Adds(q, n + 1)
  PROVE  \A j \in 0 .. n : p[j] = q[j]
  <1> DEFINE T == {j \in 0 .. n : p[j] = q[j]}
  <1>1. 0 \in T
    BY DEF Adds
  <1>2. ASSUME NEW j \in 1 .. n, j - 1 \in T
        PROVE  j \in T
    BY <1>2 DEF Adds
  <1>3. \A j \in 0 .. n : j \in T
    <2> HIDE DEF T
    <2> QED BY <1>1, <1>2, UpTo
  <1> QED BY <1>3

\* Where files start: the first at once, the next one behind the sectors of the
\* one before.
LEMMA StartFacts ==
  ASSUME archive \in Archives
  PROVE  /\ Start(1) = 0
         /\ \A k \in 1 .. Len(archive) + 1 : Start(k) \in Nat
         /\ \A k \in 1 .. Len(archive) : Start(k + 1) = Start(k) + 1 + SectorsOf(archive[k].size)
  <1>1. Len(archive) \in Nat
    BY ArchiveFacts
  <1>2. ASSUME NEW k \in 1 .. Len(archive) + 1
        PROVE  Start(k) \in Nat /\ (k = 1 => Start(k) = 0)
    <2>1. PICK p : Adds(p, k - 1) /\ Start(k) = p[k - 1]
      BY StartAdds
    <2>2. k - 1 \in 0 .. k - 1
      BY <1>1
    <2> QED BY <2>1, <2>2 DEF Adds
  <1>3. ASSUME NEW k \in 1 .. Len(archive)
        PROVE  Start(k + 1) = Start(k) + 1 + SectorsOf(archive[k].size)
    <2>1. k \in 1 .. Len(archive) + 1 /\ k + 1 \in 1 .. Len(archive) + 1 /\ (k + 1) - 1 = k
      BY <1>1
    <2>2. PICK p : Adds(p, k - 1) /\ Start(k) = p[k - 1]
      BY <2>1, StartAdds
    <2>3. PICK q : Adds(q, k) /\ Start(k + 1) = q[k]
      BY <2>1, StartAdds
    <2>4. q[k] = q[k - 1] + 1 + SectorsOf(archive[k].size)
      BY <1>1, <2>3 DEF Adds
    <2>5. p[k - 1] = q[k - 1]
      <3>1. k - 1 \in Nat /\ (k - 1) + 1 = k /\ k <= Len(archive) /\ k - 1 \in 0 .. k - 1
        BY <1>1
      <3> QED BY <2>2, <2>3, <3>1, AddsAgree
    <2> QED BY <2>2, <2>3, <2>4, <2>5
  <1>4. 1 \in 1 .. Len(archive) + 1
    BY <1>1
  <1> QED BY <1>2, <1>3, <1>4

\* Files do not overlap.
LEMMA StartGrows ==
  ASSUME archive \in Archives, NEW l \in 1 .. Len(archive) + 1, NEW k \in 1 .. l - 1
  PROVE  Start(k) + SectorsOf(archive[k].size) < Start(l)
  <1> DEFINE n == Len(archive)
             T == {i \in 0 .. n : k <= i => Start(k) + SectorsOf(archive[k].size) < Start(i + 1)}
  <1>1. n \in Nat /\ k \in 1 .. n /\ k \in 1 .. n + 1 /\ SectorsOf(archive[k].size) \in Nat
    BY ArchiveFacts
  <1>2. 0 \in T
    BY <1>1
  <1>3. ASSUME NEW i \in 1 .. n, i - 1 \in T
        PROVE  i \in T
    <2>1. /\ Start(i + 1) = Start(i) + 1 + SectorsOf(archive[i].size)
          /\ Start(i) \in Nat /\ Start(k) \in Nat /\ SectorsOf(archive[i].size) \in Nat
      BY <1>1, StartFacts, ArchiveFacts
    <2>2. CASE k = i
      BY <1>1, <2>1, <2>2
    <2>3. CASE k # i /\ k <= i
      <3>1. k <= i - 1 /\ (i - 1) + 1 = i
        BY <1>1, <2>3
      <3>2. Start(k) + SectorsOf(archive[k].size) < Start(i)
        BY <1>3, <3>1
      <3> QED BY <1>1, <2>1, <3>2
    <2> QED BY <1>1, <2>2, <2>3
  <1>4. \A i \in 0 .. n : i \in T
    <2> HIDE DEF T, n
    <2> QED BY <1>1, <1>2, <1>3, UpTo
  <1>5. l - 1 \in 0 .. n /\ k <= l - 1 /\ (l - 1) + 1 = l
    BY <1>1
  <1> QED BY <1>4, <1>5

HeaderOf(k) == [name |-> archive[k].name, digits |-> Octal(archive[k].size)]

\* What tar writes: every file's header where the file starts, and behind the
\* last file a sector of zeros.
LEMMA ImageFacts ==
  ASSUME archive \in Archives, NEW body
  PROVE  /\ \E S : Image(archive, body) \in Seq(S)
         /\ Len(Image(archive, body)) = Start(Len(archive) + 1) + 2
         /\ \A k \in 1 .. Len(archive) : Image(archive, body)[Start(k) + 1] = HeaderOf(k)
         /\ Image(archive, body)[Start(Len(archive) + 1) + 1] = Zero
  <1> DEFINE n == Len(archive)
             S == {HeaderOf(k) : k \in 1 .. n} \cup {body, Zero}
             data(k) == [j \in 1 .. SectorsOf(archive[k].size) |-> body]
             entry(k) == <<HeaderOf(k)>> \o data(k)
             seqs == [k \in 1 .. n |-> entry(k)]
             I == Image(archive, body)
  <1>1. n \in Nat /\ DOMAIN archive = 1 .. n
    BY ArchiveFacts
  <1>2. I = FlattenSeq(seqs) \o <<Zero, Zero>>
    BY <1>1 DEF Image, HeaderOf
  <1>3. ASSUME NEW k \in 1 .. n
        PROVE  /\ seqs[k] \in Seq(S)
               /\ Len(seqs[k]) = 1 + SectorsOf(archive[k].size)
               /\ seqs[k][1] = HeaderOf(k)
    <2>1. SectorsOf(archive[k].size) \in Nat
      BY ArchiveFacts
    <2>2. data(k) \in Seq(S) /\ Len(data(k)) = SectorsOf(archive[k].size)
      BY <2>1
    <2>3. <<HeaderOf(k)>> \in Seq(S) /\ Len(<<HeaderOf(k)>>) = 1 /\ <<HeaderOf(k)>>[1] = HeaderOf(k)
      OBVIOUS
    <2> DEFINE d == data(k)
               h == <<HeaderOf(k)>>
    <2>4. h \in Seq(S) /\ d \in Seq(S) /\ Len(h) = 1 /\ h[1] = HeaderOf(k)
      BY <2>2, <2>3
    <2>5. seqs[k] = h \o d /\ Len(d) = SectorsOf(archive[k].size)
      BY <2>2
    <2> HIDE DEF h, d, seqs, S
    <2>6. /\ h \o d \in Seq(S) /\ Len(h \o d) = Len(h) + Len(d)
          /\ \A i \in 1 .. Len(h) : (h \o d)[i] = h[i]
      BY <2>4, ConcatFacts
    <2>7. (h \o d)[1] = HeaderOf(k)
      BY <2>4, <2>6
    <2> QED BY <2>1, <2>4, <2>5, <2>6, <2>7
  <1>4. seqs \in Seq(Seq(S)) /\ Len(seqs) = n
    <2>1. DOMAIN seqs = 1 .. n /\ seqs = [k \in 1 .. n |-> seqs[k]]
      OBVIOUS
    <2> HIDE DEF seqs, S
    <2>2. seqs \in [1 .. n -> Seq(S)]
      BY <1>3, <2>1
    <2> HIDE DEF n
    <2> QED BY <1>1, <2>2
  <1> HIDE DEF seqs, S
  <1>5. PICK g \in [0 .. n -> Seq(S)] :
           /\ g[0] = <<>>
           /\ \A k \in 1 .. n : g[k] = g[k - 1] \o seqs[k]
           /\ FlattenSeq(seqs) = g[n]
    <2>1. \E g \in [0 .. Len(seqs) -> Seq(S)] :
            /\ g[0] = <<>>
            /\ \A k \in 1 .. Len(seqs) : g[k] = g[k - 1] \o seqs[k]
            /\ FlattenSeq(seqs) = g[Len(seqs)]
      BY <1>4, FlattenSteps
    <2> QED BY <1>4, <2>1
  <1> DEFINE Good(k) == /\ Len(g[k]) = Start(k + 1)
                        /\ \A j \in 1 .. k : g[k][Start(j) + 1] = HeaderOf(j)
             T == {k \in 0 .. n : Good(k)}
  <1>6. 0 \in T
    <2>1. Len(g[0]) = 0 /\ Start(0 + 1) = 0 /\ 0 \in 0 .. n /\ 1 .. 0 = {}
      BY <1>1, <1>5, StartFacts
    <2> QED BY <2>1
  <1>7. ASSUME NEW k \in 1 .. n, k - 1 \in T
        PROVE  k \in T
    <2>1. /\ (k - 1) + 1 = k /\ k - 1 \in 0 .. n /\ k \in 0 .. n /\ k \in 1 .. n + 1
          /\ SectorsOf(archive[k].size) \in Nat
          /\ Start(k) \in Nat /\ Start(k + 1) = Start(k) + 1 + SectorsOf(archive[k].size)
      BY <1>1, StartFacts, ArchiveFacts
    <2> DEFINE a == g[k - 1]
               b == seqs[k]
    <2>2. /\ a \in Seq(S) /\ b \in Seq(S) /\ g[k] = a \o b
          /\ Len(a) = Start(k) /\ Len(b) = 1 + SectorsOf(archive[k].size) /\ b[1] = HeaderOf(k)
          /\ \A j \in 1 .. k - 1 : a[Start(j) + 1] = HeaderOf(j)
      BY <1>3, <1>5, <1>7, <2>1
    <2> HIDE DEF a, b
    <2>3. Len(g[k]) = Start(k + 1)
      <3>1. Len(a \o b) = Len(a) + Len(b)
        BY <2>2, ConcatFacts
      <3> QED BY <2>1, <2>2, <3>1
    <2>4. g[k][Start(k) + 1] = HeaderOf(k)
      <3>1. 1 \in 1 .. Len(b)
        BY <2>1, <2>2
      <3>2. (a \o b)[Len(a) + 1] = b[1]
        BY <2>2, <3>1, ConcatFacts
      <3> QED BY <2>2, <3>2
    <2>5. ASSUME NEW j \in 1 .. k - 1
          PROVE  g[k][Start(j) + 1] = HeaderOf(j)
      <3>1. j \in 1 .. n /\ j \in 1 .. n + 1
        BY <1>1
      <3>2. Start(j) \in Nat /\ SectorsOf(archive[j].size) \in Nat
        BY <3>1, StartFacts, ArchiveFacts
      <3>3. Start(j) + SectorsOf(archive[j].size) < Start(k)
        BY <2>1, StartGrows
      <3>4. Start(j) + 1 \in 1 .. Len(a)
        BY <2>1, <2>2, <3>2, <3>3
      <3>5. (a \o b)[Start(j) + 1] = a[Start(j) + 1]
        BY <2>2, <3>4, ConcatFacts
      <3> QED BY <2>2, <3>5
    <2>6. \A j \in 1 .. k : g[k][Start(j) + 1] = HeaderOf(j)
      <3> TAKE j \in 1 .. k
      <3>1. CASE j = k
        BY <2>4, <3>1
      <3>2. CASE j # k
        <4>1. j \in 1 .. k - 1
          BY <1>1, <3>2
        <4> QED BY <2>5, <4>1
      <3> QED BY <3>1, <3>2
    <2> QED BY <2>1, <2>3, <2>6
  <1>8. n \in T
    <2>1. \A k \in 0 .. n : k \in T
      <3> HIDE DEF T, n
      <3> QED BY <1>1, <1>6, <1>7, UpTo
    <2> QED BY <1>1, <2>1
  <1> DEFINE f == FlattenSeq(seqs)
  <1>9. /\ f \in Seq(S) /\ Len(f) = Start(n + 1) /\ Start(n + 1) \in Nat
        /\ \A j \in 1 .. n : f[Start(j) + 1] = HeaderOf(j)
    <2>1. n + 1 \in 1 .. n + 1 /\ n \in 0 .. n
      BY <1>1
    <2>2. Start(n + 1) \in Nat
      BY <2>1, StartFacts
    <2> QED BY <1>5, <1>8, <2>1, <2>2
  <1>10. <<Zero, Zero>> \in Seq(S)
    BY DEF S
  <1>11. I = f \o <<Zero, Zero>>
    BY <1>2
  <1> HIDE DEF f, I
  <1>12. I \in Seq(S) /\ Len(I) = Start(n + 1) + 2 /\ I[Start(n + 1) + 1] = Zero
    BY <1>9, <1>10, <1>11
  <1>13. ASSUME NEW k \in 1 .. n
         PROVE  I[Start(k) + 1] = HeaderOf(k)
    <2>1. k \in 1 .. n + 1 /\ n + 1 \in 1 .. n + 1 /\ k \in 1 .. (n + 1) - 1
      BY <1>1
    <2>2. Start(k) \in Nat /\ SectorsOf(archive[k].size) \in Nat
      BY <2>1, StartFacts, ArchiveFacts
    <2>3. Start(k) + SectorsOf(archive[k].size) < Start(n + 1)
      <3> DEFINE l == n + 1
      <3>1. l \in 1 .. Len(archive) + 1 /\ k \in 1 .. l - 1
        BY <2>1
      <3> HIDE DEF l, n
      <3>2. Start(k) + SectorsOf(archive[k].size) < Start(l)
        BY <3>1, StartGrows
      <3> QED BY <3>2 DEF l
    <2>4. Start(k) + 1 \in 1 .. Len(f)
      BY <1>9, <2>2, <2>3
    <2> QED BY <1>9, <1>10, <1>11, <2>4
  <1> QED BY <1>12, <1>13 DEF I

----------------------------------------------------------------------------
(***************************************************************************)
(* Which sectors are asked for, and what becomes of them.                  *)
(***************************************************************************)
\* The disk holds the archive, as far as it goes.
Written ==
  /\ archive \in Archives
  /\ Len(disk) \in Nat
  /\ \A k \in 1 .. Len(archive) : Start(k) < Len(disk) => disk[Start(k) + 1] = HeaderOf(k)
  /\ Start(Len(archive) + 1) < Len(disk) => disk[Start(Len(archive) + 1) + 1] = Zero

\* Whether the device has answered the request under way.
Answered == stage # "idle" /\ device.served = queue.avail

\* The sector asked for is the current one; the answer is that sector, or the
\* device has failed it; and no sector is asked for twice.
Asked ==
  /\ blk_req.sector \in Sectors \cup {0}
  /\ blk_req.data \in Sectors \cup {NoSector}
  /\ device.failed \subseteq Sectors
  /\ buffer \in Sectors \cup {NoSector}
  /\ boot \in {"init", "header", "data", "loaded", "panic"}
  /\ stage # "idle" => blk_req.sector = current_sector /\ current_sector \in Sectors
  /\ Answered => IF blk_req.status = 0 THEN blk_req.data = blk_req.sector
                                       ELSE blk_req.sector \in device.failed
  /\ boot \in {"init", "header", "data"} =>
       \A s \in device.failed :
         \/ s < current_sector
         \/ s = current_sector /\ Answered /\ blk_req.status # 0

StoredSectors ==
  \A k \in DOMAIN filesystem_files : \A j \in DOMAIN filesystem_files[k].data :
    filesystem_files[k].data[j] \in Sectors \cup {NoSector}

LEMMA InitWritten == DiskInit => Written
  <1> SUFFICES ASSUME DiskInit PROVE Written
    OBVIOUS
  <1>1. archive \in Archives
    BY DEF DiskInit
  <1>2. PICK body \in Bodies, cut \in Cuts :
          disk = SubSeq(Image(archive, body), 1, Len(Image(archive, body)) - cut)
    BY DEF DiskInit
  <1> DEFINE I == Image(archive, body)
             l == Len(I) - cut
             n == Len(archive)
  <1>3. PICK S : I \in Seq(S)
    BY <1>1, ImageFacts
  <1>4. Len(I) \in Nat /\ cut \in Nat /\ l \in Int /\ l <= Len(I)
    BY <1>3, DiskAssumption
  <1>5. disk = SubSeq(I, 1, l)
    BY <1>2
  <1>6. /\ \A k \in 1 .. n : I[Start(k) + 1] = HeaderOf(k)
        /\ I[Start(n + 1) + 1] = Zero
    BY <1>1, ImageFacts
  <1> HIDE DEF I, l
  <1>7. Len(disk) \in Nat /\ \A i \in 1 .. Len(disk) : disk[i] = I[i]
    BY <1>3, <1>4, <1>5
  <1>8. \A k \in 1 .. n + 1 : Start(k) \in Nat
    BY <1>1, StartFacts
  <1>9. n \in Nat
    BY <1>1, ArchiveFacts
  <1>10. \A k \in 1 .. n + 1 : Start(k) < Len(disk) => disk[Start(k) + 1] = I[Start(k) + 1]
    <2> SUFFICES ASSUME NEW k \in 1 .. n + 1, Start(k) < Len(disk)
                 PROVE  disk[Start(k) + 1] = I[Start(k) + 1]
      OBVIOUS
    <2>1. Start(k) + 1 \in 1 .. Len(disk)
      BY <1>7, <1>8
    <2> QED BY <1>7, <2>1
  <1>11. n + 1 \in 1 .. n + 1 /\ \A k \in 1 .. n : k \in 1 .. n + 1
    BY <1>9
  <1> QED BY <1>1, <1>6, <1>7, <1>10, <1>11 DEF Written

LEMMA SameImage ==
  ASSUME UNCHANGED image
  PROVE  /\ archive' = archive /\ disk' = disk /\ Sectors' = Sectors
         /\ \A k : Start(k)' = Start(k) /\ HeaderOf(k)' = HeaderOf(k)
  <1>1. archive' = archive /\ disk' = disk /\ Sectors' = Sectors
    BY DEF image, Sectors
  <1>2. ASSUME NEW k PROVE Start(k)' = Start(k)
    BY <1>1, Zenon DEF Start, FoldLeft, MapThenFoldSet
  <1>3. ASSUME NEW k PROVE HeaderOf(k)' = HeaderOf(k)
    BY <1>1 DEF HeaderOf
  <1> QED BY <1>1, <1>2, <1>3

LEMMA NextWritten == Written /\ [DiskNext]_diskVars => Written'
  <1> SUFFICES ASSUME Written, [DiskNext]_diskVars PROVE Written'
    OBVIOUS
  <1>1. UNCHANGED image
    BY DEF DiskNext, LoadStep, DeviceStep, diskVars, virtio_blk_init, NoDisk, virtq_kick, ReadHeader,
         HeaderRead, AllRead, ReadData, DataRead, PastTheEnd, FileRead, Serve
  <1> QED BY <1>1, SameImage DEF Written

LEMMA InitAsked == DiskInit => Asked /\ StoredSectors
  BY DEF DiskInit, Asked, StoredSectors, Answered, NoSector

\* Between requests nothing below the current sector is in doubt.
LEMMA IdleAsked ==
  ASSUME Asked, stage = "idle", boot \in {"init", "header", "data"}
  PROVE  \A s \in device.failed : s < current_sector
  BY DEF Asked, Answered

LEMMA SendAsked ==
  ASSUME Asked, Protocol, Written, Send(current_sector), current_sector < Len(disk),
         boot \in {"header", "data"}, UNCHANGED <<image, device, loader>>
  PROVE  Asked'
  <1>1. Sectors' = Sectors /\ current_sector \in Sectors
    BY SameImage DEF Protocol, Types, Written, Sectors
  <1>2. ~Answered'
    <2>1. queue.avail \in Index /\ device.served = queue.avail
      BY DEF Protocol, Types, Counters, Send
    <2>2. Inc(queue.avail) # queue.avail
      BY <2>1, IncFacts
    <2> QED BY <2>1, <2>2 DEF Answered, Send, Protocol, Types
  <1>3. \A s \in device.failed : s < current_sector
    BY IdleAsked DEF Send
  <1>4. blk_req' = [blk_req EXCEPT !.sector = current_sector]
        /\ blk_req \in [page : Int, sector : Int, data : Int, status : Int]
    BY DEF Send, Protocol, Types
  <1> QED BY <1>1, <1>2, <1>3, <1>4 DEF Asked, Send, loader

LEMMA ServeAsked ==
  ASSUME Asked, Protocol, NEW ok \in BOOLEAN, Serve(ok)
  PROVE  Asked'
  <1>1. device.served # queue.avail /\ stage # "idle" /\ boot \in {"header", "data"}
    BY DEF Serve, Protocol, Counters, Started
  <1>2. Sectors' = Sectors /\ blk_req.sector \in Sectors /\ ~Answered /\ stage' = stage
    BY <1>1, SameImage DEF Serve, Asked, Answered
  <1>3. \A s \in device.failed : s < current_sector
    BY <1>1, <1>2 DEF Asked
  <1>4. current_sector' = current_sector /\ boot' = boot /\ buffer' = buffer
    BY DEF Serve, loader
  <1>5. /\ blk_req \in [page : Int, sector : Int, data : Int, status : Int]
        /\ device \in [status : SUBSET Nat, served : Index, failed : SUBSET Int]
    BY DEF Protocol, Types
  <1>6. CASE ok = TRUE
    <2> DEFINE r == [blk_req EXCEPT !.data = blk_req.sector]
    <2>1. r.data = blk_req.sector /\ r.sector = blk_req.sector /\ DOMAIN r = DOMAIN blk_req
          /\ r \in [page : Int, sector : Int, data : Int, status : Int]
      BY <1>5
    <2>2. blk_req' = [r EXCEPT !.status = 0]
      BY <1>6 DEF Serve
    <2> HIDE DEF r
    <2>3. blk_req'.data = blk_req.sector /\ blk_req'.sector = blk_req.sector /\ blk_req'.status = 0
      BY <2>1, <2>2
    <2>4. device' = [device EXCEPT !.served = Inc(@), !.failed = @]
      BY <1>6 DEF Serve
    <2>5. device'.failed = device.failed
      BY <1>5, <2>4
    <2> QED BY <1>1, <1>2, <1>3, <1>4, <2>3, <2>5 DEF Asked
  <1>7. CASE ok = FALSE
    <2>1. blk_req' = [blk_req EXCEPT !.status = 1]
      BY <1>7 DEF Serve
    <2>2. blk_req'.data = blk_req.data /\ blk_req'.sector = blk_req.sector /\ blk_req'.status = 1
      BY <1>5, <2>1
    <2>3. device' = [device EXCEPT !.served = Inc(@), !.failed = @ \cup {blk_req.sector}]
      BY <1>7 DEF Serve
    <2>4. device'.failed = device.failed \cup {blk_req.sector}
          /\ device'.served = Inc(device.served)
      BY <1>5, <2>3
    <2>5. queue'.avail = queue.avail
      BY DEF Serve, Protocol, Types
    <2>6. Inc(device.served) = queue.avail
      BY <1>1 DEF Protocol, Counters
    <2>7. Answered'
      BY <1>1, <1>2, <2>4, <2>5, <2>6 DEF Answered
    <2> QED BY <1>1, <1>2, <1>3, <1>4, <2>2, <2>4, <2>7 DEF Asked
  <1> QED BY <1>6, <1>7

\* A request that returns leaves the sector behind.
LEMMA ReturnAsked ==
  ASSUME Asked, Protocol, stage = "waiting", ~virtq_is_busy, stage' = "idle",
         UNCHANGED <<image, blk_req, queue, device>>,
         buffer' \in {buffer, blk_req.data},
         \/ boot' \in {"loaded", "panic"}
         \/ boot' = "data" /\ current_sector' = current_sector + 1
  PROVE  Asked'
  <1>1. Sectors' = Sectors /\ ~Answered'
    BY SameImage DEF Answered
  <1>2. boot \in {"header", "data"} /\ current_sector \in Nat /\ device.failed \subseteq Int
    BY DEF Protocol, Types, Started
  <1>3. \A s \in device.failed : s <= current_sector
    BY <1>2 DEF Asked
  <1> QED BY <1>1, <1>2, <1>3 DEF Asked

LEMMA NextAsked == Asked /\ Protocol /\ Written /\ [DiskNext]_diskVars => Asked'
  <1> SUFFICES ASSUME Asked, Protocol, Written, [DiskNext]_diskVars PROVE Asked'
    OBVIOUS
  <1> USE DEF memory, channel, loader
  <1>1. CASE virtio_blk_init \/ NoDisk
    <2>1. /\ boot = "init" /\ boot' \in {"header", "panic"} /\ stage = "idle" /\ stage' = "idle"
          /\ UNCHANGED <<image, buffer, current_sector>>
      BY <1>1 DEF virtio_blk_init, NoDisk, Protocol, Started
    <2>2. /\ blk_req'.sector = blk_req.sector /\ blk_req'.data = blk_req.data
          /\ device'.failed = device.failed
      <3>1. CASE virtio_blk_init
        <4>1. blk_req' = [blk_req EXCEPT !.page = free[3]]
          BY <3>1 DEF virtio_blk_init
        <4>2. \E x : device' = [device EXCEPT !.status = x]
          BY <3>1 DEF virtio_blk_init
        <4> QED BY <4>1, <4>2 DEF Protocol, Types
      <3>2. CASE NoDisk
        <4>1. blk_req' = blk_req /\ \E x : device' = [device EXCEPT !.status = x]
          BY <3>2 DEF NoDisk
        <4> QED BY <4>1 DEF Protocol, Types
      <3> QED BY <1>1, <3>1, <3>2
    <2>3. Sectors' = Sectors /\ ~Answered' /\ \A s \in device.failed : s < current_sector
      BY <2>1, SameImage, IdleAsked DEF Answered
    <2> QED BY <2>1, <2>2, <2>3 DEF Asked
  <1>2. CASE virtq_kick
    <2>1. queue'.avail = queue.avail /\ stage = "notified" /\ stage' = "waiting"
      BY <1>2 DEF virtq_kick, Protocol, Types
    <2>2. Answered' <=> Answered
      BY <1>2, <2>1 DEF virtq_kick, Answered
    <2>3. Sectors' = Sectors
      BY <1>2, SameImage DEF virtq_kick
    <2> QED BY <1>2, <2>1, <2>2, <2>3 DEF virtq_kick, Asked
  <1>3. CASE ReadHeader
    BY <1>3, SendAsked DEF ReadHeader, MoreEntries
  <1>4. CASE ReadData
    BY <1>4, SendAsked DEF ReadData
  <1>5. CASE HeaderRead
    <2>1. PICK b \in {buffer, blk_req.data} :
            /\ Returned(buffer, b)
            /\ buffer' = b
            /\ \/ boot' = "loaded"
               \/ boot' = "data" /\ current_sector' = current_sector + 1
      BY <1>5 DEF HeaderRead
    <2> QED BY <1>5, <2>1, ReturnAsked DEF HeaderRead, Returned
  <1>6. CASE DataRead
    <2>1. PICK b \in {NoSector, blk_req.data} : Returned(NoSector, b) /\ Store(b)
      BY <1>6 DEF DataRead
    <2>2. /\ boot' \in {"data", "panic"} /\ current_sector' = current_sector + 1
          /\ stage = "waiting" /\ ~virtq_is_busy /\ stage' = "idle"
      BY <2>1 DEF Store, Returned
    <2> QED BY <1>6, <2>2, ReturnAsked DEF DataRead
  <1>7. CASE PastTheEnd
    <2>1. /\ boot = "data" /\ boot' \in {"data", "panic"} /\ current_sector' = current_sector + 1
          /\ stage = "idle" /\ UNCHANGED <<image, channel, buffer>>
      BY <1>7 DEF PastTheEnd, Store
    <2>2. \A s \in device.failed : s < current_sector
      BY <2>1, IdleAsked
    <2>3. Sectors' = Sectors /\ ~Answered'
      BY <2>1, SameImage DEF Answered
    <2>4. \A s \in device.failed : s < current_sector'
      BY <2>1, <2>2 DEF Protocol, Types
    <2> QED BY <2>1, <2>3, <2>4 DEF Asked
  <1>8. CASE AllRead \/ FileRead
    <2>1. /\ boot \in {"header", "data"} /\ boot' \in {"loaded", "header"}
          /\ stage = "idle" /\ UNCHANGED <<image, channel, buffer, current_sector>>
      BY <1>8 DEF AllRead, FileRead
    <2>2. Sectors' = Sectors /\ ~Answered' /\ ~Answered
      BY <2>1, SameImage DEF Answered
    <2> QED BY <2>1, <2>2 DEF Asked
  <1>9. CASE DeviceStep
    BY <1>9, ServeAsked DEF DeviceStep
  <1>10. CASE UNCHANGED diskVars
    <2>1. Sectors' = Sectors /\ Answered' = Answered
      BY <1>10 DEF diskVars, image, Sectors, Answered
    <2> QED BY <1>10, <2>1 DEF diskVars, Asked
  <1> QED BY <1>1, <1>2, <1>3, <1>4, <1>5, <1>6, <1>7, <1>8, <1>9, <1>10
          DEF DiskNext, LoadStep

\* What Store and HeaderRead do to the files.
LEMMA StoreFiles ==
  ASSUME Room, boot = "data", NEW b \in Int, Store(b)
  PROVE  LET n == Len(filesystem_files)
             f == filesystem_files[n]
             g == filesystem_files'[n]
         IN /\ n \in DOMAIN filesystem_files /\ n \in Nat
            /\ Len(filesystem_files') = n /\ DOMAIN filesystem_files = 1 .. n
            /\ DOMAIN filesystem_files' = 1 .. n
            /\ \A k \in 1 .. n - 1 : filesystem_files'[k] = filesystem_files[k]
            /\ g.name = f.name /\ g.size = f.size
            /\ g.data = Append(f.data, b) /\ f.data \in Seq(Int) /\ g.data \in Seq(Int)
            /\ Len(g.data) = Len(f.data) + 1 /\ Len(f.data) \in Nat
            /\ DOMAIN g.data = 1 .. Len(f.data) + 1 /\ DOMAIN f.data = 1 .. Len(f.data)
            /\ \A j \in 1 .. Len(f.data) : g.data[j] = f.data[j]
            /\ g.data[Len(f.data) + 1] = b
  <1> DEFINE n == Len(filesystem_files)
             f == filesystem_files[n]
             g == [f EXCEPT !.data = Append(f.data, b)]
  <1>1. n \in DOMAIN filesystem_files /\ n \in Nat /\ f \in Entries /\ DOMAIN filesystem_files = 1 .. n
    BY DEF Room
  <1>2. f.data \in Seq(Int)
    BY <1>1 DEF Entries
  <1> DEFINE d == Append(f.data, b)
  <1>3. /\ d \in Seq(Int) /\ Len(d) = Len(f.data) + 1 /\ Len(f.data) \in Nat
        /\ DOMAIN d = 1 .. Len(f.data) + 1 /\ DOMAIN f.data = 1 .. Len(f.data)
        /\ \A j \in 1 .. Len(f.data) : d[j] = f.data[j]
        /\ d[Len(f.data) + 1] = b
    BY <1>2
  <1>4. g = [f EXCEPT !.data = d]
    OBVIOUS
  <1>5. filesystem_files' = [filesystem_files EXCEPT ![n] = g]
    BY <1>1 DEF Store, Entries
  <1> HIDE DEF d, g
  <1>6. g.name = f.name /\ g.size = f.size /\ g.data = d /\ g \in Entries
    BY <1>1, <1>3, <1>4 DEF Entries
  <1>7. /\ Len(filesystem_files') = n /\ DOMAIN filesystem_files' = 1 .. n
        /\ filesystem_files'[n] = g
        /\ \A k \in 1 .. n - 1 : filesystem_files'[k] = filesystem_files[k]
    <2>1. /\ filesystem_files' \in Seq(Entries) /\ Len(filesystem_files') = n
          /\ filesystem_files'[n] = g
          /\ \A k \in DOMAIN filesystem_files \ {n} : filesystem_files'[k] = filesystem_files[k]
          /\ DOMAIN filesystem_files' = DOMAIN filesystem_files
      BY <1>1, <1>5, <1>6 DEF Room
    <2>2. \A k \in 1 .. n - 1 : k \in DOMAIN filesystem_files \ {n}
      <3> HIDE DEF n
      <3> QED BY <1>1
    <2> QED BY <1>1, <2>1, <2>2
  <1> QED BY <1>1, <1>2, <1>3, <1>6, <1>7 DEF d

LEMMA NewEntry ==
  ASSUME Room, NEW e, filesystem_files' = Append(filesystem_files, e)
  PROVE  LET n == Len(filesystem_files)
         IN /\ n \in Nat /\ DOMAIN filesystem_files = 1 .. n
            /\ Len(filesystem_files') = n + 1 /\ DOMAIN filesystem_files' = 1 .. n + 1
            /\ filesystem_files'[n + 1] = e
            /\ \A k \in 1 .. n : filesystem_files'[k] = filesystem_files[k]
  BY DEF Room

LEMMA InitStored == DiskInit => StoredSectors
  BY DEF DiskInit, StoredSectors

LEMMA StoreStored ==
  ASSUME StoredSectors, Room, boot = "data", UNCHANGED image,
         NEW b \in Int, b \in Sectors \cup {NoSector}, Store(b)
  PROVE  StoredSectors'
  <1> DEFINE n == Len(filesystem_files)
  <1>1. Sectors' = Sectors
    BY SameImage
  <1>2. ASSUME NEW k \in DOMAIN filesystem_files', NEW j \in DOMAIN filesystem_files'[k].data
        PROVE  filesystem_files'[k].data[j] \in Sectors \cup {NoSector}
    <2>1. CASE k = n
      <3>1. CASE j = Len(filesystem_files[n].data) + 1
        BY <2>1, <3>1, StoreFiles
      <3>2. CASE j # Len(filesystem_files[n].data) + 1
        <4>1. j \in 1 .. Len(filesystem_files[n].data)
          BY <1>2, <2>1, <3>2, StoreFiles
        <4> QED BY <2>1, <4>1, StoreFiles DEF StoredSectors
      <3> QED BY <3>1, <3>2
    <2>2. CASE k # n
      <3>1. k \in 1 .. n - 1 /\ k \in DOMAIN filesystem_files
        BY <1>2, <2>2, StoreFiles
      <3>2. filesystem_files'[k] = filesystem_files[k]
        BY <3>1, StoreFiles
      <3> QED BY <1>2, <3>1, <3>2 DEF StoredSectors
    <2> QED BY <2>1, <2>2
  <1> QED BY <1>1, <1>2 DEF StoredSectors

LEMMA NextStored == StoredSectors /\ Asked /\ Room /\ Protocol /\ [DiskNext]_diskVars => StoredSectors'
  <1> SUFFICES ASSUME StoredSectors, Asked, Room, Protocol, [DiskNext]_diskVars PROVE StoredSectors'
    OBVIOUS
  <1>0. ASSUME UNCHANGED <<image, filesystem_files>>
        PROVE  StoredSectors'
    BY <1>0, SameImage DEF StoredSectors
  <1> USE DEF channel, loader
  <1>1. CASE HeaderRead
    <2>1. PICK b \in {buffer, blk_req.data} :
            IF Header(b).name = NoName
            THEN UNCHANGED filesystem_files
            ELSE filesystem_files' = Append(filesystem_files,
                   [name |-> Header(b).name, size |-> oct2int(Header(b).digits), data |-> <<>>])
      BY <1>1 DEF HeaderRead
    <2>2. UNCHANGED image
      BY <1>1 DEF HeaderRead
    <2>3. CASE Header(b).name # NoName
      <3> DEFINE e == [name |-> Header(b).name, size |-> oct2int(Header(b).digits), data |-> <<>>]
                 n == Len(filesystem_files)
      <3>1. filesystem_files' = Append(filesystem_files, e) /\ e.data = <<>>
        BY <2>1, <2>3
      <3> HIDE DEF e
      <3>2. ASSUME NEW k \in DOMAIN filesystem_files', NEW j \in DOMAIN filesystem_files'[k].data
            PROVE  filesystem_files'[k].data[j] \in Sectors \cup {NoSector}
        <4>1. k # n + 1
          BY <3>1, <3>2, NewEntry
        <4>2. k \in DOMAIN filesystem_files /\ filesystem_files'[k] = filesystem_files[k]
          BY <3>1, <3>2, <4>1, NewEntry
        <4> QED BY <3>2, <4>2 DEF StoredSectors
      <3> QED BY <2>2, <3>2, SameImage DEF StoredSectors
    <2> QED BY <1>0, <2>1, <2>2, <2>3
  <1>2. CASE DataRead
    <2>1. PICK b \in {NoSector, blk_req.data} : Store(b)
      BY <1>2 DEF DataRead
    <2>2. b \in Int /\ b \in Sectors \cup {NoSector}
      BY DEF Protocol, Types, NoSector, Asked
    <2> QED BY <1>2, <2>1, <2>2, StoreStored DEF DataRead
  <1>3. CASE PastTheEnd
    <2>1. NoSector \in Int
      BY DEF NoSector
    <2> QED BY <1>3, <2>1, StoreStored DEF PastTheEnd
  <1>4. CASE virtio_blk_init \/ NoDisk \/ virtq_kick \/ ReadHeader \/ ReadData \/ AllRead
             \/ FileRead \/ DeviceStep \/ UNCHANGED diskVars
    BY <1>0, <1>4 DEF virtio_blk_init, NoDisk, virtq_kick, ReadHeader, ReadData, AllRead, FileRead,
         DeviceStep, Serve, diskVars
  <1> QED BY <1>1, <1>2, <1>3, <1>4 DEF DiskNext, LoadStep

Loader == Protocol /\ Room /\ Written /\ Asked /\ StoredSectors

LEMMA LoaderInvariant == DiskSpec => []Loader
  <1>1. DiskInit => Loader
    BY InitProtocol, InitRoom, InitWritten, InitAsked DEF Loader
  <1>2. Loader /\ [DiskNext]_diskVars => Loader'
    BY NextProtocol, NextRoom, NextWritten, NextAsked, NextStored DEF Loader
  <1> QED BY <1>1, <1>2, PTL DEF DiskSpec

LEMMA LoaderTypes == Loader /\ FilesFit => DiskTypeOK
  <1> SUFFICES ASSUME Loader, FilesFit PROVE DiskTypeOK
    OBVIOUS
  <1>1. vq \in 0 .. RamPages /\ blk_req.page \in 0 .. RamPages
    BY DiskAssumption DEF Loader, Protocol, Pages
  <1> QED BY <1>1 DEF Loader, Protocol, Types, Index, Asked, StoredSectors, DiskTypeOK

----------------------------------------------------------------------------
(***************************************************************************)
(* The files in memory.                                                    *)
(***************************************************************************)
\* No header, nor the end of the archive, has failed to be read.
HeadersRead == vq # 0 /\ \A k \in 1 .. Len(archive) + 1 : Start(k) \notin device.failed

\* The k-th file in memory is the k-th of the archive, as far as it is read.
AsArchived(k) ==
  LET f == filesystem_files[k] IN
  /\ k \in 1 .. Len(archive) /\ Start(k) < Len(disk)
  /\ f.name = archive[k].name /\ f.size = archive[k].size
  /\ Len(f.data) <= SectorsOf(archive[k].size)
  /\ k < Len(filesystem_files) \/ boot \in {"header", "loaded"} =>
       Len(f.data) = SectorsOf(archive[k].size)
  /\ \A j \in DOMAIN f.data :
       f.data[j] = IF Start(k) + j \in Sectors \ device.failed THEN Start(k) + j ELSE NoSector

\* The sector that is next, and what is known when there is none.
InPlace ==
  LET n == Len(filesystem_files) IN
  /\ boot = "header" => current_sector = Start(n + 1)
  /\ boot = "data" => current_sector = Start(n) + 1 + Len(filesystem_files[n].data)
  /\ boot = "loaded" =>
       \/ n = MAX_FS_FILES
       \/ n = Len(archive)
       \/ Start(n + 1) >= Len(disk)
  /\ boot = "panic" => n # 0 /\ filesystem_files[n].size > MAX_FILESIZE

Progress ==
  /\ boot = "init" => filesystem_files = <<>> /\ current_sector = 0 /\ device.failed = {}
  /\ HeadersRead => InPlace /\ \A k \in DOMAIN filesystem_files : AsArchived(k)

LEMMA InitProgress == DiskInit => Progress
  BY DEF DiskInit, Progress, HeadersRead

\* All that the steps below rely on.
LEMMA ProgressFacts ==
  ASSUME Loader, Progress, HeadersRead
  PROVE  LET n == Len(filesystem_files) IN
         /\ n \in Nat /\ DOMAIN filesystem_files = 1 .. n
         /\ n <= Len(archive) /\ Len(archive) \in Nat
         /\ \A k \in 1 .. n : AsArchived(k)
         /\ InPlace
  <1> DEFINE n == Len(filesystem_files)
  <1>1. n \in Nat /\ DOMAIN filesystem_files = 1 .. n
    BY DEF Loader, Room
  <1>2. Len(archive) \in Nat
    BY ArchiveFacts DEF Loader, Written
  <1>3. InPlace /\ \A k \in 1 .. n : AsArchived(k)
    BY <1>1 DEF Progress
  <1>4. n <= Len(archive)
    <2>1. CASE n = 0
      BY <1>2, <2>1
    <2>2. CASE n # 0
      <3>1. n \in 1 .. n
        BY <1>1, <2>2
      <3> QED BY <1>1, <1>2, <1>3, <3>1 DEF AsArchived
    <2> QED BY <2>1, <2>2
  <1> QED BY <1>1, <1>2, <1>3, <1>4

\* Steps that leave the files and what has failed alone.
LEMMA SameProgress ==
  ASSUME Progress, boot # "init", boot' = boot, vq' = vq,
         UNCHANGED <<image, device, current_sector, filesystem_files>>
  PROVE  Progress'
  <1>1. /\ archive' = archive /\ disk' = disk /\ Sectors' = Sectors
        /\ \A k : Start(k)' = Start(k)
    BY SameImage
  <1>2. HeadersRead' <=> HeadersRead
    BY <1>1 DEF HeadersRead
  <1>3. ASSUME NEW k PROVE AsArchived(k)' <=> AsArchived(k)
    BY <1>1 DEF AsArchived, SectorsOf
  <1>4. InPlace' <=> InPlace
    BY <1>1 DEF InPlace
  <1> QED BY <1>2, <1>3, <1>4 DEF Progress

\* Nothing that is in memory comes from the current sector or behind it.
LEMMA StoredBelow ==
  ASSUME Loader, Progress, HeadersRead, boot \in {"header", "data"},
         NEW k \in DOMAIN filesystem_files, NEW j \in DOMAIN filesystem_files[k].data
  PROVE  Start(k) + j < current_sector
  <1> DEFINE n == Len(filesystem_files)
             d == filesystem_files[k].data
             c == SectorsOf(archive[k].size)
  <1>1. n \in Nat /\ k \in 1 .. n /\ n <= Len(archive) /\ Len(archive) \in Nat /\ AsArchived(k) /\ InPlace
    BY ProgressFacts
  <1>2. Len(d) \in Nat /\ j \in 1 .. Len(d)
    <2>1. filesystem_files[k] \in Entries
      BY DEF Loader, Room
    <2>2. d \in Seq(Int)
      BY <2>1 DEF Entries
    <2> HIDE DEF d
    <2>3. j \in DOMAIN d
      BY DEF d
    <2> QED BY <2>2, <2>3
  <1>3. archive \in Archives
    BY DEF Loader, Written
  <1>4. k \in 1 .. Len(archive) /\ k \in 1 .. Len(archive) + 1
        /\ n \in 1 .. Len(archive) + 1 /\ n + 1 \in 1 .. Len(archive) + 1
    BY <1>1
  <1>5. Start(k) \in Nat /\ c \in Nat /\ Start(n) \in Nat /\ Start(n + 1) \in Nat
    BY <1>3, <1>4, StartFacts, ArchiveFacts
  <1>6. Start(k) + j <= Start(k) + c /\ j <= Len(d)
    BY <1>1, <1>2, <1>5 DEF AsArchived
  <1>7. CASE boot = "header"
    <2>1. current_sector = Start(n + 1)
      BY <1>1, <1>7 DEF InPlace
    <2>2. Start(k) + c < Start(n + 1)
      <3> DEFINE l == n + 1
      <3>1. l \in 1 .. Len(archive) + 1 /\ k \in 1 .. l - 1
        BY <1>1
      <3> HIDE DEF l
      <3>2. Start(k) + SectorsOf(archive[k].size) < Start(l)
        BY <1>3, <3>1, StartGrows
      <3> QED BY <3>2 DEF l
    <2> QED BY <1>2, <1>5, <1>6, <2>1, <2>2
  <1>8. CASE boot = "data" /\ k = n
    <2>1. current_sector = Start(n) + 1 + Len(d)
      BY <1>1, <1>8 DEF InPlace
    <2> QED BY <1>2, <1>5, <1>6, <1>8, <2>1
  <1>9. CASE boot = "data" /\ k # n
    <2>1. current_sector = Start(n) + 1 + Len(filesystem_files[n].data)
      BY <1>1, <1>9 DEF InPlace
    <2>2. Len(filesystem_files[n].data) \in Nat
      <3>1. n \in DOMAIN filesystem_files
        BY <1>1 DEF Loader, Room
      <3>2. filesystem_files[n] \in Entries
        BY <3>1 DEF Loader, Room
      <3>3. filesystem_files[n].data \in Seq(Int)
        BY <3>2 DEF Entries
      <3> QED BY <3>3
    <2>3. k \in 1 .. n - 1
      BY <1>1, <1>9
    <2>4. Start(k) + c < Start(n)
      BY <1>3, <1>4, <2>3, StartGrows
    <2> QED BY <1>2, <1>5, <1>6, <2>1, <2>2, <2>4
  <1> QED BY <1>7, <1>8, <1>9

LEMMA ServeProgress ==
  ASSUME Loader, Progress, NEW ok \in BOOLEAN, Serve(ok)
  PROVE  Progress'
  <1>1. /\ device.served # queue.avail /\ stage # "idle" /\ boot \in {"header", "data"}
        /\ blk_req.sector = current_sector
    BY DEF Serve, Loader, Protocol, Counters, Started, Asked
  <1>2. /\ UNCHANGED <<image, filesystem_files, current_sector>> /\ boot' = boot /\ vq' = vq
        /\ archive' = archive /\ disk' = disk /\ Sectors' = Sectors
        /\ \A k : Start(k)' = Start(k)
    BY SameImage DEF Serve, loader, memory
  <1>3. device'.failed \in {device.failed, device.failed \cup {current_sector}}
    <2>1. device \in [status : SUBSET Nat, served : Index, failed : SUBSET Int]
      BY DEF Loader, Protocol, Types
    <2>2. CASE ok = TRUE
      <3>1. device' = [device EXCEPT !.served = Inc(@), !.failed = @]
        BY <2>2 DEF Serve
      <3> QED BY <2>1, <3>1
    <2>3. CASE ok = FALSE
      <3>1. device' = [device EXCEPT !.served = Inc(@), !.failed = @ \cup {blk_req.sector}]
        BY <2>3 DEF Serve
      <3> QED BY <1>1, <2>1, <3>1
    <2> QED BY <2>2, <2>3
  <1> SUFFICES ASSUME HeadersRead'
               PROVE  InPlace' /\ \A k \in DOMAIN filesystem_files' : AsArchived(k)'
    BY <1>1, <1>2 DEF Progress
  <1>4. HeadersRead
    BY <1>2, <1>3 DEF HeadersRead
  <1>5. InPlace'
    <2>1. InPlace
      BY <1>4 DEF Progress
    <2> QED BY <1>2, <2>1 DEF InPlace
  <1>6. ASSUME NEW k \in DOMAIN filesystem_files
        PROVE  AsArchived(k)'
    <2>1. AsArchived(k)
      BY <1>4 DEF Progress
    <2>2. ASSUME NEW j \in DOMAIN filesystem_files[k].data
          PROVE  Start(k) + j \in Sectors \ device.failed <=> Start(k) + j \in Sectors \ device'.failed
      <3>1. Start(k) + j < current_sector /\ current_sector \in Nat
        BY <1>1, <1>4, StoredBelow DEF Loader, Protocol, Types
      <3>2. Start(k) + j # current_sector
        <4>1. current_sector \in Nat => ~(current_sector < current_sector)
          OBVIOUS
        <4> QED BY <3>1, <4>1
      <3> QED BY <1>3, <3>2
    <2> QED BY <1>2, <2>1, <2>2 DEF AsArchived, SectorsOf
  <1> QED BY <1>2, <1>5, <1>6

LEMMA StoreProgress ==
  ASSUME Loader, Progress, boot = "data", MoreData, NEW b \in Int, Store(b),
         UNCHANGED <<image, memory, device>>,
         b = IF current_sector \in Sectors \ device.failed THEN current_sector ELSE NoSector
  PROVE  Progress'
  <1>0. PICK n : n = Len(filesystem_files)
    OBVIOUS
  <1> DEFINE f == filesystem_files[n]
             g == filesystem_files'[n]
             m == Len(f.data)
             c == SectorsOf(archive[n].size)
  <1>1. /\ archive' = archive /\ disk' = disk /\ Sectors' = Sectors
        /\ \A k : Start(k)' = Start(k)
        /\ vq' = vq /\ device' = device
    BY SameImage DEF memory
  <1>2. HeadersRead' <=> HeadersRead
    BY <1>1 DEF HeadersRead
  <1>3. boot' = IF TooBig(m + 1, f.size) THEN "panic" ELSE "data"
    BY <1>0 DEF Store, CopiedSectors, File, Last
  <1>4. current_sector' = current_sector + 1
    BY DEF Store
  <1> SUFFICES ASSUME HeadersRead
               PROVE  InPlace' /\ \A k \in DOMAIN filesystem_files' : AsArchived(k)'
    BY <1>2, <1>3 DEF Progress
  <1>5. /\ n \in Nat /\ n \in DOMAIN filesystem_files /\ n \in 1 .. n
        /\ n <= Len(archive) /\ Len(archive) \in Nat
        /\ \A k \in 1 .. n : AsArchived(k)
        /\ InPlace
    BY <1>0, ProgressFacts, StoreFiles DEF Loader
  <1>6. /\ Len(filesystem_files') = n /\ DOMAIN filesystem_files' = 1 .. n
        /\ \A k \in 1 .. n - 1 : filesystem_files'[k] = filesystem_files[k]
        /\ g.name = f.name /\ g.size = f.size
        /\ Len(g.data) = m + 1 /\ m \in Nat
        /\ DOMAIN g.data = 1 .. m + 1 /\ DOMAIN f.data = 1 .. m
        /\ \A j \in 1 .. m : g.data[j] = f.data[j]
        /\ g.data[m + 1] = b
    BY <1>0, StoreFiles DEF Loader
  <1>7. /\ archive \in Archives /\ n \in 1 .. Len(archive) /\ n \in 1 .. Len(archive) + 1
        /\ f.size = archive[n].size /\ f.name = archive[n].name /\ Start(n) < Len(disk)
        /\ \A j \in 1 .. m :
             f.data[j] = IF Start(n) + j \in Sectors \ device.failed THEN Start(n) + j ELSE NoSector
    <2>1. AsArchived(n)
      BY <1>5
    <2> QED BY <1>5, <1>6, <2>1 DEF AsArchived, Loader, Written
  <1>8. f.size \in Nat /\ c \in Nat /\ Start(n) \in Nat
    BY <1>7, ArchiveFacts, StartFacts
  <1>9. m + 1 <= c
    <2>1. m * SECTOR_SIZE < f.size
      BY <1>0 DEF MoreData, CopiedSectors, File, Last
    <2>2. m < c
      BY <1>6, <1>7, <1>8, <2>1, SectorsOfFacts
    <2> QED BY <1>6, <1>8, <2>2
  <1>10. current_sector = Start(n) + 1 + m
    BY <1>0, <1>5 DEF InPlace
  <1> HIDE DEF g, f, m, c
  <1>11. AsArchived(n)'
    <2>1. \A j \in 1 .. m + 1 :
            g.data[j] = IF Start(n) + j \in Sectors \ device.failed THEN Start(n) + j ELSE NoSector
      <3> TAKE j \in 1 .. m + 1
      <3>1. CASE j = m + 1
        <4>1. Start(n) + j = current_sector
          BY <1>6, <1>8, <1>10, <3>1
        <4> QED BY <1>6, <3>1, <4>1
      <3>2. CASE j # m + 1
        <4>1. j \in 1 .. m
          BY <1>6, <3>2
        <4> QED BY <1>6, <1>7, <4>1
      <3> QED BY <3>1, <3>2
    <2>2. ~(n < n) /\ boot' \notin {"header", "loaded"}
      BY <1>3, <1>5
    <2>3. SectorsOf(archive[n].size)' = c
      BY <1>1 DEF SectorsOf, c
    <2>4. filesystem_files'[n] = g
      BY DEF g
    <2> QED BY <1>1, <1>6, <1>7, <1>9, <2>1, <2>2, <2>3, <2>4 DEF AsArchived
  <1>12. ASSUME NEW k \in 1 .. n - 1
         PROVE  AsArchived(k)'
    <2>1. AsArchived(k) /\ k < n /\ filesystem_files'[k] = filesystem_files[k]
      BY <1>5, <1>6
    <2>2. Len(filesystem_files) = n
      BY <1>0
    <2> QED BY <1>1, <1>6, <2>1, <2>2 DEF AsArchived, SectorsOf
  <1>13. InPlace'
    <2>1. current_sector' = Start(n) + 1 + (m + 1)
      BY <1>4, <1>6, <1>8, <1>10
    <2>2. boot' = "panic" => g.size > MAX_FILESIZE
      <3> SUFFICES ASSUME TooBig(m + 1, f.size) PROVE f.size > MAX_FILESIZE
        BY <1>3, <1>6
      <3>1. m + 1 = MaxSectors /\ (m + 1) * SECTOR_SIZE < f.size
        BY DEF TooBig, MaxSectors
      <3> QED BY <1>8, <3>1, SectorFacts
    <2>3. filesystem_files'[n] = g /\ n # 0 /\ boot' \in {"data", "panic"}
      BY <1>3, <1>5 DEF g
    <2> QED BY <1>1, <1>6, <2>1, <2>2, <2>3 DEF InPlace
  <1>14. ASSUME NEW k \in DOMAIN filesystem_files'
         PROVE  AsArchived(k)'
    <2>1. k = n \/ k \in 1 .. n - 1
      BY <1>5, <1>6, <1>14
    <2> QED BY <1>11, <1>12, <2>1
  <1> QED BY <1>13, <1>14

\* A request that returns has been answered.
LEMMA ReturnAnswered ==
  ASSUME Loader, stage = "waiting", ~virtq_is_busy
  PROVE  Answered
  BY DEF Loader, Protocol, Counters, virtq_is_busy, Answered

LEMMA DataProgress ==
  ASSUME Loader, Progress, DataRead
  PROVE  Progress'
  <1>1. PICK b \in {NoSector, blk_req.data} : Returned(NoSector, b) /\ Store(b)
    BY DEF DataRead
  <1>2. /\ stage = "waiting" /\ ~virtq_is_busy /\ boot = "data" /\ Answered
        /\ b = IF blk_req.status # 0 THEN NoSector ELSE blk_req.data
    BY <1>1, ReturnAnswered DEF Returned, DataRead
  <1>3. MoreData
    BY <1>2 DEF Loader, Room
  <1>4. b \in Int
    BY DEF Loader, Protocol, Types, NoSector
  <1>5. b = IF current_sector \in Sectors \ device.failed THEN current_sector ELSE NoSector
    <2>1. /\ blk_req.sector = current_sector /\ current_sector \in Sectors
          /\ IF blk_req.status = 0 THEN blk_req.data = blk_req.sector
                                   ELSE blk_req.sector \in device.failed
      BY <1>2 DEF Loader, Asked
    <2>2. blk_req.status = 0 => current_sector \notin device.failed
      <3>1. \A s \in device.failed : s < current_sector \/ blk_req.status # 0
        BY <1>2 DEF Loader, Asked
      <3>2. ~(current_sector < current_sector)
        BY DEF Loader, Protocol, Types
      <3> QED BY <3>1, <3>2
    <2> QED BY <1>2, <2>1, <2>2
  <1>6. UNCHANGED <<image, memory, device>>
    BY DEF DataRead
  <1> QED BY <1>1, <1>2, <1>3, <1>4, <1>5, <1>6, StoreProgress

LEMMA PastProgress ==
  ASSUME Loader, Progress, PastTheEnd
  PROVE  Progress'
  <1>1. /\ boot = "data" /\ MoreData /\ Store(NoSector) /\ current_sector >= Len(disk)
        /\ UNCHANGED <<image, memory, device>>
    BY DEF PastTheEnd, channel
  <1>2. NoSector \in Int /\ current_sector \notin Sectors
    BY <1>1 DEF NoSector, Sectors, Loader, Protocol, Types, Written
  <1> QED BY <1>1, <1>2, StoreProgress

\* The header that comes back is the one of the next file, or the end.
LEMMA HeaderFound ==
  ASSUME Loader, Progress, HeadersRead, boot = "header", stage = "waiting", ~virtq_is_busy,
         NEW b, b = IF blk_req.status # 0 THEN buffer ELSE blk_req.data
  PROVE  LET n == Len(filesystem_files) IN
         /\ Start(n + 1) < Len(disk)
         /\ Header(b) = IF n = Len(archive) THEN Zero ELSE HeaderOf(n + 1)
  <1>0. PICK n : n = Len(filesystem_files)
    OBVIOUS
  <1>1. /\ n \in Nat /\ n <= Len(archive) /\ Len(archive) \in Nat
        /\ current_sector = Start(n + 1)
    BY <1>0, ProgressFacts DEF InPlace
  <1>2. Answered
    BY ReturnAnswered
  <1>3. /\ blk_req.sector = current_sector /\ current_sector \in Sectors
        /\ IF blk_req.status = 0 THEN blk_req.data = blk_req.sector
                                 ELSE blk_req.sector \in device.failed
    BY <1>2 DEF Loader, Asked
  <1>4. n + 1 \in 1 .. Len(archive) + 1
    BY <1>1
  <1>5. Start(n + 1) \notin device.failed
    BY <1>4 DEF HeadersRead
  <1>6. b = Start(n + 1)
    BY <1>1, <1>3, <1>5
  <1>7. Start(n + 1) \in Nat /\ Start(n + 1) < Len(disk) /\ Start(n + 1) # NoSector
    BY <1>1, <1>3 DEF Sectors, Loader, Written, NoSector
  <1>8. Header(b) = disk[Start(n + 1) + 1]
    BY <1>6, <1>7 DEF Header
  <1>9. CASE n = Len(archive)
    BY <1>0, <1>7, <1>8, <1>9 DEF Loader, Written
  <1>10. CASE n # Len(archive)
    <2>1. n + 1 \in 1 .. Len(archive)
      BY <1>1, <1>10
    <2> QED BY <1>0, <1>7, <1>8, <1>10, <2>1 DEF Loader, Written
  <1> QED BY <1>9, <1>10

LEMMA HeaderProgress ==
  ASSUME Loader, Progress, HeaderRead
  PROVE  Progress'
  <1>1. PICK b \in {buffer, blk_req.data} :
          /\ Returned(buffer, b)
          /\ IF Header(b).name = NoName
             THEN /\ boot' = "loaded"
                  /\ UNCHANGED <<current_sector, filesystem_files>>
             ELSE /\ boot' = "data"
                  /\ current_sector' = current_sector + 1
                  /\ filesystem_files' = Append(filesystem_files,
                       [name |-> Header(b).name, size |-> oct2int(Header(b).digits), data |-> <<>>])
    BY DEF HeaderRead
  <1>2. /\ stage = "waiting" /\ ~virtq_is_busy /\ boot = "header"
        /\ b = IF blk_req.status # 0 THEN buffer ELSE blk_req.data
    BY <1>1 DEF Returned, HeaderRead
  <1>3. /\ archive' = archive /\ disk' = disk /\ Sectors' = Sectors
        /\ \A k : Start(k)' = Start(k)
        /\ vq' = vq /\ device' = device /\ boot' # "init"
    BY <1>1, SameImage DEF HeaderRead, memory
  <1>4. HeadersRead' <=> HeadersRead
    BY <1>3 DEF HeadersRead
  <1> SUFFICES ASSUME HeadersRead
               PROVE  InPlace' /\ \A k \in DOMAIN filesystem_files' : AsArchived(k)'
    BY <1>3, <1>4 DEF Progress
  <1>0. PICK n : n = Len(filesystem_files)
    OBVIOUS
  <1>5. /\ n \in Nat /\ DOMAIN filesystem_files = 1 .. n
        /\ n <= Len(archive) /\ Len(archive) \in Nat
        /\ \A k \in 1 .. n : AsArchived(k)
        /\ current_sector = Start(n + 1)
    BY <1>0, <1>2, ProgressFacts DEF InPlace
  <1>6. /\ Start(n + 1) < Len(disk)
        /\ Header(b) = IF n = Len(archive) THEN Zero ELSE HeaderOf(n + 1)
    BY <1>0, <1>2, HeaderFound
  <1>7. CASE n = Len(archive)
    <2>1. Header(b).name = NoName
      BY <1>6, <1>7 DEF Zero
    <2>2. boot' = "loaded" /\ UNCHANGED <<current_sector, filesystem_files>>
      BY <1>1, <2>1
    <2>3. InPlace'
      BY <1>0, <1>3, <1>7, <2>2 DEF InPlace
    <2>4. ASSUME NEW k \in 1 .. n PROVE AsArchived(k)'
      BY <1>2, <1>3, <1>5, <2>2 DEF AsArchived, SectorsOf
    <2> QED BY <1>5, <2>2, <2>3, <2>4
  <1>8. CASE n # Len(archive)
    <2>1. n + 1 \in 1 .. Len(archive) /\ archive \in Archives
      BY <1>5, <1>8 DEF Loader, Written
    <2>2. /\ archive[n + 1].name # NoName
          /\ archive[n + 1].size \in 0 .. Weight[SizeDigits] - 1
          /\ SectorsOf(archive[n + 1].size) \in Nat
      BY <2>1, ArchiveFacts
    <2>3. Header(b).name = archive[n + 1].name /\ Header(b).digits = Octal(archive[n + 1].size)
      BY <1>6, <1>8 DEF HeaderOf
    <2>4. oct2int(Header(b).digits) = archive[n + 1].size
      BY <2>2, <2>3, OctalValue
    <2> DEFINE e == [name |-> Header(b).name, size |-> oct2int(Header(b).digits), data |-> <<>>]
    <2>5. e.name = archive[n + 1].name /\ e.size = archive[n + 1].size /\ e.data = <<>>
      BY <2>3, <2>4
    <2>6. boot' = "data" /\ current_sector' = current_sector + 1
          /\ filesystem_files' = Append(filesystem_files, e)
      BY <1>1, <2>2, <2>3
    <2> HIDE DEF e
    <2>7. /\ Len(filesystem_files') = n + 1 /\ DOMAIN filesystem_files' = 1 .. n + 1
          /\ filesystem_files'[n + 1] = e
          /\ \A k \in 1 .. n : filesystem_files'[k] = filesystem_files[k]
      BY <1>0, <2>6, NewEntry DEF Loader
    <2>8. InPlace'
      <3>1. Len(e.data) = 0 /\ current_sector' = Start(n + 1) + 1 + 0
        <4>1. Start(n + 1) \in Nat
          BY <1>5 DEF Loader, Protocol, Types
        <4> QED BY <1>5, <2>5, <2>6, <4>1
      <3> QED BY <1>3, <2>6, <2>7, <3>1 DEF InPlace
    <2>9. AsArchived(n + 1)'
      <3>1. Len(e.data) = 0 /\ DOMAIN e.data = {}
        BY <2>5
      <3>2. ~(n + 1 < n + 1) /\ 0 <= SectorsOf(archive[n + 1].size)
        BY <1>5, <2>2
      <3>3. SectorsOf(archive[n + 1].size)' = SectorsOf(archive[n + 1].size)
        BY <1>3 DEF SectorsOf
      <3> QED BY <1>3, <1>6, <2>1, <2>5, <2>6, <2>7, <3>1, <3>2, <3>3 DEF AsArchived
    <2>10. ASSUME NEW k \in 1 .. n PROVE AsArchived(k)'
      <3>1. AsArchived(k) /\ filesystem_files'[k] = filesystem_files[k]
        BY <1>5, <2>7
      <3> QED BY <1>2, <1>3, <2>7, <3>1 DEF AsArchived, SectorsOf
    <2>11. \A k \in 1 .. n + 1 : k = n + 1 \/ k \in 1 .. n
      BY <1>5
    <2> QED BY <2>7, <2>8, <2>9, <2>10, <2>11
  <1> QED BY <1>7, <1>8

LEMMA NextProgress == Loader /\ Progress /\ [DiskNext]_diskVars => Progress'
  <1> SUFFICES ASSUME Loader, Progress, [DiskNext]_diskVars PROVE Progress'
    OBVIOUS
  <1> USE DEF memory, channel, loader
  <1>1. CASE virtio_blk_init
    <2>1. /\ filesystem_files' = <<>> /\ current_sector' = 0 /\ boot' = "header"
      BY <1>1 DEF virtio_blk_init, Progress
    <2>2. archive \in Archives /\ UNCHANGED image
      BY <1>1 DEF virtio_blk_init, Loader, Written
    <2>3. Start(1)' = 0
      BY <2>2, SameImage, StartFacts
    <2>4. Len(filesystem_files') = 0 /\ DOMAIN filesystem_files' = {} /\ 0 + 1 = 1
      BY <2>1
    <2>5. InPlace'
      BY <2>1, <2>3, <2>4 DEF InPlace
    <2> QED BY <2>1, <2>4, <2>5 DEF Progress
  <1>2. CASE NoDisk
    BY <1>2 DEF NoDisk, Loader, Protocol, Pages, Progress, HeadersRead
  <1>3. CASE virtq_kick
    BY <1>3, SameProgress DEF virtq_kick, Loader, Protocol, Started
  <1>4. CASE ReadHeader
    BY <1>4, SameProgress DEF ReadHeader
  <1>5. CASE ReadData
    BY <1>5, SameProgress DEF ReadData
  <1>6. CASE HeaderRead
    BY <1>6, HeaderProgress
  <1>7. CASE DataRead
    BY <1>7, DataProgress
  <1>8. CASE PastTheEnd
    BY <1>8, PastProgress
  <1>9. CASE DeviceStep
    BY <1>9, ServeProgress DEF DeviceStep
  <1>10. CASE AllRead \/ FileRead
    <2>1. /\ UNCHANGED <<image, memory, device, current_sector, filesystem_files>>
          /\ boot' \in {"loaded", "header"} /\ stage = "idle"
      BY <1>10 DEF AllRead, FileRead
    <2>2. /\ archive' = archive /\ disk' = disk /\ Sectors' = Sectors
          /\ \A k : Start(k)' = Start(k)
      BY <2>1, SameImage
    <2>3. HeadersRead' <=> HeadersRead
      BY <2>1, <2>2 DEF HeadersRead
    <2> SUFFICES ASSUME HeadersRead
                 PROVE  InPlace' /\ \A k \in DOMAIN filesystem_files : AsArchived(k)'
      BY <2>1, <2>3 DEF Progress
    <2>0. PICK n : n = Len(filesystem_files)
      OBVIOUS
    <2>4. /\ n \in Nat /\ DOMAIN filesystem_files = 1 .. n
          /\ n <= Len(archive) /\ Len(archive) \in Nat
          /\ \A k \in 1 .. n : AsArchived(k)
          /\ InPlace
      BY <2>0, ProgressFacts
    <2>5. CASE AllRead
      <3>1. boot = "header" /\ boot' = "loaded" /\ ~MoreEntries /\ current_sector = Start(n + 1)
        BY <2>0, <2>4, <2>5 DEF AllRead, InPlace
      <3>2. n = MAX_FS_FILES \/ Start(n + 1) >= Len(disk)
        <4>1. n <= MAX_FS_FILES
          BY <2>0 DEF Loader, Room
        <4>2. ~(n < MAX_FS_FILES) \/ ~(current_sector < Len(disk))
          BY <2>0, <3>1 DEF MoreEntries
        <4>3. current_sector \in Nat /\ Len(disk) \in Nat
          BY DEF Loader, Protocol, Types, Written
        <4> QED BY <2>4, <3>1, <4>1, <4>2, <4>3, SectorFacts
      <3>3. InPlace'
        BY <2>0, <2>1, <2>2, <3>1, <3>2 DEF InPlace
      <3>4. ASSUME NEW k \in 1 .. n PROVE AsArchived(k)'
        BY <2>1, <2>2, <2>4, <3>1 DEF AsArchived, SectorsOf
      <3> QED BY <2>4, <3>3, <3>4
    <2>6. CASE FileRead
      <3> DEFINE m == Len(filesystem_files[n].data)
                 c == SectorsOf(archive[n].size)
      <3>1. boot = "data" /\ boot' = "header" /\ ~MoreData /\ current_sector = Start(n) + 1 + m
        BY <2>0, <2>4, <2>6 DEF FileRead, InPlace
      <3>2. n \in 1 .. n /\ n \in DOMAIN filesystem_files
        <4>1. n # 0
          BY <2>0, <3>1 DEF Loader, Room
        <4> QED BY <2>4, <4>1
      <3>3. /\ n \in 1 .. Len(archive) /\ m <= c /\ filesystem_files[n].size = archive[n].size
            /\ archive \in Archives
        BY <2>4, <3>2 DEF AsArchived, Loader, Written
      <3>4. archive[n].size \in Nat /\ c \in Nat /\ Start(n + 1) = Start(n) + 1 + c
        BY <3>3, ArchiveFacts, StartFacts
      <3>5. m \in Nat
        <4>1. filesystem_files[n] \in Entries
          BY <3>2 DEF Loader, Room
        <4>2. filesystem_files[n].data \in Seq(Int)
          BY <4>1 DEF Entries
        <4> QED BY <4>2
      <3>6. m = c
        <4>1. ~(m * SECTOR_SIZE < archive[n].size)
          BY <2>0, <3>1, <3>3 DEF MoreData, CopiedSectors, File, Last
        <4>2. ~(m < c)
          BY <3>4, <3>5, <4>1, SectorsOfFacts
        <4> QED BY <3>3, <3>4, <3>5, <4>2
      <3>7. InPlace'
        BY <2>0, <2>1, <2>2, <3>1, <3>4, <3>6 DEF InPlace
      <3>8. ASSUME NEW k \in 1 .. n PROVE AsArchived(k)'
        <4>1. AsArchived(k) /\ (k = n \/ k < n)
          BY <2>4
        <4>2. Len(filesystem_files[k].data) = SectorsOf(archive[k].size)
          BY <2>0, <3>6, <4>1 DEF AsArchived
        <4> QED BY <2>1, <2>2, <4>1, <4>2 DEF AsArchived, SectorsOf
      <3> QED BY <2>4, <3>7, <3>8
    <2> QED BY <1>10, <2>5, <2>6
  <1>11. CASE UNCHANGED diskVars
    <2>1. CASE boot = "init"
      BY <1>11, <2>1 DEF diskVars, Progress, Loader, Protocol, Pages, HeadersRead
    <2>2. CASE boot # "init"
      BY <1>11, <2>2, SameProgress DEF diskVars
    <2> QED BY <2>1, <2>2
  <1> QED BY <1>1, <1>2, <1>3, <1>4, <1>5, <1>6, <1>7, <1>8, <1>9, <1>10, <1>11
          DEF DiskNext, LoadStep

LEMMA ProgressLoads == Loader /\ Progress => LoadedAsArchive
  <1> SUFFICES ASSUME Loader, Progress, HeadersRead
               PROVE  /\ \A k \in DOMAIN filesystem_files :
                           LET f == filesystem_files[k] IN
                           /\ k \in OnDisk
                           /\ f.name = archive[k].name /\ f.size = archive[k].size
                           /\ \A j \in DOMAIN f.data :
                                f.data[j] = IF Start(k) + j \in Sectors \ device.failed
                                            THEN Start(k) + j ELSE NoSector
                           /\ k < Len(filesystem_files) \/ boot = "loaded" =>
                                Len(f.data) = SectorsOf(f.size)
                      /\ boot = "loaded" =>
                           \A k \in OnDisk : k \in DOMAIN filesystem_files \/ k > MAX_FS_FILES
                      /\ boot = "panic" => File.size > MAX_FILESIZE
    BY DEF LoadedAsArchive, HeadersRead
  <1>0. PICK n : n = Len(filesystem_files)
    OBVIOUS
  <1>1. /\ n \in Nat /\ DOMAIN filesystem_files = 1 .. n
        /\ n <= Len(archive) /\ Len(archive) \in Nat
        /\ \A k \in 1 .. n : AsArchived(k)
        /\ InPlace
    BY <1>0, ProgressFacts
  <1>2. archive \in Archives /\ DOMAIN archive = 1 .. Len(archive)
    BY ArchiveFacts DEF Loader, Written
  <1>3. ASSUME NEW k \in DOMAIN filesystem_files
        PROVE  LET f == filesystem_files[k] IN
               /\ k \in OnDisk
               /\ f.name = archive[k].name /\ f.size = archive[k].size
               /\ \A j \in DOMAIN f.data :
                    f.data[j] = IF Start(k) + j \in Sectors \ device.failed
                                THEN Start(k) + j ELSE NoSector
               /\ k < Len(filesystem_files) \/ boot = "loaded" =>
                    Len(f.data) = SectorsOf(f.size)
    <2>1. AsArchived(k)
      BY <1>1
    <2> QED BY <1>2, <2>1 DEF AsArchived, OnDisk
  <1>4. ASSUME boot = "loaded", NEW k \in OnDisk
        PROVE  k \in DOMAIN filesystem_files \/ k > MAX_FS_FILES
    <2>1. k \in 1 .. Len(archive) /\ Start(k) < Len(disk) /\ k \in 1 .. Len(archive) + 1
      BY <1>1, <1>2 DEF OnDisk
    <2>2. CASE k <= n
      BY <1>1, <2>1, <2>2
    <2>3. CASE k > n /\ Start(n + 1) >= Len(disk)
      <3>1. n + 1 \in 1 .. Len(archive) + 1 /\ n + 1 \in 1 .. Len(archive)
        BY <1>1, <2>1, <2>3
      <3>2. Start(n + 1) \in Nat /\ Start(k) \in Nat /\ SectorsOf(archive[n + 1].size) \in Nat
            /\ Len(disk) \in Nat
        BY <1>2, <2>1, <3>1, StartFacts, ArchiveFacts DEF Loader, Written
      <3>3. k = n + 1 \/ n + 1 \in 1 .. k - 1
        BY <1>1, <2>1, <2>3
      <3>4. k # n + 1 => Start(n + 1) + SectorsOf(archive[n + 1].size) < Start(k)
        BY <1>2, <2>1, <3>3, StartGrows
      <3> QED BY <2>1, <2>3, <3>2, <3>3, <3>4
    <2>4. CASE k > n /\ n = MAX_FS_FILES
      BY <2>4
    <2>5. CASE k > n /\ n = Len(archive)
      BY <1>1, <2>1, <2>5
    <2>6. n = MAX_FS_FILES \/ n = Len(archive) \/ Start(n + 1) >= Len(disk)
      BY <1>0, <1>1, <1>4 DEF InPlace
    <2> QED BY <1>1, <2>1, <2>2, <2>3, <2>4, <2>5, <2>6
  <1>5. boot = "panic" => File.size > MAX_FILESIZE
    BY <1>0, <1>1 DEF InPlace, File, Last
  <1> QED BY <1>3, <1>4, <1>5

LEMMA ProgressInvariant == DiskSpec => []Progress
  BY LoaderInvariant, InitProgress, NextProgress, PTL DEF DiskSpec

\* The files in memory are those of the archive, for every archive, every disk
\* that holds it or a part of it, and whichever data sectors fail: oct2int reads
\* the size that tar has written, the loop takes as many sectors as that makes,
\* and so comes to the next header (filesystem_init, virtio_rw).
THEOREM LoadsTheArchive == DiskSpec => []LoadedAsArchive
  BY LoaderInvariant, ProgressInvariant, ProgressLoads, PTL

\* Every variable of the driver and of the loading keeps its type: no more than
\* MAX_FS_FILES files, requests for sectors of the disk only (filesystem_init,
\* virtio_rw).
THEOREM DiskTypeCorrect == DiskSpec => []DiskTypeOK
  BY LoaderInvariant, FilesStayInEntries, LoaderTypes, PTL
=============================================================================
