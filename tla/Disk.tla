-------------------------------- MODULE Disk --------------------------------
(***************************************************************************)
(* The disk driver (kernel/virtio.c) and the loading of the file system at *)
(* boot (filesystem_init).  kernel_main calls them one after the other;    *)
(* the other party is the virtio block device, which is external: it       *)
(* serves a request some time after QUEUE_NOTIFY and may fail it.          *)
(*                                                                         *)
(* A sector is known by its number and by what it holds when it is taken   *)
(* for a tar header: a name and the digits of a size.  The driver has one  *)
(* request at a time and always uses descriptor 0, so the entries of the   *)
(* rings carry no information; their 16-bit counters do.                   *)
(***************************************************************************)
EXTENDS Integers, Sequences, SequencesExt, FiniteSets, Functions

CONSTANTS
  SECTOR_SIZE,
  MAX_FS_FILES,
  MAX_FILESIZE,    \* in bytes
  SizeDigits,      \* octal digits of the size in a tar header
  IndexModulus,    \* 2^16, where the counters of the virtqueue wrap
  RamPages,        \* pages kmem_init finds
  KernelPages,     \* pages the kernel has taken before virtio_blk_init
  MaxFailures,     \* requests the device fails
  Archives,        \* tar files the disk may hold: sequences of [name, size]
  Bodies,          \* what a sector of file data is when taken for a header
  Cuts             \* sectors that may be missing at the end of the disk

ASSUME DiskAssumption ==
  /\ {SECTOR_SIZE, MAX_FS_FILES, MAX_FILESIZE, SizeDigits} \subseteq Nat \ {0}
  /\ MAX_FILESIZE % SECTOR_SIZE = 0
  /\ IndexModulus \in Nat /\ IndexModulus > 1
  /\ KernelPages \in Nat /\ RamPages \in Nat /\ RamPages >= KernelPages + 3
  /\ MaxFailures \in Nat
  /\ Cuts \subseteq Nat

VARIABLES
  archive,         \* what was put on the disk
  disk,            \* its sectors
  free,            \* the free list of kmem, first page first
  vq,              \* the page blk_request_vq starts at, 0 before virtq_init
  blk_req,         \* the request: its page, and what driver and device write in it
  queue,           \* avail.index, used.index and last_used_index
  device,          \* its STATUS bits, the avail index it has served up to, the
                   \* sectors it has failed to read
  stage,           \* of virtio_rw: "idle", "notified" or "waiting"
  boot,            \* "init", "header", "data", "loaded" or "panic"
  buffer,          \* the sector read into buffer, NoSector while it is zero
  current_sector,
  filesystem_files \* the entries that exist

image == <<archive, disk>>
memory == <<free, vq>>
channel == <<blk_req, queue, device, stage>>
loader == <<boot, buffer, current_sector, filesystem_files>>
diskVars == <<image, memory, channel, loader>>

NoSector == -1
NoName == <<>>
Zero == [name |-> NoName, digits |-> [i \in 1 .. SizeDigits |-> 0]]

----------------------------------------------------------------------------
(***************************************************************************)
(* The tar file, as it is written by tar.                                  *)
(***************************************************************************)
\* 8^i.
Weight[i \in 0 .. SizeDigits] == IF i = 0 THEN 1 ELSE 8 * Weight[i - 1]

\* Every file in an archive has a name, and its size has SizeDigits octal digits.
ASSUME ArchiveAssumption ==
  \A files \in Archives :
    /\ files \in Seq(Range(files))
    /\ \A k \in DOMAIN files :
         files[k].name # NoName /\ files[k].size \in 0 .. Weight[SizeDigits] - 1

Octal(n) == [i \in 1 .. SizeDigits |-> (n \div Weight[SizeDigits - i]) % 8]

SectorsOf(size) == (size + SECTOR_SIZE - 1) \div SECTOR_SIZE

Image(files, body) ==
  LET entry(f) == <<[name |-> f.name, digits |-> Octal(f.size)]>>
                  \o [j \in 1 .. SectorsOf(f.size) |-> body]
  IN FlattenSeq([k \in DOMAIN files |-> entry(files[k])]) \o <<Zero, Zero>>

\* Mutant: the pages are pushed from the last to the first.
Mutant_kmem_init_Descending == [i \in 1 .. RamPages |-> i]

\* kmem_init pushes the pages in ascending order, so the last one is first.
kmem_init == [i \in 1 .. RamPages |-> RamPages + 1 - i]

DiskInit ==
  /\ archive \in Archives
  /\ \E body \in Bodies, cut \in Cuts :
       disk = SubSeq(Image(archive, body), 1, Len(Image(archive, body)) - cut)
  /\ free = SubSeq(kmem_init, KernelPages + 1, RamPages)
  /\ vq = 0
  /\ blk_req = [page |-> 0, sector |-> 0, data |-> NoSector, status |-> 0]
  /\ queue = [avail |-> 0, used |-> 0, last_used_index |-> 0]
  /\ device = [status |-> {}, served |-> 0, failed |-> {}]
  /\ stage = "idle"
  /\ boot = "init"
  /\ buffer = NoSector
  /\ current_sector = 0
  /\ filesystem_files = <<>>

----------------------------------------------------------------------------
(***************************************************************************)
(* virtio_blk_init.  The status constants as sets of bits; the device      *)
(* takes bit 2 for DRIVER_OK.                                              *)
(***************************************************************************)
VIRTIO_STATUS_ACKNOWLEDGE == {0}
VIRTIO_STATUS_DRIVER      == {1}
VIRTIO_STATUS_DIRVER_OK   == {0, 1}

\* Mutant: FEATURES_OK has the value the virtio standard gives it.
Mutant_VIRTIO_STATUS_FEATURES_OK_Standard == {3}

VIRTIO_STATUS_FEATURES_OK == {2}

DriverOkBit == 2

Found == VIRTIO_STATUS_ACKNOWLEDGE \cup VIRTIO_STATUS_DRIVER

\* The disk is not a virtio disk, or it does not keep FEATURES_OK.
NoDisk ==
  /\ boot = "init"
  /\ \E s \in {{}, Found} : device' = [device EXCEPT !.status = s]
  /\ boot' = "panic"
  /\ UNCHANGED <<image, memory, blk_req, queue, stage, buffer, current_sector,
                 filesystem_files>>

\* virtq_init takes two pages and uses the second and the one above it; the
\* request gets the third.
virtio_blk_init ==
  /\ boot = "init"
  /\ vq' = free[2]
  /\ blk_req' = [blk_req EXCEPT !.page = free[3]]
  /\ free' = SubSeq(free, 4, Len(free))
  /\ device' = [device EXCEPT !.status = Found \cup VIRTIO_STATUS_FEATURES_OK
                                               \cup VIRTIO_STATUS_DIRVER_OK]
  /\ boot' = "header"
  /\ UNCHANGED <<image, queue, stage, buffer, current_sector, filesystem_files>>

----------------------------------------------------------------------------
(***************************************************************************)
(* virtio_rw, for reading.                                                 *)
(***************************************************************************)
Inc(index) == (index + 1) % IndexModulus

\* The request is filled in and the device notified.
Send(sector) ==
  /\ stage = "idle"
  /\ blk_req' = [blk_req EXCEPT !.sector = sector]
  /\ queue' = [queue EXCEPT !.avail = Inc(@)]
  /\ stage' = "notified"

\* Mutant: the completion is not counted.
Mutant_virtq_kick_NoCount ==
  /\ stage = "notified"
  /\ stage' = "waiting"
  /\ UNCHANGED <<image, memory, blk_req, queue, device, loader>>

\* The end of virtq_kick, which the device does not wait for.
virtq_kick ==
  /\ stage = "notified"
  /\ queue' = [queue EXCEPT !.last_used_index = Inc(@)]
  /\ stage' = "waiting"
  /\ UNCHANGED <<image, memory, blk_req, device, loader>>

\* The device serves the request, or fails it and leaves the data alone.
Serve(ok) ==
  /\ device.served # queue.avail
  /\ blk_req' = IF ok THEN [blk_req EXCEPT !.data = blk_req.sector, !.status = 0]
                      ELSE [blk_req EXCEPT !.status = 1]
  /\ ok \/ Cardinality(device.failed) < MaxFailures
  /\ device' = [device EXCEPT !.served = Inc(@),
                              !.failed = IF ok THEN @ ELSE @ \cup {blk_req.sector}]
  /\ queue' = [queue EXCEPT !.used = Inc(@)]
  /\ UNCHANGED <<image, memory, stage, loader>>

\* Mutant: busy only while the count is ahead.
Mutant_virtq_is_busy_Ahead == queue.last_used_index > queue.used

virtq_is_busy == queue.last_used_index # queue.used

\* virtio_rw leaves the buffer as it was when the request has failed.
Returned(old, new) ==
  /\ stage = "waiting"
  /\ ~virtq_is_busy
  /\ new = IF blk_req.status # 0 THEN old ELSE blk_req.data
  /\ stage' = "idle"

----------------------------------------------------------------------------
(***************************************************************************)
(* filesystem_init.                                                        *)
(***************************************************************************)
oct2int(digits) == FoldLeft(LAMBDA n, d : n * 8 + d, 0, digits)

Header(sector) == IF sector = NoSector THEN Zero ELSE disk[sector + 1]

File == Last(filesystem_files)
CopiedSectors == Len(File.data)

MoreEntries == Len(filesystem_files) < MAX_FS_FILES /\ current_sector < Len(disk)

\* Mutant: a file that ends with its last sector has one more read.
Mutant_MoreData_Equal == CopiedSectors * SECTOR_SIZE <= File.size

MoreData == CopiedSectors * SECTOR_SIZE < File.size

ReadHeader ==
  /\ boot = "header" /\ MoreEntries
  /\ Send(current_sector)
  /\ UNCHANGED <<image, memory, device, loader>>

AllRead ==
  /\ boot = "header" /\ ~MoreEntries
  /\ stage = "idle"
  /\ boot' = "loaded"
  /\ UNCHANGED <<image, memory, channel, buffer, current_sector, filesystem_files>>

\* An empty name ends the archive; anything else is an entry.
HeaderRead ==
  /\ boot = "header"
  /\ \E b \in {buffer, blk_req.data} :
       LET h == Header(b) IN
       /\ Returned(buffer, b)
       /\ buffer' = b
       /\ IF h.name = NoName
          THEN /\ boot' = "loaded"
               /\ UNCHANGED <<current_sector, filesystem_files>>
          ELSE /\ boot' = "data"
               /\ current_sector' = current_sector + 1
               /\ filesystem_files' = Append(filesystem_files,
                    [name |-> h.name, size |-> oct2int(h.digits), data |-> <<>>])
  /\ UNCHANGED <<image, memory, blk_req, queue, device>>

ReadData ==
  /\ boot = "data" /\ MoreData
  /\ current_sector < Len(disk)
  /\ Send(current_sector)
  /\ UNCHANGED <<image, memory, device, loader>>

\* Mutant: the size of the file is not checked.
Mutant_TooBig_Never(copied, size) == FALSE

TooBig(copied, size) ==
  copied = MAX_FILESIZE \div SECTOR_SIZE /\ copied * SECTOR_SIZE < size

\* A sector is in place; one that was not read stays zero.
Store(sector) ==
  /\ filesystem_files' = [filesystem_files EXCEPT ![Len(filesystem_files)].data =
                            Append(@, sector)]
  /\ current_sector' = current_sector + 1
  /\ boot' = IF TooBig(CopiedSectors + 1, File.size) THEN "panic" ELSE "data"

DataRead ==
  /\ boot = "data"
  /\ \E b \in {NoSector, blk_req.data} : Returned(NoSector, b) /\ Store(b)
  /\ UNCHANGED <<image, memory, blk_req, queue, device, buffer>>

\* virtio_rw returns at once for a sector the disk does not have.
PastTheEnd ==
  /\ boot = "data" /\ MoreData
  /\ stage = "idle"
  /\ current_sector >= Len(disk)
  /\ Store(NoSector)
  /\ UNCHANGED <<image, memory, channel, buffer>>

FileRead ==
  /\ boot = "data" /\ ~MoreData
  /\ stage = "idle"
  /\ boot' = "header"
  /\ UNCHANGED <<image, memory, channel, buffer, current_sector, filesystem_files>>

LoadStep ==
  \/ virtio_blk_init \/ NoDisk
  \/ virtq_kick
  \/ ReadHeader \/ HeaderRead \/ AllRead
  \/ ReadData \/ DataRead \/ PastTheEnd \/ FileRead

DeviceStep == \E ok \in BOOLEAN : Serve(ok)

DiskNext == LoadStep \/ DeviceStep

DiskSpec == DiskInit /\ [][DiskNext]_diskVars

\* The kernel runs its boot code to the end, and the device answers.
DiskFairness == WF_diskVars(LoadStep) /\ WF_diskVars(DeviceStep)

\* The first entry of that name, if there is one.
filesystem_locate_file(path) ==
  {k \in DOMAIN filesystem_files :
     /\ filesystem_files[k].name = path
     /\ \A j \in 1 .. k - 1 : filesystem_files[j].name # path}

----------------------------------------------------------------------------
(***************************************************************************)
(* Properties                                                              *)
(***************************************************************************)
Sectors == 0 .. Len(disk) - 1

\* No file is read past the MAX_FILESIZE bytes of its entry and there are at
\* most MAX_FS_FILES of them, whatever a sector that is no header is taken for
\* (filesystem_init).
FilesFit ==
  /\ Len(filesystem_files) <= MAX_FS_FILES
  /\ \A k \in DOMAIN filesystem_files :
       Len(filesystem_files[k].data) * SECTOR_SIZE <= MAX_FILESIZE

\* Every variable keeps its type, and the files fit (virtio_rw,
\* filesystem_init).
DiskTypeOK ==
  /\ vq \in 0 .. RamPages /\ blk_req.page \in 0 .. RamPages
  /\ blk_req.sector \in Sectors \cup {0} /\ blk_req.data \in Sectors \cup {NoSector}
  /\ queue \in [avail : 0 .. IndexModulus - 1, used : 0 .. IndexModulus - 1,
                last_used_index : 0 .. IndexModulus - 1]
  /\ device.served \in 0 .. IndexModulus - 1 /\ device.failed \subseteq Sectors
  /\ stage \in {"idle", "notified", "waiting"}
  /\ boot \in {"init", "header", "data", "loaded", "panic"}
  /\ buffer \in Sectors \cup {NoSector}
  /\ current_sector \in Nat
  /\ FilesFit
  /\ \A k \in DOMAIN filesystem_files : \A j \in DOMAIN filesystem_files[k].data :
       filesystem_files[k].data[j] \in Sectors \cup {NoSector}

\* The device is given a request only when it has been told DRIVER_OK, which
\* two wrong status constants together see to (virtio_blk_init).
DriverOkFirst == stage # "idle" => DriverOkBit \in device.status

\* The queue needs a page and the one above it, and both are the driver's: not
\* the request's, not the kernel's, not left for others (virtq_init, kmem_init).
VirtqMemory ==
  vq # 0 =>
    /\ vq + 1 <= RamPages
    /\ {vq, vq + 1} \cap (Range(free) \cup {blk_req.page}
                          \cup Range(SubSeq(kmem_init, 1, KernelPages))) = {}

\* The driver goes on only when the device is done with the request it sent,
\* also when the counters wrap (virtq_kick, virtq_is_busy).
RequestCompleted ==
  [][stage = "waiting" /\ stage' = "idle" => device.served = queue.avail]_diskVars

\* Where the k-th entry of the archive starts.
Start(k) ==
  FoldLeft(LAMBDA n, f : n + 1 + SectorsOf(f.size), 0, SubSeq(archive, 1, k - 1))

OnDisk == {k \in DOMAIN archive : Start(k) < Len(disk)}

\* As long as no header fails to be read, nor the sector that ends the archive
\* (for which the header before it would be taken), the files in memory are those
\* of the archive, in its order, up to MAX_FS_FILES, each with its own sectors and
\* zeros for those that could not be read; and "File too big" is said only of a
\* file that is (filesystem_init).
LoadedAsArchive ==
  (vq # 0 /\ \A k \in 1 .. Len(archive) + 1 : Start(k) \notin device.failed) =>
    /\ \A k \in DOMAIN filesystem_files :
         LET f == filesystem_files[k] IN
         /\ k \in OnDisk
         /\ f.name = archive[k].name /\ f.size = archive[k].size
         /\ \A j \in DOMAIN f.data :
              f.data[j] = IF Start(k) + j \in Sectors \ device.failed
                          THEN Start(k) + j ELSE NoSector
         /\ k < Len(filesystem_files) \/ boot = "loaded" =>
              Len(f.data) = SectorsOf(f.size)
    /\ boot = "loaded" =>
         \A k \in OnDisk : k \in DOMAIN filesystem_files \/ k > MAX_FS_FILES
    /\ boot = "panic" => File.size > MAX_FILESIZE

\* Loading ends, with the files in memory or in kpanic: every request is
\* answered, every loop of filesystem_init runs out.
LoadingEnds == <>(boot \in {"loaded", "panic"})
=============================================================================
