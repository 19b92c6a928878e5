--------------------------------- MODULE Gpt ---------------------------------
(***************************************************************************)
(* A disk with a GUID partition table: the operations of gpt.c and their   *)
(* callers in ptable.c, one step for each system call that may fail or     *)
(* that tells others what was done.                                        *)
(*                                                                         *)
(* gpt.c edits the disk through a shared mapping: what it stores is seen   *)
(* at once by the kernel and libblkid, which read the page cache, and gets *)
(* to the platters when it is synced, or whenever the kernel chooses to    *)
(* write dirty pages back, which may be in the middle of an operation.     *)
(* Either writes in any order.  A crash leaves the platters.  The          *)
(* growlight lock is held by each operation, so they do not overlap.       *)
(***************************************************************************)
EXTENDS Integers, FiniteSetsExt

CONSTANTS
  N,          \* partcount
  Extents,    \* sector ranges <<first, last>> a user may ask for
  Names,      \* names a user may give; a name too long is one of TooLong
  TooLong,
  Kinds,      \* which operations are used
  MayFail,    \* which steps may fail, besides those the state makes fail, and
              \* "name": names too long are given
  MaxOps,     \* bound on operations begun
  MaxCrashes  \* bound on crashes

ASSUME GptAssumption ==
  /\ N \in Nat \ {0}
  /\ Extents \subseteq (Nat \ {0}) \X (Nat \ {0})
  /\ TooLong \subseteq Names
  /\ MaxOps \in Nat /\ MaxCrashes \in Nat

VARIABLES
  cache,   \* the disk as the page cache shows it
  disk,    \* the disk as the platters hold it
  kernel,  \* the partitions the kernel serves
  listed,  \* what growlight's last scan of the disk found
  op,      \* the operation under way
  unseen,  \* a partition is gone, and growlight has yet to scan the disk: the
           \* kernel's event is on its way
  clean,   \* nothing has failed so far
  failing, \* MayFail, or nothing: then power may fail
  ops, crashes

counters == <<failing, ops, crashes>>
vars == <<cache, disk, kernel, listed, op, unseen, clean, failing, ops, crashes>>

None == "none"
NoExtent == <<0, 0>>
Zero == [type |-> None, name |-> None, flags |-> 0, first |-> 0, last |-> 0]
Data == [type |-> "data", name |-> "data", flags |-> 0, first |-> 1, last |-> 1]

Slots == 1 .. N
Used(e) == e.type # None
\* Mutant: the second is a length.
ExtentLength(e) == <<e.first, e.last - e.first + 1>>

Extent(e) == <<e.first, e.last>>

\* The array of entries, without the sector behind it.
Table(t) == [i \in Slots |-> t[i]]
ExtentsOf(t) == [i \in Slots |-> Extent(t[i])]
NoTable == [i \in Slots |-> Zero]
NoExtents == [i \in Slots |-> NoExtent]

(***************************************************************************)
(* A header is the array its partcrc was computed from, or NoHeader.  The  *)
(* sector behind the primary array, slot N + 1, belongs to the first       *)
(* partition, and is within reach of the mapping.                          *)
(***************************************************************************)
NoHeader == [i \in {} |-> Zero]
Units == {"mbr", "hdr", "tab", "bhdr", "btab"}
Blank == [mbr |-> FALSE, hdr |-> NoHeader,
          tab |-> [i \in 1 .. N + 1 |-> IF i \in Slots THEN Zero ELSE Data],
          bhdr |-> NoHeader, btab |-> NoTable]

PrimaryOK(d) == d.hdr = Table(d.tab)
BackupOK(d) == d.bhdr = d.btab

\* What the kernel and libblkid make of a disk: the protective MBR, then the
\* primary if its checksum holds, then the backup.
Recognised(d) == d.mbr /\ (PrimaryOK(d) \/ BackupOK(d))
Reread(d) ==
  IF ~Recognised(d) THEN NoExtents
  ELSE IF PrimaryOK(d) THEN ExtentsOf(d.tab) ELSE ExtentsOf(d.btab)

\* rescan drops partitions it finds without a table ("malingering").
Scan(d, k) ==
  [pt |-> Recognised(d), parts |-> IF Recognised(d) THEN k ELSE NoExtents]

\* The table that is found on a disk.
Found(d) ==
  IF PrimaryOK(d) THEN Table(d.tab) ELSE IF BackupOK(d) THEN d.btab ELSE NoHeader

(***************************************************************************)
(* The operation under way, with what it began on: the table old; whether  *)
(* the platters had a whole backup (backed), and it and the primary were   *)
(* of that one table (sound).                                              *)
(***************************************************************************)
Idle == [kind |-> None, at |-> "idle", p |-> 0, ext |-> NoExtent, ok |-> TRUE,
         old |-> NoHeader, backed |-> TRUE, sound |-> TRUE]

Started(k, a, p, e) ==
  [kind |-> k, at |-> a, p |-> p, ext |-> e, ok |-> TRUE,
   old |-> Found(cache), backed |-> BackupOK(disk),
   sound |-> BackupOK(disk) => PrimaryOK(cache) /\ disk.btab = Table(cache.tab)]

Init ==
  /\ cache = Blank
  /\ disk = Blank
  /\ kernel = NoExtents
  /\ listed = Scan(Blank, NoExtents)
  /\ op = Idle
  /\ unseen = FALSE /\ clean = TRUE
  /\ failing \in {{}, MayFail}
  /\ ops = 0 /\ crashes = 0

-----------------------------------------------------------------------------
At(a) == op.at = a
Goto(a) == op' = [op EXCEPT !.at = a]

Begin(k, a, p, e) ==
  /\ At("idle")
  /\ k \in Kinds
  /\ ops < MaxOps
  /\ ops' = ops + 1
  /\ op' = Started(k, a, p, e)
  /\ UNCHANGED <<failing, crashes>>

Fail ==
  /\ op' = Idle
  /\ clean' = FALSE

Stored(field, value) == cache' = [cache EXCEPT ![field] = value]

-----------------------------------------------------------------------------
(***************************************************************************)
(* new_gpt and zap_gpt: the protective MBR, then the primary, synced, then *)
(* the backup.  A new table takes whatever is in the sectors of the array. *)
(***************************************************************************)
NewGpt ==
  /\ ~listed.pt
  /\ Begin("new", "head", 0, NoExtent)
  /\ Stored("mbr", TRUE)
  /\ UNCHANGED <<disk, kernel, listed, unseen, clean>>

ZapGpt ==
  /\ listed.pt
  /\ Begin("zap", "head", 0, NoExtent)
  /\ Stored("mbr", FALSE)
  /\ UNCHANGED <<disk, kernel, listed, unseen, clean>>

\* write_gpt clears one sector too many: the one behind the array.
WriteGpt ==
  /\ At("head")
  /\ cache' = IF op.kind = "new"
              THEN [cache EXCEPT !.hdr = Table(cache.tab)]
              ELSE [cache EXCEPT !.hdr = NoHeader,
                                 !.tab = [i \in 1 .. N + 1 |-> Zero]]
  /\ Goto("psync")
  /\ UNCHANGED <<disk, kernel, listed, unseen, clean, counters>>

\* initialize_gpt clears the header before it asks for random bytes.
WriteGptFails ==
  /\ At("head") /\ op.kind = "new"
  /\ "random" \in failing
  /\ Stored("hdr", NoHeader)
  /\ Fail
  /\ UNCHANGED <<disk, kernel, listed, unseen, counters>>

-----------------------------------------------------------------------------
(***************************************************************************)
(* The edits, up to the release of the mapping (unmap_gpt).                *)
(***************************************************************************)
Free == {i \in Slots : ~Used(cache.tab[i])}

Named(e, n) == [e EXCEPT !.name = n]

\* add_gpt takes the first free entry; of an overlap it only speaks.
AddGpt(e, n) ==
  /\ listed.pt
  /\ cache.hdr # NoHeader /\ Free # {}
  /\ n \notin TooLong
  /\ Begin("add", "crc", Min(Free), e)
  /\ Stored("tab", [cache.tab EXCEPT ![Min(Free)] =
       [type |-> "linux", name |-> n, flags |-> 0, first |-> e[1], last |-> e[2]]])
  /\ UNCHANGED <<disk, kernel, listed, unseen, clean>>

\* Mutant: the entry is left as far as it was filled in.
AddGptAbandoned(e, n) ==
  /\ listed.pt
  /\ Begin("add", "idle", 0, NoExtent)
  /\ cache.hdr # NoHeader /\ Free # {}
  /\ n \in TooLong \/ "random" \in failing
  /\ Stored("tab", [cache.tab EXCEPT ![Min(Free)] = [Named(@, n) EXCEPT !.type = "linux"]])
  /\ UNCHANGED <<disk, kernel, listed, unseen, clean>>

\* No entry is free, the name does not fit, or there are no random bytes: an
\* entry begun is cleared.
AddGptFails(e, n) ==
  /\ listed.pt
  /\ Begin("add", "idle", 0, NoExtent)
  /\ IF cache.hdr = NoHeader \/ Free = {} THEN UNCHANGED cache
     ELSE /\ n \in TooLong \/ "random" \in failing
          /\ Stored("tab", [cache.tab EXCEPT ![Min(Free)] = Zero])
  /\ clean' = (clean /\ cache' = cache)
  /\ UNCHANGED <<disk, kernel, listed, unseen>>

DelGpt(p) ==
  /\ listed.parts[p] # NoExtent
  /\ Begin("del", "crc", p, NoExtent)
  /\ Stored("tab", [cache.tab EXCEPT ![p] = Zero])
  /\ UNCHANGED <<disk, kernel, listed, unseen, clean>>

(***************************************************************************)
(* name_gpt, uuid_gpt, flags_gpt and code_gpt index the array with the     *)
(* partition's number, which counts from one.                              *)
(***************************************************************************)
Slot(p) == p + 1

Edit(k, p, e) ==
  /\ listed.parts[p] # NoExtent
  /\ Begin(k, "crc", p, NoExtent)
  /\ Stored("tab", [cache.tab EXCEPT ![Slot(p)] = e])
  /\ UNCHANGED <<disk, kernel, listed, unseen, clean>>

NameGpt(p, n) ==
  n \notin TooLong /\ Edit("name", p, Named(cache.tab[Slot(p)], n))

\* iconv fills the field before it finds no room; the mapping is dropped as it is.
NameGptFails(p, n) ==
  /\ n \in TooLong
  /\ listed.parts[p] # NoExtent
  /\ Begin("name", "idle", 0, NoExtent)
  /\ Stored("tab", [cache.tab EXCEPT ![Slot(p)] = Named(@, n)])
  /\ clean' = FALSE
  /\ UNCHANGED <<disk, kernel, listed, unseen>>

\* uuid_gpt copies the bytes into the name.
UuidGpt(p) == Edit("uuid", p, Named(cache.tab[Slot(p)], "uuid"))

FlagsGpt(p, f) == Edit("flags", p, [cache.tab[Slot(p)] EXCEPT !.flags = f])

CodeGpt(p) ==
  /\ Extent(cache.tab[Slot(p)]) # NoExtent
  /\ Edit("code", p, [cache.tab[Slot(p)] EXCEPT !.type = "other"])

\* An entry without sectors is refused, after the mapping's usual release.
CodeGptRefused(p) ==
  /\ listed.parts[p] # NoExtent
  /\ Extent(cache.tab[Slot(p)]) = NoExtent
  /\ At("idle") /\ "code" \in Kinds /\ ops < MaxOps
  /\ ops' = ops + 1
  /\ op' = [Started("code", "crc", 0, NoExtent) EXCEPT !.ok = FALSE]
  /\ UNCHANGED <<cache, disk, kernel, listed, unseen, clean, failing, crashes>>

\* wipe_dosmbr clears the first sector, whatever it protects.
WipeDosMbr ==
  /\ Begin("wipembr", "rescan", 0, NoExtent)
  /\ Stored("mbr", FALSE)
  /\ clean' = FALSE
  /\ UNCHANGED <<disk, kernel, listed, unseen>>

-----------------------------------------------------------------------------
(***************************************************************************)
(* unmap_gpt: the checksums of the primary, the backup and its sync.       *)
(***************************************************************************)
UpdateCrc ==
  /\ At("crc")
  /\ cache.hdr # NoHeader
  /\ Stored("hdr", Table(cache.tab))
  /\ Goto("copy")
  /\ UNCHANGED <<disk, kernel, listed, unseen, clean, counters>>

\* A header that says nothing of the array.
UpdateCrcFails ==
  /\ At("crc")
  /\ cache.hdr = NoHeader
  /\ Fail
  /\ UNCHANGED <<cache, disk, kernel, listed, unseen, counters>>

\* Mutant: only the header is copied.
UpdateBackupHeader ==
  /\ At("copy")
  /\ Stored("bhdr", cache.hdr)
  /\ Goto("sync")
  /\ UNCHANGED <<disk, kernel, listed, unseen, clean, counters>>

UpdateBackup ==
  /\ At("copy")
  /\ cache' = IF op.kind = "zap"
              THEN [cache EXCEPT !.bhdr = NoHeader, !.btab = NoTable]
              ELSE [cache EXCEPT !.bhdr = Table(cache.tab), !.btab = Table(cache.tab)]
  /\ Goto("sync")
  /\ UNCHANGED <<disk, kernel, listed, unseen, clean, counters>>

(***************************************************************************)
(* Writing to the platters.  The kernel may write any dirty page at any    *)
(* time; a sync ends when all of its pages are written.                    *)
(***************************************************************************)
Syncing ==
  CASE At("psync") -> {"mbr", "hdr", "tab"}
    [] At("sync") -> {"bhdr", "btab"}
    [] OTHER -> Units

Synced(U) == \A u \in U : disk[u] = cache[u]

WriteBack(u) ==
  /\ disk[u] # cache[u]
  /\ disk' = [disk EXCEPT ![u] = cache[u]]
  /\ UNCHANGED <<cache, kernel, listed, op, unseen, clean, counters>>

PrimarySynced ==
  /\ At("psync")
  /\ Synced(Syncing)
  /\ Goto("copy")
  /\ UNCHANGED <<cache, disk, kernel, listed, unseen, clean, counters>>

\* An error of msync or of the unmapping; after some sectors, or all of them.
SyncFails ==
  /\ At("psync") \/ At("sync")
  /\ "msync" \in failing
  /\ Fail
  /\ UNCHANGED <<cache, disk, kernel, listed, unseen, counters>>

\* The setters are done; what they changed in the primary is not synced.
Finish ==
  /\ op' = Idle
  /\ clean' = (clean /\ op.ok)

\* Mutant: the backup is not synced.
BackupUnsynced ==
  /\ At("sync")
  /\ IF op.kind \in {"new", "zap", "add", "del"} THEN Goto("fsync") /\ UNCHANGED clean
                                                 ELSE Finish
  /\ UNCHANGED <<cache, disk, kernel, listed, unseen, counters>>

BackupSynced ==
  /\ At("sync")
  /\ Synced(Syncing)
  /\ IF op.kind \in {"new", "zap", "add", "del"} THEN Goto("fsync") /\ UNCHANGED clean
                                                 ELSE Finish
  /\ UNCHANGED <<cache, disk, kernel, listed, unseen, counters>>

\* fsync: a failure is only a warning.
Fsync ==
  /\ At("fsync")
  /\ Synced(Syncing) \/ "fsync" \in failing
  /\ Goto(IF op.kind \in {"add", "del"} THEN "blkpg" ELSE "rescan")
  /\ UNCHANGED <<cache, disk, kernel, listed, unseen, clean, counters>>

-----------------------------------------------------------------------------
\* The kernel takes no partition whose number is taken or whose sectors are.
Overlap(e, f) == f # NoExtent /\ e[1] <= f[2] /\ f[1] <= e[2]
Refused ==
  IF op.kind = "add"
  THEN kernel[op.p] # NoExtent \/ \E i \in Slots : Overlap(op.ext, kernel[i])
  ELSE kernel[op.p] = NoExtent

Blkpg ==
  /\ At("blkpg")
  /\ ~Refused
  /\ kernel' = [kernel EXCEPT ![op.p] = op.ext]
  /\ unseen' = (unseen \/ op.kind = "del")
  /\ Goto("rescan")
  /\ UNCHANGED <<cache, disk, listed, clean, counters>>

\* After three attempts.
BlkpgFails ==
  /\ At("blkpg")
  /\ Refused \/ "blkpg" \in failing
  /\ Fail
  /\ UNCHANGED <<cache, disk, kernel, listed, unseen, counters>>

\* rescan_blockdev_internal: the disk is synced, after a table was made or
\* zapped the kernel reads it again, and growlight scans the device again.
Rescan ==
  /\ At("rescan") /\ op.kind # "del"
  /\ Synced(Syncing) \/ "fsync" \in failing
  /\ kernel' = IF op.kind \in {"new", "zap"} THEN Reread(cache) ELSE kernel
  /\ listed' = Scan(cache, kernel')
  /\ unseen' = FALSE
  /\ op' = Idle
  /\ UNCHANGED <<cache, disk, clean, counters>>

\* The kernel keeps its partitions while one is in use: growlight only says so.
RescanStale ==
  /\ At("rescan") /\ op.kind \in {"new", "zap"}
  /\ "rrpart" \in failing
  /\ listed' = Scan(cache, kernel)
  /\ unseen' = FALSE
  /\ Fail
  /\ UNCHANGED <<cache, disk, kernel, counters>>

\* wipe_partition asks for a scan of the partition, and a partition's directory
\* has no device/rescan to write to: a deletion, done by now, is always reported
\* to have failed.
RescanFails ==
  /\ At("rescan")
  /\ "sysfs" \in failing \/ op.kind = "del"
  /\ op' = Idle
  /\ clean' = (clean /\ op.kind = "del")
  /\ UNCHANGED <<cache, disk, kernel, listed, unseen, counters>>

\* A udev event has growlight scan the device.
UdevRescan ==
  /\ At("idle")
  /\ listed' = Scan(cache, kernel)
  /\ unseen' = FALSE
  /\ UNCHANGED <<cache, disk, kernel, op, clean, counters>>

\* Power fails; the kernel and growlight start again.
Crash ==
  /\ failing = {} /\ crashes < MaxCrashes
  /\ crashes' = crashes + 1
  /\ cache' = disk
  /\ kernel' = Reread(disk)
  /\ listed' = Scan(disk, kernel')
  /\ op' = Idle
  /\ unseen' = FALSE /\ clean' = FALSE
  /\ UNCHANGED <<disk, failing, ops>>

Given == IF "name" \in failing THEN Names ELSE Names \ TooLong

Next ==
  \/ NewGpt \/ ZapGpt \/ WriteGpt \/ WriteGptFails
  \/ \E e \in Extents, n \in Given : AddGpt(e, n) \/ AddGptFails(e, n)
  \/ \E p \in Slots :
       \/ DelGpt(p) \/ UuidGpt(p) \/ CodeGpt(p) \/ CodeGptRefused(p)
       \/ \E n \in Given : NameGpt(p, n) \/ NameGptFails(p, n)
       \/ \E f \in {0, 1} : FlagsGpt(p, f)
  \/ WipeDosMbr
  \/ UpdateCrc \/ UpdateCrcFails \/ UpdateBackup
  \/ \E u \in Units : WriteBack(u)
  \/ PrimarySynced \/ SyncFails \/ BackupSynced \/ Fsync
  \/ Blkpg \/ BlkpgFails \/ Rescan \/ RescanStale \/ RescanFails \/ UdevRescan
  \/ Crash

Spec == Init /\ [][Next]_vars

-----------------------------------------------------------------------------
Entry == [type : {None, "linux", "other", "data"},
          name : Names \cup {None, "uuid", "data"},
          flags : {0, 1}, first : Nat, last : Nat]
Disk == [mbr : BOOLEAN, hdr : [Slots -> Entry] \cup {NoHeader},
         tab : [1 .. N + 1 -> Entry],
         bhdr : [Slots -> Entry] \cup {NoHeader}, btab : [Slots -> Entry]]

TypeOK ==
  /\ cache \in Disk /\ disk \in Disk
  /\ kernel \in [Slots -> Extents \cup {NoExtent}]
  /\ unseen \in BOOLEAN /\ clean \in BOOLEAN /\ failing \in {{}, MayFail}
  /\ listed.pt \in BOOLEAN /\ listed.parts \in [Slots -> Extents \cup {NoExtent}]
  /\ At("crc") \/ At("blkpg") => op.kind \in {"new", "zap"} \/ op.p \in 0 .. N

\* Where every operation so far has succeeded, all who know the disk agree once
\* the last is over: both copies of the table and their checksums, the kernel's
\* partitions, and growlight's own, but for a deletion the kernel's event of which
\* is still on its way.
ViewsAgree ==
  At("idle") /\ clean /\ cache.hdr # NoHeader =>
    /\ PrimaryOK(cache) /\ BackupOK(cache)
    /\ cache.btab = Table(cache.tab)
    /\ kernel = ExtentsOf(cache.tab)
    /\ unseen \/ listed.parts = kernel

\* An add that fails before it releases the table leaves no trace, provided the
\* free entries were empty (a setter may have written to one).
AddUndone ==
  [][ops' > ops /\ op'.kind = "add" /\ op'.at = "idle"
     /\ (\A i \in Free : cache.tab[i] = Zero) => cache' = cache]_vars

\* What a reader finds on the platters after a crash.
Recovered == Found(disk)

\* Where no call fails, an operation that began with copies of one table is atomic
\* for whoever crashes: the platters have the table it began on or the one intended,
\* and never a mixture.  That they have one at all is lost only while the backup is
\* being synced (the kernel may by then have written half of the primary, which
\* nothing has synced) or where an earlier crash had torn the backup; once the
\* backup is synced there is one again.  (Where an earlier crash left copies of two
\* tables, or a torn primary, an operation goes on from it as if it were whole.)
DurableAtomically ==
  [][failing = {} /\ op.sound /\ op.kind # "zap" =>
       /\ Recovered' \in {Recovered, op.old, Table(cache.tab), NoHeader}
       /\ Recovered' = NoHeader => Recovered = NoHeader \/ At("sync") \/ ~op.backed
       /\ At("sync") /\ ~At("sync")' /\ crashes' = crashes => Recovered' # NoHeader]_vars
=============================================================================
