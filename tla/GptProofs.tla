------------------------------ MODULE GptProofs ------------------------------
(***************************************************************************)
(* What holds of Gpt for every number of entries, every set of extents and *)
(* names, and whatever fails.  Three inductive invariants, each of which   *)
(* says what an operation under way has done up to the stage it is at:     *)
(* Typed, ViewsInv and DiskInv.                                            *)
(***************************************************************************)
EXTENDS Gpt, ListProofs

(***************************************************************************)
(* Types.                                                                  *)
(***************************************************************************)
Asked == Extents \cup {NoExtent}

\* What the first N entries of a table may be: their sectors are those of a
\* partition, which what is behind the array need not be.
Entries == {e \in Entry : Extent(e) \in Asked}

TabType(t) ==
  /\ t \in [1 .. N + 1 -> Entry]
  /\ Table(t) \in [Slots -> Entries]

DiskType(d) ==
  /\ d \in Disk
  /\ TabType(d.tab)
  /\ d.btab \in [Slots -> Entries]

OpType ==
  [kind : {None, "new", "zap", "add", "del", "name", "uuid", "flags", "code", "wipembr"},
   at : {"idle", "head", "psync", "crc", "copy", "sync", "fsync", "blkpg", "rescan"},
   p : 0 .. N, ext : Asked, ok : BOOLEAN,
   old : [Slots -> Entries] \cup {NoHeader}, backed : BOOLEAN, sound : BOOLEAN]

Setter == op.kind \in {"name", "uuid", "flags", "code"}
Mover == op.kind \in {"add", "del"}
Maker == op.kind \in {"new", "zap"}

\* Which operations come to which stage.
Stages ==
  /\ At("head") \/ At("psync") => Maker
  /\ At("crc") => Setter \/ Mover
  /\ At("copy") \/ At("sync") => Setter \/ Mover \/ Maker
  /\ At("fsync") => Mover \/ Maker
  /\ At("blkpg") => Mover
  /\ At("rescan") => Mover \/ Maker \/ op.kind = "wipembr"
  /\ op.kind = "del" => op.ext = NoExtent
  /\ Mover /\ ~At("idle") => op.p \in Slots

Typed ==
  /\ DiskType(cache) /\ DiskType(disk)
  /\ kernel \in [Slots -> Asked]
  /\ unseen \in BOOLEAN /\ clean \in BOOLEAN /\ failing \in {{}, MayFail}
  /\ listed \in [pt : BOOLEAN, parts : [Slots -> Asked]]
  /\ op \in OpType
  /\ ops \in Nat /\ crashes \in Nat
  /\ Stages

(***************************************************************************)
(* What each stage of a clean operation has made of the views.             *)
(***************************************************************************)
Primary == cache.mbr /\ PrimaryOK(cache)
Backup == cache.bhdr = Table(cache.tab) /\ cache.btab = Table(cache.tab)
Told == unseen \/ listed.parts = kernel

\* The kernel's partitions are those of the table, or will be once it is told of
\* the one added or deleted.
Pending ==
  /\ \A i \in Slots : (Mover /\ i = op.p) \/ kernel[i] = Extent(cache.tab[i])
  /\ Mover => Extent(cache.tab[op.p]) = op.ext

ViewsInv ==
  clean =>
    /\ At("idle") /\ cache.hdr # NoHeader =>
         Primary /\ Backup /\ Told /\ \A i \in Slots : kernel[i] = Extent(cache.tab[i])
    /\ At("head") /\ op.kind = "new" => cache.mbr
    /\ At("crc") /\ cache.hdr # NoHeader => cache.mbr /\ Pending /\ Told
    /\ (At("psync") \/ At("copy") \/ At("sync") \/ At("fsync") \/ At("rescan")) /\ op.kind = "zap" =>
         cache.hdr = NoHeader
    /\ (At("psync") \/ At("copy") \/ At("sync") \/ At("fsync") \/ At("blkpg") \/ At("rescan"))
          /\ op.kind # "zap" => Primary
    /\ (At("sync") \/ At("fsync") \/ At("blkpg") \/ At("rescan")) /\ op.kind # "zap" => Backup
    /\ (At("copy") \/ At("sync") \/ At("fsync") \/ At("blkpg")) /\ (Setter \/ Mover) => Pending /\ Told
    /\ At("rescan") /\ Mover =>
         /\ \A i \in Slots : kernel[i] = Extent(cache.tab[i])
         /\ op.kind = "del" => unseen
    /\ op.kind # "wipembr"

(***************************************************************************)
(* What the platters hold where no call fails.                             *)
(***************************************************************************)
\* The backup is on the platters, and the primary may be on its way.
BackedUp ==
  /\ PrimaryOK(cache) /\ Backup
  /\ disk.bhdr = cache.bhdr /\ disk.btab = cache.btab

\* There is nothing to be written but the protective MBR, or the array of a table
\* that has no header.
Settled ==
  /\ disk.hdr = cache.hdr /\ disk.bhdr = cache.bhdr /\ disk.btab = cache.btab
  /\ disk.tab = cache.tab \/ cache.hdr = NoHeader

\* Nothing of the backup is new yet: the platters have the one the operation began
\* on, and a header of the primary that is on its way is of either table.
Untouched ==
  /\ disk.bhdr = cache.bhdr /\ disk.btab = cache.btab
  /\ op.backed <=> BackupOK(disk)
  /\ op.sound /\ op.backed => disk.btab = op.old
  /\ \/ disk.hdr = cache.hdr
     \/ cache.hdr \in {op.old, Table(cache.tab)} /\ cache.hdr # NoHeader

DiskInv ==
  failing = {} =>
    /\ At("idle") \/ At("fsync") \/ At("blkpg") \/ At("rescan") => BackedUp \/ Settled
    /\ (At("head") \/ At("crc") \/ At("psync") \/ At("copy")) /\ op.kind # "zap" => Untouched
    /\ (At("psync") \/ At("copy") \/ At("sync")) /\ op.kind # "zap" => PrimaryOK(cache)
    /\ At("sync") /\ op.kind # "zap" =>
         /\ Backup
         /\ op.sound /\ BackupOK(disk) => disk.btab \in {op.old, Table(cache.tab)}
    /\ At("psync") /\ op.kind = "zap" => cache.hdr = NoHeader
    /\ (At("copy") \/ At("sync")) /\ op.kind = "zap" =>
         cache.hdr = NoHeader /\ disk.hdr = cache.hdr /\ disk.tab = cache.tab
    /\ At("sync") /\ op.kind = "zap" => cache.bhdr = NoHeader /\ cache.btab = NoTable

-----------------------------------------------------------------------------
(***************************************************************************)
(* Operators.                                                              *)
(***************************************************************************)
\* add_gpt's entry is one of the table.
LEMMA FreeSlot ==
  ASSUME Free # {}
  PROVE  Min(Free) \in Slots /\ Min(Free) \in Free
  BY MinIsMember, GptAssumption DEF Free, Slots

LEMMA SlotsInTable ==
  /\ Slots \subseteq 1 .. N + 1
  /\ Slots \subseteq 0 .. N
  /\ Slots # {}
  /\ \A p \in Slots : Slot(p) \in 1 .. N + 1
  BY GptAssumption DEF Slots, Slot

LEMMA ZeroIsEntry ==
  /\ Zero \in Entries /\ Zero \in Entry /\ Data \in Entry
  /\ Extent(Zero) = NoExtent
  /\ NoExtents \in [Slots -> Asked]
  /\ \A i \in Slots : NoExtents[i] = NoExtent
  BY DEF Zero, Data, Entries, Entry, Extent, Asked, NoExtent, None, NoExtents

\* A table without a header is told from every array.
LEMMA HeaderIsNone ==
  ASSUME NEW h \in [Slots -> Entry]
  PROVE  h # NoHeader
<1>1. DOMAIN h = Slots /\ DOMAIN NoHeader = {}
  BY DEF NoHeader
<1>2. QED
  BY <1>1, SlotsInTable

LEMMA TableOf ==
  ASSUME NEW t, TabType(t)
  PROVE  /\ Table(t) \in [Slots -> Entry] /\ Table(t) \in [Slots -> Entries]
         /\ Table(t) # NoHeader
         /\ \A i \in Slots : Table(t)[i] = t[i] /\ t[i] \in Entry /\ Extent(t[i]) \in Asked
<1>1. \A i \in Slots : t[i] \in Entry
  BY SlotsInTable DEF TabType
<1>2. Table(t) \in [Slots -> Entry]
  BY <1>1 DEF Table
<1>3. \A i \in Slots : Table(t)[i] = t[i]
  BY DEF Table
<1>4. \A i \in Slots : Table(t)[i] \in Entries
  BY DEF TabType
<1>5. QED
  BY <1>1, <1>2, <1>3, <1>4, HeaderIsNone DEF TabType, Entries

\* One entry of an array is stored; its sectors, if it is one of the table, are
\* those of a partition.
LEMMA TabStore ==
  ASSUME NEW t, TabType(t), NEW j \in 1 .. N + 1, NEW e \in Entry,
         j \in Slots => Extent(e) \in Asked
  PROVE  /\ TabType([t EXCEPT ![j] = e])
         /\ [t EXCEPT ![j] = e][j] = e
         /\ \A i \in 1 .. N + 1 : i # j => [t EXCEPT ![j] = e][i] = t[i]
<1> DEFINE r == [t EXCEPT ![j] = e]
<1>1. r \in [1 .. N + 1 -> Entry] /\ r[j] = e /\ \A i \in 1 .. N + 1 : i # j => r[i] = t[i]
  BY DEF TabType
<1> HIDE DEF r
<1>2. \A i \in Slots : Table(r)[i] = r[i] /\ r[i] \in Entry /\ Extent(r[i]) \in Asked
  BY <1>1, SlotsInTable, TableOf DEF Table
<1>3. Table(r) \in [Slots -> Entries]
  BY <1>2 DEF Table, Entries
<1>4. QED
  BY <1>1, <1>3 DEF TabType, r

(***************************************************************************)
(* A disk by its parts.                                                    *)
(***************************************************************************)
Shows(d, m, h, t, bh, bt) ==
  d.mbr = m /\ d.hdr = h /\ d.tab = t /\ d.bhdr = bh /\ d.btab = bt

LEMMA DiskStore ==
  ASSUME NEW d \in Disk, NEW v
  PROVE  /\ Shows([d EXCEPT !.mbr = v], v, d.hdr, d.tab, d.bhdr, d.btab)
         /\ Shows([d EXCEPT !.hdr = v], d.mbr, v, d.tab, d.bhdr, d.btab)
         /\ Shows([d EXCEPT !.tab = v], d.mbr, d.hdr, v, d.bhdr, d.btab)
         /\ Shows([d EXCEPT !.bhdr = v], d.mbr, d.hdr, d.tab, v, d.btab)
         /\ Shows([d EXCEPT !.btab = v], d.mbr, d.hdr, d.tab, d.bhdr, v)
         /\ v \in BOOLEAN => [d EXCEPT !.mbr = v] \in Disk
         /\ v \in [Slots -> Entry] \cup {NoHeader} => [d EXCEPT !.hdr = v] \in Disk
         /\ v \in [1 .. N + 1 -> Entry] => [d EXCEPT !.tab = v] \in Disk
         /\ v \in [Slots -> Entry] \cup {NoHeader} => [d EXCEPT !.bhdr = v] \in Disk
         /\ v \in [Slots -> Entry] => [d EXCEPT !.btab = v] \in Disk
  BY DEF Disk, Shows

LEMMA DiskStores ==
  ASSUME NEW d \in Disk, NEW v, NEW w
  PROVE  /\ Shows([d EXCEPT !.hdr = v, !.tab = w], d.mbr, v, w, d.bhdr, d.btab)
         /\ Shows([d EXCEPT !.bhdr = v, !.btab = w], d.mbr, d.hdr, d.tab, v, w)
         /\ v \in [Slots -> Entry] \cup {NoHeader} /\ w \in [1 .. N + 1 -> Entry]
              => [d EXCEPT !.hdr = v, !.tab = w] \in Disk
         /\ v \in [Slots -> Entry] \cup {NoHeader} /\ w \in [Slots -> Entry]
              => [d EXCEPT !.bhdr = v, !.btab = w] \in Disk
  BY DEF Disk, Shows

LEMMA DiskParts ==
  ASSUME NEW d \in Disk
  PROVE  /\ d.mbr \in BOOLEAN
         /\ d.hdr \in [Slots -> Entry] \cup {NoHeader}
         /\ d.tab \in [1 .. N + 1 -> Entry]
         /\ d.bhdr \in [Slots -> Entry] \cup {NoHeader}
         /\ d.btab \in [Slots -> Entry]
  BY DEF Disk

\* Two disks are the same if their parts are.
LEMMA SameDisk ==
  ASSUME NEW d \in Disk, NEW e \in Disk,
         Shows(e, d.mbr, d.hdr, d.tab, d.bhdr, d.btab)
  PROVE  e = d
<1>1. d = [mbr |-> d.mbr, hdr |-> d.hdr, tab |-> d.tab, bhdr |-> d.bhdr, btab |-> d.btab]
  BY DEF Disk
<1>2. e = [mbr |-> e.mbr, hdr |-> e.hdr, tab |-> e.tab, bhdr |-> e.bhdr, btab |-> e.btab]
  BY DEF Disk
<1>3. QED
  BY <1>1, <1>2 DEF Shows

\* The kernel's partitions are made of a table's.
LEMMA RereadType ==
  ASSUME NEW d, DiskType(d)
  PROVE  Reread(d) \in [Slots -> Asked]
<1>1. ExtentsOf(d.tab) \in [Slots -> Asked]
  BY TableOf DEF DiskType, ExtentsOf
<1>2. ExtentsOf(d.btab) \in [Slots -> Asked]
  BY DEF DiskType, ExtentsOf, Entries
<1>3. QED
  BY <1>1, <1>2, ZeroIsEntry DEF Reread

LEMMA ScanType ==
  ASSUME NEW d, DiskType(d), NEW k \in [Slots -> Asked]
  PROVE  /\ Scan(d, k) \in [pt : BOOLEAN, parts : [Slots -> Asked]]
         /\ Recognised(d) => Scan(d, k).parts = k
<1>1. Recognised(d) \in BOOLEAN
  BY DiskParts DEF DiskType, Recognised, PrimaryOK, BackupOK
<1>2. QED
  BY <1>1, ZeroIsEntry DEF Scan

-----------------------------------------------------------------------------
(***************************************************************************)
(* What the parts of the actions do.                                       *)
(***************************************************************************)
OpKinds == {None, "new", "zap", "add", "del", "name", "uuid", "flags", "code", "wipembr"}
Ats == {"idle", "head", "psync", "crc", "copy", "sync", "fsync", "blkpg", "rescan"}

LEMMA OpParts ==
  ASSUME Typed
  PROVE  /\ op.kind \in OpKinds /\ op.at \in Ats /\ op.p \in 0 .. N /\ op.ext \in Asked
         /\ op.ok \in BOOLEAN /\ op.sound \in BOOLEAN /\ op.backed \in BOOLEAN
  BY DEF Typed, OpType, OpKinds, Ats

LEMMA Going ==
  ASSUME Typed, NEW a \in Ats, Goto(a)
  PROVE  /\ op' \in OpType
         /\ op'.kind = op.kind /\ op'.at = a /\ op'.p = op.p /\ op'.ext = op.ext
         /\ op'.ok = op.ok /\ op'.old = op.old /\ op'.backed = op.backed /\ op'.sound = op.sound
  BY DEF Typed, OpType, Goto, Ats

\* What an operation begins on.
Onset ==
  /\ op'.old = Found(cache)
  /\ op'.backed <=> BackupOK(disk)
  /\ op'.sound <=> (BackupOK(disk) => PrimaryOK(cache) /\ disk.btab = Table(cache.tab))

LEMMA FoundType ==
  ASSUME NEW d, DiskType(d)
  PROVE  Found(d) \in [Slots -> Entries] \cup {NoHeader}
  BY TableOf DEF Found, DiskType

LEMMA Starting ==
  ASSUME Typed, NEW k \in OpKinds, NEW a \in Ats, NEW p \in 0 .. N, NEW e \in Asked
  PROVE  LET o == Started(k, a, p, e) IN
         /\ o \in OpType
         /\ o.kind = k /\ o.at = a /\ o.p = p /\ o.ext = e
         /\ o.old = Found(cache)
         /\ o.backed <=> BackupOK(disk)
         /\ o.sound <=> (BackupOK(disk) => PrimaryOK(cache) /\ disk.btab = Table(cache.tab))
<1> DEFINE f == Found(cache)
           w == BackupOK(disk)
           s == (w => PrimaryOK(cache) /\ disk.btab = Table(cache.tab))
           o == Started(k, a, p, e)
<1>1. f \in [Slots -> Entries] \cup {NoHeader} /\ w \in BOOLEAN /\ s \in BOOLEAN
  BY FoundType DEF Typed, BackupOK, PrimaryOK
<1>2. o = [kind |-> k, at |-> a, p |-> p, ext |-> e, ok |-> TRUE,
           old |-> f, backed |-> w, sound |-> s]
  BY DEF Started
<1> HIDE DEF f, w, s, o
<1>3. o \in OpType
  BY <1>1, <1>2 DEF OpType, OpKinds, Ats
<1>4. /\ o.kind = k /\ o.at = a /\ o.p = p /\ o.ext = e
      /\ o.old = f /\ (o.backed <=> w) /\ (o.sound <=> s)
  BY <1>1, <1>2
<1>5. QED
  BY <1>3, <1>4 DEF o, f, w, s

LEMMA Beginning ==
  ASSUME Typed, NEW k \in OpKinds, NEW a \in Ats, NEW p \in 0 .. N, NEW e \in Asked,
         Begin(k, a, p, e)
  PROVE  /\ op' \in OpType
         /\ op'.kind = k /\ op'.at = a /\ op'.p = p /\ op'.ext = e
         /\ Onset
         /\ op.at = "idle"
         /\ ops' \in Nat /\ ops' > ops
         /\ UNCHANGED <<failing, crashes>>
<1>1. ops' \in Nat /\ ops' > ops /\ op.at = "idle" /\ UNCHANGED <<failing, crashes>>
  BY DEF Typed, Begin, At
<1>2. op' = Started(k, a, p, e)
  BY DEF Begin
<1>3. /\ op' \in OpType
      /\ op'.kind = k /\ op'.at = a /\ op'.p = p /\ op'.ext = e
      /\ Onset
  BY <1>2, Starting DEF Onset
<1>4. QED
  BY <1>1, <1>3

LEMMA Idling ==
  /\ Idle \in OpType
  /\ Idle.kind = None /\ Idle.at = "idle" /\ Idle.p = 0 /\ Idle.ext = NoExtent
  BY GptAssumption DEF Idle, OpType, None, Asked

LEMMA ShownType ==
  ASSUME NEW d \in Disk, NEW m, NEW h, NEW t, NEW bh, NEW bt,
         Shows(d, m, h, t, bh, bt), TabType(t), bt \in [Slots -> Entries]
  PROVE  DiskType(d)
  BY DEF Shows, DiskType

LEMMA StoredMbr ==
  ASSUME Typed, NEW v \in BOOLEAN, Stored("mbr", v)
  PROVE  /\ DiskType(cache')
         /\ Shows(cache', v, cache.hdr, cache.tab, cache.bhdr, cache.btab)
<1>1. /\ cache \in Disk /\ TabType(cache.tab) /\ cache.btab \in [Slots -> Entries]
      /\ cache' = [cache EXCEPT !.mbr = v]
  BY DEF Typed, DiskType, Stored
<1>2. /\ Shows([cache EXCEPT !.mbr = v], v, cache.hdr, cache.tab, cache.bhdr, cache.btab)
      /\ [cache EXCEPT !.mbr = v] \in Disk
  BY <1>1, DiskStore
<1>3. QED
  BY <1>1, <1>2, ShownType

LEMMA StoredHdr ==
  ASSUME Typed, NEW v \in [Slots -> Entry] \cup {NoHeader}, Stored("hdr", v)
  PROVE  /\ DiskType(cache')
         /\ Shows(cache', cache.mbr, v, cache.tab, cache.bhdr, cache.btab)
<1>1. /\ cache \in Disk /\ TabType(cache.tab) /\ cache.btab \in [Slots -> Entries]
      /\ cache' = [cache EXCEPT !.hdr = v]
  BY DEF Typed, DiskType, Stored
<1>2. /\ Shows([cache EXCEPT !.hdr = v], cache.mbr, v, cache.tab, cache.bhdr, cache.btab)
      /\ [cache EXCEPT !.hdr = v] \in Disk
  BY <1>1, DiskStore
<1>3. QED
  BY <1>1, <1>2, ShownType

LEMMA StoredTab ==
  ASSUME Typed, NEW j \in 1 .. N + 1, NEW e \in Entry, j \in Slots => Extent(e) \in Asked,
         Stored("tab", [cache.tab EXCEPT ![j] = e])
  PROVE  /\ DiskType(cache')
         /\ Shows(cache', cache.mbr, cache.hdr, cache'.tab, cache.bhdr, cache.btab)
         /\ cache'.tab[j] = e
         /\ \A i \in 1 .. N + 1 : i # j => cache'.tab[i] = cache.tab[i]
<1> DEFINE t == [cache.tab EXCEPT ![j] = e]
<1>1. /\ cache \in Disk /\ TabType(cache.tab) /\ cache.btab \in [Slots -> Entries]
      /\ cache' = [cache EXCEPT !.tab = t]
  BY DEF Typed, DiskType, Stored
<1>2. TabType(t) /\ t[j] = e /\ \A i \in 1 .. N + 1 : i # j => t[i] = cache.tab[i]
  BY TabStore DEF Typed, DiskType
<1> HIDE DEF t
<1>3. /\ Shows([cache EXCEPT !.tab = t], cache.mbr, cache.hdr, t, cache.bhdr, cache.btab)
      /\ [cache EXCEPT !.tab = t] \in Disk
  BY <1>1, <1>2, DiskStore DEF TabType
<1>4. cache'.tab = t
  BY <1>1, <1>3 DEF Shows
<1>5. QED
  BY <1>1, <1>2, <1>3, <1>4, ShownType

(***************************************************************************)
(* What the actions that store in the page cache leave there.              *)
(***************************************************************************)
LEMMA TableExtents ==
  ASSUME Typed
  PROVE  \A i \in 1 .. N + 1 : /\ cache.tab[i] \in Entry
                               /\ i \in Slots => Extent(cache.tab[i]) \in Asked
  BY TableOf, DiskParts DEF Typed, DiskType

LEMMA WriteGptStores ==
  ASSUME Typed, WriteGpt
  PROVE  /\ DiskType(cache')
         /\ op.kind = "new" =>
              Shows(cache', cache.mbr, Table(cache.tab), cache.tab, cache.bhdr, cache.btab)
         /\ op.kind # "new" =>
              Shows(cache', cache.mbr, NoHeader, [i \in 1 .. N + 1 |-> Zero], cache.bhdr, cache.btab)
<1> DEFINE Z == [i \in 1 .. N + 1 |-> Zero]
<1>1. cache \in Disk /\ TabType(cache.tab) /\ cache.btab \in [Slots -> Entries]
  BY DEF Typed, DiskType
<1>2. Z \in [1 .. N + 1 -> Entry] /\ Table(Z) \in [Slots -> Entries]
  BY ZeroIsEntry, SlotsInTable DEF Table
<1> HIDE DEF Z
<1>3. CASE op.kind = "new"
  <2>1. cache' = [cache EXCEPT !.hdr = Table(cache.tab)]
    BY <1>3 DEF WriteGpt
  <2>2. /\ Shows([cache EXCEPT !.hdr = Table(cache.tab)],
                 cache.mbr, Table(cache.tab), cache.tab, cache.bhdr, cache.btab)
        /\ [cache EXCEPT !.hdr = Table(cache.tab)] \in Disk
    BY <1>1, DiskStore, TableOf
  <2>3. QED
    BY <1>1, <1>3, <2>1, <2>2, ShownType
<1>4. CASE op.kind # "new"
  <2>1. cache' = [cache EXCEPT !.hdr = NoHeader, !.tab = Z]
    BY <1>4 DEF WriteGpt, Z
  <2>2. /\ Shows([cache EXCEPT !.hdr = NoHeader, !.tab = Z],
                 cache.mbr, NoHeader, Z, cache.bhdr, cache.btab)
        /\ [cache EXCEPT !.hdr = NoHeader, !.tab = Z] \in Disk
    BY <1>1, <1>2, DiskStores
  <2>3. TabType(Z)
    BY <1>2 DEF TabType
  <2>4. DiskType(cache') /\ Shows(cache', cache.mbr, NoHeader, Z, cache.bhdr, cache.btab)
    BY <1>1, <2>1, <2>2, <2>3, ShownType
  <2>5. QED
    BY <1>4, <2>4 DEF Z
<1>5. QED
  BY <1>3, <1>4

LEMMA UpdateBackupStores ==
  ASSUME Typed, UpdateBackup
  PROVE  /\ DiskType(cache')
         /\ op.kind = "zap" =>
              Shows(cache', cache.mbr, cache.hdr, cache.tab, NoHeader, NoTable)
         /\ op.kind # "zap" =>
              Shows(cache', cache.mbr, cache.hdr, cache.tab, Table(cache.tab), Table(cache.tab))
<1>1. cache \in Disk /\ TabType(cache.tab)
  BY DEF Typed, DiskType
<1>2. NoTable \in [Slots -> Entries] /\ NoTable \in [Slots -> Entry]
  BY ZeroIsEntry DEF NoTable
<1>3. CASE op.kind = "zap"
  <2>1. cache' = [cache EXCEPT !.bhdr = NoHeader, !.btab = NoTable]
    BY <1>3 DEF UpdateBackup
  <2>2. /\ Shows([cache EXCEPT !.bhdr = NoHeader, !.btab = NoTable],
                 cache.mbr, cache.hdr, cache.tab, NoHeader, NoTable)
        /\ [cache EXCEPT !.bhdr = NoHeader, !.btab = NoTable] \in Disk
    BY <1>1, <1>2, DiskStores
  <2>3. QED
    BY <1>1, <1>2, <1>3, <2>1, <2>2, ShownType
<1>4. CASE op.kind # "zap"
  <2>1. cache' = [cache EXCEPT !.bhdr = Table(cache.tab), !.btab = Table(cache.tab)]
    BY <1>4 DEF UpdateBackup
  <2>2. /\ Shows([cache EXCEPT !.bhdr = Table(cache.tab), !.btab = Table(cache.tab)],
                 cache.mbr, cache.hdr, cache.tab, Table(cache.tab), Table(cache.tab))
        /\ [cache EXCEPT !.bhdr = Table(cache.tab), !.btab = Table(cache.tab)] \in Disk
    BY <1>1, TableOf, DiskStores
  <2>3. QED
    BY <1>1, <1>4, <2>1, <2>2, TableOf, ShownType
<1>5. QED
  BY <1>3, <1>4

\* The setters store an entry with the sectors it had.
SetterKinds == {"name", "uuid", "flags", "code"}
Sets(p) ==
  \E k \in SetterKinds, e \in Entry : Extent(e) = Extent(cache.tab[Slot(p)]) /\ Edit(k, p, e)

LEMMA SettersSet ==
  ASSUME Typed, NEW p \in Slots,
         \/ UuidGpt(p) \/ CodeGpt(p)
         \/ \E n \in Given : NameGpt(p, n)
         \/ \E f \in {0, 1} : FlagsGpt(p, f)
  PROVE  Sets(p)
<1> DEFINE e0 == cache.tab[Slot(p)]
<1>1. e0 \in Entry
  BY SlotsInTable, TableExtents
<1> HIDE DEF e0
<1>2. ASSUME NEW n \in Names \cup {"uuid"}
      PROVE  Named(e0, n) \in Entry /\ Extent(Named(e0, n)) = Extent(e0)
  BY <1>1, <1>2 DEF Entry, Named, Extent
<1>3. ASSUME NEW f \in {0, 1}
      PROVE  [e0 EXCEPT !.flags = f] \in Entry /\ Extent([e0 EXCEPT !.flags = f]) = Extent(e0)
  BY <1>1, <1>3 DEF Entry, Extent
<1>4. [e0 EXCEPT !.type = "other"] \in Entry /\ Extent([e0 EXCEPT !.type = "other"]) = Extent(e0)
  BY <1>1 DEF Entry, Extent
<1>5. Given \subseteq Names
  BY DEF Given
<1>6. CASE UuidGpt(p)
  BY <1>2, <1>6 DEF Sets, SetterKinds, UuidGpt, e0
<1>7. CASE CodeGpt(p)
  BY <1>4, <1>7 DEF Sets, SetterKinds, CodeGpt, e0
<1>8. CASE \E n \in Given : NameGpt(p, n)
  BY <1>2, <1>5, <1>8 DEF Sets, SetterKinds, NameGpt, e0
<1>9. CASE \E f \in {0, 1} : FlagsGpt(p, f)
  BY <1>3, <1>9 DEF Sets, SetterKinds, FlagsGpt, e0
<1>10. QED
  BY <1>6, <1>7, <1>8, <1>9

\* An edit leaves the sectors of every partition.
LEMMA SetsStores ==
  ASSUME Typed, NEW p \in Slots, Sets(p)
  PROVE  /\ DiskType(cache')
         /\ Shows(cache', cache.mbr, cache.hdr, cache'.tab, cache.bhdr, cache.btab)
         /\ \A i \in Slots : Extent(cache'.tab[i]) = Extent(cache.tab[i])
         /\ op' \in OpType /\ op'.kind \in SetterKinds /\ op'.at = "crc" /\ op'.p = p
         /\ Onset
         /\ op.at = "idle"
         /\ ops' \in Nat /\ ops' > ops
         /\ UNCHANGED <<disk, kernel, listed, unseen, clean, failing, crashes>>
<1>1. PICK k \in SetterKinds, e \in Entry : Extent(e) = Extent(cache.tab[Slot(p)]) /\ Edit(k, p, e)
  BY DEF Sets
<1>2. Begin(k, "crc", p, NoExtent) /\ Stored("tab", [cache.tab EXCEPT ![Slot(p)] = e])
      /\ UNCHANGED <<disk, kernel, listed, unseen, clean>>
  BY <1>1 DEF Edit
<1>3. Slot(p) \in 1 .. N + 1 /\ p \in 0 .. N /\ k \in OpKinds /\ "crc" \in Ats /\ NoExtent \in Asked
  BY SlotsInTable DEF SetterKinds, OpKinds, Ats, Asked
<1>4. Slot(p) \in Slots => Extent(e) \in Asked
  BY <1>1, <1>3, TableExtents
<1>5. /\ DiskType(cache')
      /\ Shows(cache', cache.mbr, cache.hdr, cache'.tab, cache.bhdr, cache.btab)
      /\ cache'.tab[Slot(p)] = e
      /\ \A i \in 1 .. N + 1 : i # Slot(p) => cache'.tab[i] = cache.tab[i]
  BY <1>2, <1>3, <1>4, StoredTab
<1>6. \A i \in Slots : Extent(cache'.tab[i]) = Extent(cache.tab[i])
  BY <1>1, <1>5, SlotsInTable
<1>7. /\ op' \in OpType /\ op'.kind = k /\ op'.at = "crc" /\ op'.p = p
      /\ Onset
      /\ op.at = "idle"
      /\ ops' \in Nat /\ ops' > ops
      /\ UNCHANGED <<failing, crashes>>
  BY <1>2, <1>3, Beginning
<1>8. QED
  BY <1>2, <1>5, <1>6, <1>7

LEMMA AddStores ==
  ASSUME Typed, NEW e \in Extents, NEW n \in Given, AddGpt(e, n)
  PROVE  LET j == Min(Free) IN
         /\ j \in Slots /\ cache.hdr # NoHeader
         /\ DiskType(cache')
         /\ Shows(cache', cache.mbr, cache.hdr, cache'.tab, cache.bhdr, cache.btab)
         /\ Extent(cache'.tab[j]) = e
         /\ \A i \in 1 .. N + 1 : i # j => cache'.tab[i] = cache.tab[i]
         /\ op' \in OpType /\ op'.kind = "add" /\ op'.at = "crc" /\ op'.p = j /\ op'.ext = e
         /\ Onset
         /\ op.at = "idle"
         /\ ops' \in Nat
         /\ UNCHANGED <<disk, kernel, listed, unseen, clean, failing, crashes>>
<1> DEFINE j == Min(Free)
           new == [type |-> "linux", name |-> n, flags |-> 0, first |-> e[1], last |-> e[2]]
<1>1. /\ cache.hdr # NoHeader /\ Free # {}
      /\ Begin("add", "crc", j, e)
      /\ Stored("tab", [cache.tab EXCEPT ![j] = new])
      /\ UNCHANGED <<disk, kernel, listed, unseen, clean>>
  BY DEF AddGpt
<1>2. j \in Slots /\ j \in 0 .. N /\ j \in 1 .. N + 1
  BY <1>1, FreeSlot, SlotsInTable
<1>3. n \in Names
  BY DEF Given
<1>4. e[1] \in Nat /\ e[2] \in Nat /\ e = <<e[1], e[2]>> /\ e \in Asked
  BY GptAssumption DEF Asked
<1>5. new \in Entry /\ Extent(new) = e
  BY <1>3, <1>4 DEF Entry, Extent
<1> HIDE DEF j, new
<1>6. /\ DiskType(cache')
      /\ Shows(cache', cache.mbr, cache.hdr, cache'.tab, cache.bhdr, cache.btab)
      /\ cache'.tab[j] = new
      /\ \A i \in 1 .. N + 1 : i # j => cache'.tab[i] = cache.tab[i]
  BY <1>1, <1>2, <1>4, <1>5, StoredTab
<1>7. "add" \in OpKinds /\ "crc" \in Ats
  BY DEF OpKinds, Ats
<1>8. /\ op' \in OpType /\ op'.kind = "add" /\ op'.at = "crc" /\ op'.p = j /\ op'.ext = e
      /\ Onset
      /\ op.at = "idle"
      /\ ops' \in Nat
      /\ UNCHANGED <<failing, crashes>>
  BY <1>1, <1>2, <1>4, <1>7, Beginning
<1>9. QED
  BY <1>1, <1>2, <1>5, <1>6, <1>8 DEF j

LEMMA DelStores ==
  ASSUME Typed, NEW p \in Slots, DelGpt(p)
  PROVE  /\ DiskType(cache')
         /\ Shows(cache', cache.mbr, cache.hdr, cache'.tab, cache.bhdr, cache.btab)
         /\ Extent(cache'.tab[p]) = NoExtent
         /\ \A i \in 1 .. N + 1 : i # p => cache'.tab[i] = cache.tab[i]
         /\ op' \in OpType /\ op'.kind = "del" /\ op'.at = "crc" /\ op'.p = p /\ op'.ext = NoExtent
         /\ Onset
         /\ op.at = "idle"
         /\ ops' \in Nat
         /\ UNCHANGED <<disk, kernel, listed, unseen, clean, failing, crashes>>
<1>1. /\ Begin("del", "crc", p, NoExtent)
      /\ Stored("tab", [cache.tab EXCEPT ![p] = Zero])
      /\ UNCHANGED <<disk, kernel, listed, unseen, clean>>
  BY DEF DelGpt
<1>2. p \in 0 .. N /\ p \in 1 .. N + 1 /\ "del" \in OpKinds /\ "crc" \in Ats /\ NoExtent \in Asked
  BY SlotsInTable DEF OpKinds, Ats, Asked
<1>3. Zero \in Entry /\ Extent(Zero) = NoExtent
  BY ZeroIsEntry
<1>4. /\ DiskType(cache')
      /\ Shows(cache', cache.mbr, cache.hdr, cache'.tab, cache.bhdr, cache.btab)
      /\ cache'.tab[p] = Zero
      /\ \A i \in 1 .. N + 1 : i # p => cache'.tab[i] = cache.tab[i]
  BY <1>1, <1>2, <1>3, StoredTab
<1>5. /\ op' \in OpType /\ op'.kind = "del" /\ op'.at = "crc" /\ op'.p = p /\ op'.ext = NoExtent
      /\ Onset
      /\ op.at = "idle"
      /\ ops' \in Nat
      /\ UNCHANGED <<failing, crashes>>
  BY <1>1, <1>2, Beginning
<1>6. QED
  BY <1>1, <1>3, <1>4, <1>5

\* An add that fails has cleared the first free entry, or changed nothing.
LEMMA AddFailsStores ==
  ASSUME Typed, NEW e \in Extents, NEW n \in Given, AddGptFails(e, n)
  PROVE  /\ DiskType(cache')
         /\ \/ cache' = cache
            \/ /\ Free # {} /\ (n \in TooLong \/ "random" \in failing)
               /\ Shows(cache', cache.mbr, cache.hdr, cache'.tab, cache.bhdr, cache.btab)
               /\ cache'.tab[Min(Free)] = Zero
               /\ \A i \in 1 .. N + 1 : i # Min(Free) => cache'.tab[i] = cache.tab[i]
         /\ op' \in OpType /\ op'.kind = "add" /\ op'.at = "idle"
         /\ op.at = "idle"
         /\ ops' \in Nat
         /\ clean' = (clean /\ cache' = cache)
         /\ UNCHANGED <<disk, kernel, listed, unseen, failing, crashes>>
<1>1. /\ Begin("add", "idle", 0, NoExtent)
      /\ clean' = (clean /\ cache' = cache)
      /\ UNCHANGED <<disk, kernel, listed, unseen>>
  BY DEF AddGptFails
<1>2. 0 \in 0 .. N /\ "add" \in OpKinds /\ "idle" \in Ats /\ NoExtent \in Asked
  BY GptAssumption DEF OpKinds, Ats, Asked
<1>3. /\ op' \in OpType /\ op'.kind = "add" /\ op'.at = "idle"
      /\ op.at = "idle"
      /\ ops' \in Nat
      /\ UNCHANGED <<failing, crashes>>
  BY <1>1, <1>2, Beginning
<1>4. CASE cache' = cache
  BY <1>1, <1>3, <1>4 DEF Typed
<1>5. CASE cache' # cache
  <2>1. /\ Free # {} /\ (n \in TooLong \/ "random" \in failing)
        /\ Stored("tab", [cache.tab EXCEPT ![Min(Free)] = Zero])
    BY <1>5 DEF AddGptFails
  <2>2. Min(Free) \in 1 .. N + 1
    BY <2>1, FreeSlot, SlotsInTable
  <2>3. Zero \in Entry /\ Extent(Zero) \in Asked
    BY ZeroIsEntry DEF Asked
  <2>4. /\ DiskType(cache')
        /\ Shows(cache', cache.mbr, cache.hdr, cache'.tab, cache.bhdr, cache.btab)
        /\ cache'.tab[Min(Free)] = Zero
        /\ \A i \in 1 .. N + 1 : i # Min(Free) => cache'.tab[i] = cache.tab[i]
    BY <2>1, <2>2, <2>3, StoredTab
  <2>5. QED
    BY <1>1, <1>3, <2>1, <2>4
<1>6. QED
  BY <1>4, <1>5

LEMMA NameFailsStores ==
  ASSUME Typed, NEW p \in Slots, NEW n \in Given, NameGptFails(p, n)
  PROVE  /\ DiskType(cache')
         /\ n \in TooLong
         /\ op' \in OpType /\ op'.kind = "name" /\ op'.at = "idle"
         /\ op.at = "idle"
         /\ ops' \in Nat
         /\ clean' = FALSE
         /\ UNCHANGED <<disk, kernel, listed, unseen, failing, crashes>>
<1> DEFINE e0 == cache.tab[Slot(p)]
<1>1. /\ Begin("name", "idle", 0, NoExtent)
      /\ Stored("tab", [cache.tab EXCEPT ![Slot(p)] = Named(e0, n)])
      /\ n \in TooLong
      /\ clean' = FALSE
      /\ UNCHANGED <<disk, kernel, listed, unseen>>
  BY DEF NameGptFails
<1>2. 0 \in 0 .. N /\ "name" \in OpKinds /\ "idle" \in Ats /\ NoExtent \in Asked
  BY GptAssumption DEF OpKinds, Ats, Asked
<1>3. /\ op' \in OpType /\ op'.kind = "name" /\ op'.at = "idle"
      /\ op.at = "idle"
      /\ ops' \in Nat
      /\ UNCHANGED <<failing, crashes>>
  BY <1>1, <1>2, Beginning
<1>4. Slot(p) \in 1 .. N + 1
  BY SlotsInTable
<1>5. e0 \in Entry /\ (Slot(p) \in Slots => Extent(e0) \in Asked)
  BY <1>4, TableExtents
<1> HIDE DEF e0
<1>6. n \in Names
  BY DEF Given
<1>7. Named(e0, n) \in Entry /\ Extent(Named(e0, n)) = Extent(e0)
  BY <1>5, <1>6 DEF Named, Entry, Extent
<1>8. DiskType(cache')
  BY <1>1, <1>4, <1>5, <1>7, StoredTab
<1>9. QED
  BY <1>1, <1>3, <1>8

\* A unit that is written back.
LEMMA WriteBackStores ==
  ASSUME Typed, NEW u \in Units, WriteBack(u)
  PROVE  /\ DiskType(disk')
         /\ u = "mbr" => Shows(disk', cache.mbr, disk.hdr, disk.tab, disk.bhdr, disk.btab)
         /\ u = "hdr" => Shows(disk', disk.mbr, cache.hdr, disk.tab, disk.bhdr, disk.btab)
         /\ u = "tab" => Shows(disk', disk.mbr, disk.hdr, cache.tab, disk.bhdr, disk.btab)
         /\ u = "bhdr" => Shows(disk', disk.mbr, disk.hdr, disk.tab, cache.bhdr, disk.btab)
         /\ u = "btab" => Shows(disk', disk.mbr, disk.hdr, disk.tab, disk.bhdr, cache.btab)
<1>1. /\ disk \in Disk /\ TabType(disk.tab) /\ disk.btab \in [Slots -> Entries]
      /\ cache \in Disk /\ TabType(cache.tab) /\ cache.btab \in [Slots -> Entries]
  BY DEF Typed, DiskType
<1>2. /\ cache.mbr \in BOOLEAN
      /\ cache.hdr \in [Slots -> Entry] \cup {NoHeader}
      /\ cache.tab \in [1 .. N + 1 -> Entry]
      /\ cache.bhdr \in [Slots -> Entry] \cup {NoHeader}
      /\ cache.btab \in [Slots -> Entry]
  BY <1>1, DiskParts
<1>3. disk' = [disk EXCEPT ![u] = cache[u]]
  BY DEF WriteBack
<1>4. CASE u = "mbr"
  <2>1. /\ Shows([disk EXCEPT !.mbr = cache.mbr], cache.mbr, disk.hdr, disk.tab, disk.bhdr, disk.btab)
        /\ [disk EXCEPT !.mbr = cache.mbr] \in Disk
    BY <1>1, <1>2, DiskStore
  <2>2. disk' = [disk EXCEPT !.mbr = cache.mbr]
    BY <1>3, <1>4
  <2>3. QED
    BY <1>1, <1>4, <2>1, <2>2, ShownType
<1>5. CASE u = "hdr"
  <2>1. /\ Shows([disk EXCEPT !.hdr = cache.hdr], disk.mbr, cache.hdr, disk.tab, disk.bhdr, disk.btab)
        /\ [disk EXCEPT !.hdr = cache.hdr] \in Disk
    BY <1>1, <1>2, DiskStore
  <2>2. disk' = [disk EXCEPT !.hdr = cache.hdr]
    BY <1>3, <1>5
  <2>3. QED
    BY <1>1, <1>5, <2>1, <2>2, ShownType
<1>6. CASE u = "tab"
  <2>1. /\ Shows([disk EXCEPT !.tab = cache.tab], disk.mbr, disk.hdr, cache.tab, disk.bhdr, disk.btab)
        /\ [disk EXCEPT !.tab = cache.tab] \in Disk
    BY <1>1, <1>2, DiskStore
  <2>2. disk' = [disk EXCEPT !.tab = cache.tab]
    BY <1>3, <1>6
  <2>3. QED
    BY <1>1, <1>6, <2>1, <2>2, ShownType
<1>7. CASE u = "bhdr"
  <2>1. /\ Shows([disk EXCEPT !.bhdr = cache.bhdr], disk.mbr, disk.hdr, disk.tab, cache.bhdr, disk.btab)
        /\ [disk EXCEPT !.bhdr = cache.bhdr] \in Disk
    BY <1>1, <1>2, DiskStore
  <2>2. disk' = [disk EXCEPT !.bhdr = cache.bhdr]
    BY <1>3, <1>7
  <2>3. QED
    BY <1>1, <1>7, <2>1, <2>2, ShownType
<1>8. CASE u = "btab"
  <2>1. /\ Shows([disk EXCEPT !.btab = cache.btab], disk.mbr, disk.hdr, disk.tab, disk.bhdr, cache.btab)
        /\ [disk EXCEPT !.btab = cache.btab] \in Disk
    BY <1>1, <1>2, DiskStore
  <2>2. disk' = [disk EXCEPT !.btab = cache.btab]
    BY <1>3, <1>8
  <2>3. QED
    BY <1>1, <1>8, <2>1, <2>2, ShownType
<1>9. QED
  BY <1>4, <1>5, <1>6, <1>7, <1>8 DEF Units

\* An entry without sectors is refused after the operation has begun.
LEMMA RefusedStores ==
  ASSUME Typed, NEW p \in Slots, CodeGptRefused(p)
  PROVE  /\ op' \in OpType /\ op'.kind = "code" /\ op'.at = "crc" /\ op'.p = 0
         /\ Onset
         /\ op.at = "idle"
         /\ ops' \in Nat
         /\ UNCHANGED <<cache, disk, kernel, listed, unseen, clean, failing, crashes>>
<1> DEFINE r == Started("code", "crc", 0, NoExtent)
<1>1. 0 \in 0 .. N /\ NoExtent \in Asked /\ "code" \in OpKinds /\ "crc" \in Ats
  BY GptAssumption DEF Asked, OpKinds, Ats
<1>2. /\ r \in OpType /\ r.kind = "code" /\ r.at = "crc" /\ r.p = 0
      /\ r.old = Found(cache)
      /\ r.backed <=> BackupOK(disk)
      /\ r.sound <=> (BackupOK(disk) => PrimaryOK(cache) /\ disk.btab = Table(cache.tab))
  BY <1>1, Starting
<1>3. op' = [r EXCEPT !.ok = FALSE]
  BY DEF CodeGptRefused
<1> HIDE DEF r
<1>4. /\ op' \in OpType
      /\ op'.kind = r.kind /\ op'.at = r.at /\ op'.p = r.p
      /\ op'.old = r.old /\ op'.backed = r.backed /\ op'.sound = r.sound
  BY <1>2, <1>3 DEF OpType
<1>5. op'.kind = "code" /\ op'.at = "crc" /\ op'.p = 0 /\ Onset
  BY <1>2, <1>4 DEF Onset
<1>6. /\ op.at = "idle" /\ ops' \in Nat
      /\ UNCHANGED <<cache, disk, kernel, listed, unseen, clean, failing, crashes>>
  BY DEF CodeGptRefused, Typed, At
<1>7. QED
  BY <1>4, <1>5, <1>6

\* The operations that begin with the protective MBR.
LEMMA MbrStores ==
  ASSUME Typed, NEW k \in OpKinds, NEW a \in Ats, NEW v \in BOOLEAN,
         Begin(k, a, 0, NoExtent), Stored("mbr", v)
  PROVE  /\ DiskType(cache')
         /\ Shows(cache', v, cache.hdr, cache.tab, cache.bhdr, cache.btab)
         /\ op' \in OpType /\ op'.kind = k /\ op'.at = a /\ Onset
         /\ op.at = "idle"
         /\ ops' \in Nat
         /\ UNCHANGED <<failing, crashes>>
<1>1. 0 \in 0 .. N /\ NoExtent \in Asked
  BY GptAssumption DEF Asked
<1>2. QED
  BY <1>1, StoredMbr, Beginning

LEMMA NewStores ==
  ASSUME Typed, NewGpt
  PROVE  /\ DiskType(cache')
         /\ Shows(cache', TRUE, cache.hdr, cache.tab, cache.bhdr, cache.btab)
         /\ op' \in OpType /\ op'.kind = "new" /\ op'.at = "head" /\ Onset
         /\ op.at = "idle"
         /\ ops' \in Nat
         /\ UNCHANGED <<disk, kernel, listed, unseen, clean, failing, crashes>>
  BY MbrStores DEF NewGpt, OpKinds, Ats

LEMMA ZapStores ==
  ASSUME Typed, ZapGpt
  PROVE  /\ DiskType(cache')
         /\ Shows(cache', FALSE, cache.hdr, cache.tab, cache.bhdr, cache.btab)
         /\ op' \in OpType /\ op'.kind = "zap" /\ op'.at = "head" /\ Onset
         /\ op.at = "idle"
         /\ ops' \in Nat
         /\ UNCHANGED <<disk, kernel, listed, unseen, clean, failing, crashes>>
  BY MbrStores DEF ZapGpt, OpKinds, Ats

LEMMA WipeStores ==
  ASSUME Typed, WipeDosMbr
  PROVE  /\ DiskType(cache')
         /\ Shows(cache', FALSE, cache.hdr, cache.tab, cache.bhdr, cache.btab)
         /\ op' \in OpType /\ op'.kind = "wipembr" /\ op'.at = "rescan" /\ Onset
         /\ op.at = "idle"
         /\ ops' \in Nat
         /\ clean' = FALSE
         /\ UNCHANGED <<disk, kernel, listed, unseen, failing, crashes>>
  BY MbrStores DEF WipeDosMbr, OpKinds, Ats

LEMMA CrcStores ==
  ASSUME Typed, UpdateCrc
  PROVE  /\ DiskType(cache')
         /\ Shows(cache', cache.mbr, Table(cache.tab), cache.tab, cache.bhdr, cache.btab)
  BY StoredHdr, TableOf DEF UpdateCrc, Typed, DiskType

LEMMA WriteFailsStores ==
  ASSUME Typed, WriteGptFails
  PROVE  DiskType(cache')
  BY StoredHdr DEF WriteGptFails

-----------------------------------------------------------------------------
(***************************************************************************)
(* Types.                                                                  *)
(***************************************************************************)
LEMMA InitTyped == Init => Typed
<1> SUFFICES ASSUME Init PROVE Typed
  OBVIOUS
<1> DEFINE T == [i \in 1 .. N + 1 |-> IF i \in Slots THEN Zero ELSE Data]
<1>1. T \in [1 .. N + 1 -> Entry] /\ \A i \in Slots : T[i] = Zero
  BY ZeroIsEntry, SlotsInTable
<1> HIDE DEF T
<1>2. TabType(T)
  BY <1>1, ZeroIsEntry DEF TabType, Table
<1>3. NoTable \in [Slots -> Entry] /\ NoTable \in [Slots -> Entries]
  BY ZeroIsEntry DEF NoTable
<1>4. Blank = [mbr |-> FALSE, hdr |-> NoHeader, tab |-> T, bhdr |-> NoHeader, btab |-> NoTable]
  BY DEF Blank, T
<1>5. DiskType(Blank)
  BY <1>1, <1>2, <1>3, <1>4 DEF DiskType, Disk
<1>6. Scan(Blank, NoExtents) \in [pt : BOOLEAN, parts : [Slots -> Asked]]
  BY <1>5, ZeroIsEntry, ScanType
<1>7. Stages
  BY Idling DEF Init, Stages, Mover, At, None
<1>8. QED
  BY <1>5, <1>6, <1>7, Idling, ZeroIsEntry DEF Init, Typed

\* Steps that go from one stage to the next and leave the disk.
LEMMA GoingTyped ==
  ASSUME Typed, NEW a \in Ats, Goto(a), UNCHANGED <<cache, disk, listed, failing, ops, crashes>>,
         kernel' \in [Slots -> Asked], unseen' \in BOOLEAN, clean' \in BOOLEAN,
         Stages'
  PROVE  Typed'
  BY Going DEF Typed

LEMMA IdleTyped ==
  ASSUME Typed, op' = Idle, UNCHANGED <<disk, failing, ops, crashes>>,
         DiskType(cache'), kernel' \in [Slots -> Asked],
         listed' \in [pt : BOOLEAN, parts : [Slots -> Asked]],
         unseen' \in BOOLEAN, clean' \in BOOLEAN
  PROVE  Typed'
<1>1. Stages'
  BY Idling DEF Stages, Mover, At, None
<1>2. QED
  BY <1>1, Idling DEF Typed

LEMMA TypedStep ==
  ASSUME Typed, [Next]_vars
  PROVE  Typed'
<1>t. /\ DiskType(cache) /\ DiskType(disk)
      /\ kernel \in [Slots -> Asked]
      /\ unseen \in BOOLEAN /\ clean \in BOOLEAN /\ failing \in {{}, MayFail}
      /\ listed \in [pt : BOOLEAN, parts : [Slots -> Asked]]
      /\ op \in OpType /\ ops \in Nat /\ crashes \in Nat /\ Stages
  BY DEF Typed
<1>1. CASE NewGpt
  <2>1. Stages'
    BY <1>1, NewStores DEF Stages, At, Mover, Maker, Setter
  <2>2. QED
    BY <1>1, <1>t, <2>1, NewStores DEF Typed
<1>2. CASE ZapGpt
  <2>1. Stages'
    BY <1>2, ZapStores DEF Stages, At, Mover, Maker, Setter
  <2>2. QED
    BY <1>2, <1>t, <2>1, ZapStores DEF Typed
<1>3. CASE WriteGpt
  <2>1. Goto("psync") /\ UNCHANGED <<disk, kernel, listed, unseen, clean, counters>> /\ op.at = "head"
    BY <1>3 DEF WriteGpt, At
  <2>2. op' \in OpType /\ op'.kind = op.kind /\ op'.at = "psync" /\ op'.p = op.p /\ op'.ext = op.ext
    BY <2>1, Going DEF Ats
  <2>3. Stages'
    BY <1>t, <2>1, <2>2 DEF Stages, At, Mover, Maker, Setter
  <2>4. QED
    BY <1>3, <1>t, <2>1, <2>2, <2>3, WriteGptStores DEF Typed, counters
<1>4. CASE WriteGptFails
  BY <1>4, <1>t, WriteFailsStores, IdleTyped DEF WriteGptFails, Fail, counters
<1>5. ASSUME NEW e \in Extents, NEW n \in Given, AddGpt(e, n)
      PROVE  Typed'
  <2>1. Stages'
    BY <1>5, AddStores DEF Stages, At, Mover, Maker, Setter
  <2>2. QED
    BY <1>5, <1>t, <2>1, AddStores DEF Typed
<1>6. ASSUME NEW e \in Extents, NEW n \in Given, AddGptFails(e, n)
      PROVE  Typed'
  <2>1. Stages'
    BY <1>6, AddFailsStores DEF Stages, At, Mover, Maker, Setter
  <2>2. clean' \in BOOLEAN
    BY <1>6, AddFailsStores
  <2>3. QED
    BY <1>6, <1>t, <2>1, <2>2, AddFailsStores DEF Typed
<1>7. ASSUME NEW p \in Slots, DelGpt(p)
      PROVE  Typed'
  <2>1. Stages'
    BY <1>7, DelStores DEF Stages, At, Mover, Maker, Setter
  <2>2. QED
    BY <1>7, <1>t, <2>1, DelStores DEF Typed
<1>8. ASSUME NEW p \in Slots, Sets(p)
      PROVE  Typed'
  <2>1. op'.kind \in {"name", "uuid", "flags", "code"} /\ op'.at = "crc"
    BY <1>8, SetsStores DEF SetterKinds
  <2>2. Stages'
    BY <2>1 DEF Stages, At, Mover, Maker, Setter
  <2>3. QED
    BY <1>8, <1>t, <2>2, SetsStores DEF Typed
<1>9. ASSUME NEW p \in Slots, CodeGptRefused(p)
      PROVE  Typed'
  <2>1. Stages'
    BY <1>9, RefusedStores DEF Stages, At, Mover, Maker, Setter
  <2>2. QED
    BY <1>9, <1>t, <2>1, RefusedStores DEF Typed
<1>10. ASSUME NEW p \in Slots, NEW n \in Given, NameGptFails(p, n)
       PROVE  Typed'
  <2>1. Stages'
    BY <1>10, NameFailsStores DEF Stages, At, Mover, Maker, Setter
  <2>2. QED
    BY <1>10, <1>t, <2>1, NameFailsStores DEF Typed
<1>11. CASE WipeDosMbr
  <2>1. Stages'
    BY <1>11, WipeStores DEF Stages, At, Mover, Maker, Setter
  <2>2. QED
    BY <1>11, <1>t, <2>1, WipeStores DEF Typed
<1>12. CASE UpdateCrc
  <2>1. Goto("copy") /\ UNCHANGED <<disk, kernel, listed, unseen, clean, counters>> /\ op.at = "crc"
    BY <1>12 DEF UpdateCrc, At
  <2>2. op' \in OpType /\ op'.kind = op.kind /\ op'.at = "copy" /\ op'.p = op.p /\ op'.ext = op.ext
    BY <2>1, Going DEF Ats
  <2>3. Stages'
    BY <1>t, <2>1, <2>2 DEF Stages, At, Mover, Maker, Setter
  <2>4. QED
    BY <1>12, <1>t, <2>1, <2>2, <2>3, CrcStores DEF Typed, counters
<1>13. CASE UpdateCrcFails
  BY <1>13, <1>t, IdleTyped DEF UpdateCrcFails, Fail, counters
<1>14. CASE UpdateBackup
  <2>1. Goto("sync") /\ UNCHANGED <<disk, kernel, listed, unseen, clean, counters>> /\ op.at = "copy"
    BY <1>14 DEF UpdateBackup, At
  <2>2. op' \in OpType /\ op'.kind = op.kind /\ op'.at = "sync" /\ op'.p = op.p /\ op'.ext = op.ext
    BY <2>1, Going DEF Ats
  <2>3. Stages'
    BY <1>t, <2>1, <2>2 DEF Stages, At, Mover, Maker, Setter
  <2>4. QED
    BY <1>14, <1>t, <2>1, <2>2, <2>3, UpdateBackupStores DEF Typed, counters
<1>15. ASSUME NEW u \in Units, WriteBack(u)
       PROVE  Typed'
  <2>1. UNCHANGED <<cache, kernel, listed, op, unseen, clean, failing, ops, crashes>>
    BY <1>15 DEF WriteBack, counters
  <2>2. Stages'
    BY <1>t, <2>1 DEF Stages, At, Mover, Maker, Setter
  <2>3. QED
    BY <1>15, <1>t, <2>1, <2>2, WriteBackStores DEF Typed
<1>16. CASE PrimarySynced
  <2>1. Goto("copy") /\ UNCHANGED <<cache, disk, kernel, listed, unseen, clean, failing, ops, crashes>>
        /\ op.at = "psync"
    BY <1>16 DEF PrimarySynced, At, counters
  <2>2. op'.kind = op.kind /\ op'.at = "copy" /\ op'.p = op.p /\ op'.ext = op.ext
    BY <2>1, Going DEF Ats
  <2>3. Stages'
    BY <1>t, <2>1, <2>2 DEF Stages, At, Mover, Maker, Setter
  <2>4. QED
    BY <1>t, <2>1, <2>3, GoingTyped DEF Ats
<1>17. CASE SyncFails
  BY <1>17, <1>t, IdleTyped DEF SyncFails, Fail, counters
<1>18. CASE BackupSynced
  <2>1. UNCHANGED <<cache, disk, kernel, listed, unseen, failing, ops, crashes>> /\ op.at = "sync"
    BY <1>18 DEF BackupSynced, At, counters
  <2>2. CASE op.kind \in {"new", "zap", "add", "del"}
    <3>1. Goto("fsync") /\ clean' = clean
      BY <1>18, <2>2 DEF BackupSynced
    <3>2. op'.kind = op.kind /\ op'.at = "fsync" /\ op'.p = op.p /\ op'.ext = op.ext
      BY <3>1, Going DEF Ats
    <3>3. Stages'
      BY <1>t, <2>1, <2>2, <3>2 DEF Stages, At, Mover, Maker, Setter
    <3>4. QED
      BY <1>t, <2>1, <3>1, <3>3, GoingTyped DEF Ats
  <2>3. CASE op.kind \notin {"new", "zap", "add", "del"}
    <3>1. op' = Idle /\ clean' = (clean /\ op.ok)
      BY <1>18, <2>3 DEF BackupSynced, Finish
    <3>2. clean' \in BOOLEAN
      BY <3>1
    <3>3. QED
      BY <1>t, <2>1, <3>1, <3>2, IdleTyped
  <2>4. QED
    BY <2>2, <2>3
<1>19. CASE Fsync
  <2>1. UNCHANGED <<cache, disk, kernel, listed, unseen, clean, failing, ops, crashes>> /\ op.at = "fsync"
    BY <1>19 DEF Fsync, At, counters
  <2>2. CASE op.kind \in {"add", "del"}
    <3>1. Goto("blkpg")
      BY <1>19, <2>2 DEF Fsync
    <3>2. op'.kind = op.kind /\ op'.at = "blkpg" /\ op'.p = op.p /\ op'.ext = op.ext
      BY <3>1, Going DEF Ats
    <3>3. Stages'
      BY <1>t, <2>1, <2>2, <3>2 DEF Stages, At, Mover, Maker, Setter
    <3>4. QED
      BY <1>t, <2>1, <3>1, <3>3, GoingTyped DEF Ats
  <2>3. CASE op.kind \notin {"add", "del"}
    <3>1. Goto("rescan")
      BY <1>19, <2>3 DEF Fsync
    <3>2. op'.kind = op.kind /\ op'.at = "rescan" /\ op'.p = op.p /\ op'.ext = op.ext
      BY <3>1, Going DEF Ats
    <3>3. Stages'
      BY <1>t, <2>1, <2>3, <3>2 DEF Stages, At, Mover, Maker, Setter
    <3>4. QED
      BY <1>t, <2>1, <3>1, <3>3, GoingTyped DEF Ats
  <2>4. QED
    BY <2>2, <2>3
<1>20. CASE Blkpg
  <2>1. /\ UNCHANGED <<cache, disk, listed, clean, failing, ops, crashes>> /\ op.at = "blkpg"
        /\ kernel' = [kernel EXCEPT ![op.p] = op.ext]
        /\ unseen' = (unseen \/ op.kind = "del")
        /\ Goto("rescan")
    BY <1>20 DEF Blkpg, At, counters
  <2>2. op'.kind = op.kind /\ op'.at = "rescan" /\ op'.p = op.p /\ op'.ext = op.ext
    BY <2>1, Going DEF Ats
  <2>3. Stages'
    BY <1>t, <2>1, <2>2 DEF Stages, At, Mover, Maker, Setter
  <2>4. kernel' \in [Slots -> Asked] /\ unseen' \in BOOLEAN
    BY <1>t, <2>1, OpParts
  <2>5. QED
    BY <1>t, <2>1, <2>3, <2>4, GoingTyped DEF Ats
<1>21. CASE BlkpgFails
  BY <1>21, <1>t, IdleTyped DEF BlkpgFails, Fail, counters
<1>22. CASE Rescan
  <2>1. /\ kernel' = IF op.kind \in {"new", "zap"} THEN Reread(cache) ELSE kernel
        /\ listed' = Scan(cache, kernel') /\ unseen' = FALSE /\ op' = Idle
        /\ UNCHANGED <<cache, disk, clean, failing, ops, crashes>>
    BY <1>22 DEF Rescan, counters
  <2>2. kernel' \in [Slots -> Asked]
    BY <1>t, <2>1, RereadType
  <2>3. listed' \in [pt : BOOLEAN, parts : [Slots -> Asked]]
    BY <1>t, <2>1, <2>2, ScanType
  <2>4. QED
    BY <1>t, <2>1, <2>2, <2>3, IdleTyped
<1>23. CASE RescanStale
  <2>1. /\ listed' = Scan(cache, kernel) /\ unseen' = FALSE /\ op' = Idle /\ clean' = FALSE
        /\ UNCHANGED <<cache, disk, kernel, failing, ops, crashes>>
    BY <1>23 DEF RescanStale, Fail, counters
  <2>2. listed' \in [pt : BOOLEAN, parts : [Slots -> Asked]]
    BY <1>t, <2>1, ScanType
  <2>3. QED
    BY <1>t, <2>1, <2>2, IdleTyped
<1>24. CASE RescanFails
  <2>1. /\ clean' = (clean /\ op.kind = "del") /\ op' = Idle
        /\ UNCHANGED <<cache, disk, kernel, listed, unseen, failing, ops, crashes>>
    BY <1>24 DEF RescanFails, counters
  <2>2. clean' \in BOOLEAN
    BY <2>1
  <2>3. QED
    BY <1>t, <2>1, <2>2, IdleTyped
<1>25. CASE UdevRescan
  <2>1. /\ listed' = Scan(cache, kernel) /\ unseen' = FALSE
        /\ UNCHANGED <<cache, disk, kernel, op, clean, failing, ops, crashes>>
    BY <1>25 DEF UdevRescan, counters
  <2>2. listed' \in [pt : BOOLEAN, parts : [Slots -> Asked]]
    BY <1>t, <2>1, ScanType
  <2>3. Stages'
    BY <1>t, <2>1 DEF Stages, At, Mover, Maker, Setter
  <2>4. QED
    BY <1>t, <2>1, <2>2, <2>3 DEF Typed
<1>26. CASE Crash
  <2>1. /\ crashes' = crashes + 1 /\ cache' = disk /\ kernel' = Reread(disk)
        /\ listed' = Scan(disk, kernel') /\ op' = Idle /\ unseen' = FALSE /\ clean' = FALSE
        /\ UNCHANGED <<disk, failing, ops>>
    BY <1>26 DEF Crash
  <2>2. kernel' \in [Slots -> Asked]
    BY <1>t, <2>1, RereadType
  <2>3. listed' \in [pt : BOOLEAN, parts : [Slots -> Asked]]
    BY <1>t, <2>1, <2>2, ScanType
  <2>4. Stages'
    BY <2>1, Idling DEF Stages, Mover, At, None
  <2>5. crashes' \in Nat
    BY <1>t, <2>1
  <2>6. QED
    BY <1>t, <2>1, <2>2, <2>3, <2>4, <2>5, Idling DEF Typed
<1>27. CASE UNCHANGED vars
  <2>1. Stages'
    BY <1>27, <1>t DEF vars, Stages, At, Mover, Maker, Setter
  <2>2. QED
    BY <1>27, <1>t, <2>1 DEF vars, Typed
<1>28. ASSUME NEW p \in Slots,
              \/ UuidGpt(p) \/ CodeGpt(p)
              \/ \E n \in Given : NameGpt(p, n)
              \/ \E f \in {0, 1} : FlagsGpt(p, f)
       PROVE  Typed'
  BY <1>28, <1>8, SettersSet
<1>29. QED
  BY <1>1, <1>2, <1>3, <1>4, <1>5, <1>6, <1>7, <1>9, <1>10, <1>11, <1>12, <1>13, <1>14, <1>15,
     <1>16, <1>17, <1>18, <1>19, <1>20, <1>21, <1>22, <1>23, <1>24, <1>25, <1>26, <1>27, <1>28
     DEF Next

LEMMA TypedTypeOK == Typed => TypeOK
<1> SUFFICES ASSUME Typed PROVE TypeOK
  OBVIOUS
<1>1. At("crc") \/ At("blkpg") => op.kind \in {"new", "zap"} \/ op.p \in 0 .. N
  BY OpParts
<1>2. QED
  BY <1>1 DEF Typed, TypeOK, DiskType, Asked

\* Always: what growlight and the kernel hold of the disk has its type, and each
\* stage is come to only by the operations that have it.
THEOREM GptTyped == Spec => []TypeOK
<1>1. Typed /\ [Next]_vars => Typed'
  BY TypedStep
<1>2. Spec => []Typed
  BY <1>1, InitTyped, PTL DEF Spec
<1>3. QED
  BY <1>2, TypedTypeOK, PTL

-----------------------------------------------------------------------------
(***************************************************************************)
(* Views.                                                                  *)
(***************************************************************************)
LEMMA InitViews == Init => ViewsInv
<1> SUFFICES ASSUME Init PROVE ViewsInv
  OBVIOUS
<1>1. op.at = "idle" /\ op.kind = None /\ cache.hdr = NoHeader
  BY Idling DEF Init, Blank
<1>2. QED
  BY <1>1 DEF ViewsInv, At, None

\* Growlight agrees with the kernel once it scans a disk with a table.
LEMMA ScanTold ==
  ASSUME Typed, Primary, NEW k \in [Slots -> Asked]
  PROVE  /\ Recognised(cache) /\ Scan(cache, k).parts = k
         /\ Reread(cache) = ExtentsOf(cache.tab)
         /\ \A i \in Slots : Reread(cache)[i] = Extent(cache.tab[i])
<1>1. Recognised(cache)
  BY DEF Primary, Recognised
<1>2. Reread(cache) = ExtentsOf(cache.tab)
  BY <1>1 DEF Primary, Reread
<1>3. \A i \in Slots : ExtentsOf(cache.tab)[i] = Extent(cache.tab[i])
  BY DEF ExtentsOf
<1>4. QED
  BY <1>1, <1>2, <1>3, ScanType DEF Typed

LEMMA ViewsStep ==
  ASSUME Typed, ViewsInv, [Next]_vars
  PROVE  ViewsInv'
<1>s. Stages
  BY DEF Typed
<1>0. CASE clean' = FALSE
  BY <1>0 DEF ViewsInv
<1>1. CASE NewGpt
  <2>1. /\ op'.kind = "new" /\ op'.at = "head" /\ cache'.mbr = TRUE
    BY <1>1, NewStores DEF Shows
  <2>2. QED
    BY <2>1 DEF ViewsInv, At
<1>2. CASE ZapGpt
  <2>1. /\ op'.kind = "zap" /\ op'.at = "head"
    BY <1>2, ZapStores DEF Shows
  <2>2. QED
    BY <2>1 DEF ViewsInv, At
<1>3. CASE WriteGpt
  <2>1. Goto("psync") /\ UNCHANGED <<disk, kernel, listed, unseen, clean, counters>> /\ op.at = "head"
    BY <1>3 DEF WriteGpt, At
  <2>2. op' \in OpType /\ op'.kind = op.kind /\ op'.at = "psync"
    BY <2>1, Going DEF Ats
  <2>3. op.kind \in {"new", "zap"}
    BY <1>s, <2>1 DEF Stages, At, Maker
  <2>4. CASE op.kind = "new"
    <3>1. cache'.mbr = cache.mbr /\ cache'.hdr = Table(cache'.tab)
      BY <1>3, <2>4, WriteGptStores DEF Shows
    <3>2. clean => cache.mbr
      BY <2>1, <2>4 DEF ViewsInv, At
    <3>3. clean' => Primary'
      BY <2>1, <3>1, <3>2 DEF Primary, PrimaryOK
    <3>4. QED
      BY <2>2, <2>4, <3>3 DEF ViewsInv, At
  <2>5. CASE op.kind = "zap"
    <3>1. cache'.hdr = NoHeader
      BY <1>3, <2>5, WriteGptStores DEF Shows
    <3>2. QED
      BY <2>2, <2>5, <3>1 DEF ViewsInv, At
  <2>6. QED
    BY <2>3, <2>4, <2>5
<1>4. CASE WriteGptFails
  BY <1>0, <1>4 DEF WriteGptFails, Fail
<1>5. ASSUME NEW e \in Extents, NEW n \in Given, AddGpt(e, n)
      PROVE  ViewsInv'
  <2> DEFINE j == Min(Free)
  <2>1. /\ j \in Slots /\ cache.hdr # NoHeader
        /\ cache'.mbr = cache.mbr /\ cache'.hdr = cache.hdr
        /\ Extent(cache'.tab[j]) = e
        /\ \A i \in 1 .. N + 1 : i # j => cache'.tab[i] = cache.tab[i]
        /\ op'.kind = "add" /\ op'.at = "crc" /\ op'.p = j /\ op'.ext = e
        /\ op.at = "idle"
        /\ UNCHANGED <<kernel, listed, unseen, clean>>
    BY <1>5, AddStores DEF Shows
  <2> HIDE DEF j
  <2>2. clean => /\ cache.mbr /\ (unseen \/ listed.parts = kernel)
                 /\ \A i \in Slots : kernel[i] = Extent(cache.tab[i])
    BY <2>1 DEF ViewsInv, At, Primary, Told
  <2>3. clean' => Pending'
    BY <2>1, <2>2, SlotsInTable DEF Pending, Mover
  <2>4. QED
    BY <2>1, <2>2, <2>3 DEF ViewsInv, At, Told
<1>6. ASSUME NEW e \in Extents, NEW n \in Given, AddGptFails(e, n)
      PROVE  ViewsInv'
  <2>1. /\ clean' = (clean /\ cache' = cache)
        /\ op'.kind = "add" /\ op'.at = "idle" /\ op.at = "idle"
        /\ UNCHANGED <<kernel, listed, unseen>>
    BY <1>6, AddFailsStores
  <2>2. CASE cache' = cache
    BY <2>1, <2>2 DEF ViewsInv, At, Primary, PrimaryOK, Backup, Told
  <2>3. CASE cache' # cache
    BY <1>0, <2>1, <2>3
  <2>4. QED
    BY <2>2, <2>3
<1>7. ASSUME NEW p \in Slots, DelGpt(p)
      PROVE  ViewsInv'
  <2>1. /\ cache'.mbr = cache.mbr /\ cache'.hdr = cache.hdr
        /\ Extent(cache'.tab[p]) = NoExtent
        /\ \A i \in 1 .. N + 1 : i # p => cache'.tab[i] = cache.tab[i]
        /\ op'.kind = "del" /\ op'.at = "crc" /\ op'.p = p /\ op'.ext = NoExtent
        /\ op.at = "idle"
        /\ UNCHANGED <<kernel, listed, unseen, clean>>
    BY <1>7, DelStores DEF Shows
  <2>2. clean /\ cache.hdr # NoHeader =>
          /\ cache.mbr /\ (unseen \/ listed.parts = kernel)
          /\ \A i \in Slots : kernel[i] = Extent(cache.tab[i])
    BY <2>1 DEF ViewsInv, At, Primary, Told
  <2>3. clean' /\ cache'.hdr # NoHeader => Pending'
    BY <2>1, <2>2, SlotsInTable DEF Pending, Mover
  <2>4. QED
    BY <2>1, <2>2, <2>3 DEF ViewsInv, At, Told
<1>8. ASSUME NEW p \in Slots, Sets(p)
      PROVE  ViewsInv'
  <2>1. /\ cache'.mbr = cache.mbr /\ cache'.hdr = cache.hdr
        /\ \A i \in Slots : Extent(cache'.tab[i]) = Extent(cache.tab[i])
        /\ op'.kind \in {"name", "uuid", "flags", "code"} /\ op'.at = "crc"
        /\ op.at = "idle"
        /\ UNCHANGED <<kernel, listed, unseen, clean>>
    BY <1>8, SetsStores DEF Shows, SetterKinds
  <2>2. clean /\ cache.hdr # NoHeader =>
          /\ cache.mbr /\ (unseen \/ listed.parts = kernel)
          /\ \A i \in Slots : kernel[i] = Extent(cache.tab[i])
    BY <2>1 DEF ViewsInv, At, Primary, Told
  <2>3. clean' /\ cache'.hdr # NoHeader => Pending'
    BY <2>1, <2>2 DEF Pending, Mover
  <2>4. QED
    BY <2>1, <2>2, <2>3 DEF ViewsInv, At, Told
<1>9. ASSUME NEW p \in Slots, CodeGptRefused(p)
      PROVE  ViewsInv'
  <2>1. /\ op'.kind = "code" /\ op'.at = "crc" /\ op.at = "idle"
        /\ UNCHANGED <<cache, kernel, listed, unseen, clean>>
    BY <1>9, RefusedStores
  <2>2. clean /\ cache.hdr # NoHeader =>
          /\ cache.mbr /\ (unseen \/ listed.parts = kernel)
          /\ \A i \in Slots : kernel[i] = Extent(cache.tab[i])
    BY <2>1 DEF ViewsInv, At, Primary, Told
  <2>3. clean' /\ cache'.hdr # NoHeader => Pending'
    BY <2>1, <2>2 DEF Pending, Mover
  <2>4. QED
    BY <2>1, <2>2, <2>3 DEF ViewsInv, At, Told
<1>10. ASSUME NEW p \in Slots, NEW n \in Given, NameGptFails(p, n)
       PROVE  ViewsInv'
  BY <1>0, <1>10, NameFailsStores
<1>11. CASE WipeDosMbr
  BY <1>0, <1>11, WipeStores
<1>12. CASE UpdateCrc
  <2>1. Goto("copy") /\ UNCHANGED <<kernel, listed, unseen, clean>> /\ op.at = "crc"
        /\ cache.hdr # NoHeader
    BY <1>12 DEF UpdateCrc, At
  <2>2. op'.kind = op.kind /\ op'.at = "copy" /\ op'.p = op.p /\ op'.ext = op.ext
    BY <2>1, Going DEF Ats
  <2>3. cache'.mbr = cache.mbr /\ cache'.hdr = Table(cache'.tab) /\ cache'.tab = cache.tab
    BY <1>12, CrcStores DEF Shows
  <2>4. clean => cache.mbr /\ Pending /\ Told
    BY <2>1 DEF ViewsInv, At
  <2>5. clean' => Primary' /\ Pending' /\ Told'
    BY <2>1, <2>2, <2>3, <2>4 DEF Primary, PrimaryOK, Pending, Told, Mover
  <2>6. op.kind # "zap"
    BY <1>s, <2>1 DEF Stages, At, Setter, Mover
  <2>7. op.kind # "wipembr"
    BY <1>s, <2>1 DEF Stages, At, Setter, Mover
  <2>8. QED
    BY <2>2, <2>5, <2>6, <2>7 DEF ViewsInv, At
<1>13. CASE UpdateCrcFails
  BY <1>0, <1>13 DEF UpdateCrcFails, Fail
<1>14. CASE UpdateBackup
  <2>1. Goto("sync") /\ UNCHANGED <<kernel, listed, unseen, clean>> /\ op.at = "copy"
    BY <1>14 DEF UpdateBackup, At
  <2>2. op'.kind = op.kind /\ op'.at = "sync" /\ op'.p = op.p /\ op'.ext = op.ext
    BY <2>1, Going DEF Ats
  <2>3. cache'.mbr = cache.mbr /\ cache'.hdr = cache.hdr /\ cache'.tab = cache.tab
        /\ (op.kind # "zap" => Backup')
    BY <1>14, UpdateBackupStores DEF Shows, Backup
  <2>4. clean => /\ op.kind = "zap" => cache.hdr = NoHeader
                 /\ op.kind # "zap" => Primary
                 /\ Setter \/ Mover => Pending /\ Told
                 /\ op.kind # "wipembr"
    BY <2>1 DEF ViewsInv, At
  <2>5. clean' => /\ op.kind # "zap" => Primary'
                  /\ Setter' \/ Mover' => Pending' /\ Told'
    BY <2>1, <2>2, <2>3, <2>4 DEF Primary, PrimaryOK, Pending, Told, Mover, Setter
  <2>6. QED
    BY <2>1, <2>2, <2>3, <2>4, <2>5 DEF ViewsInv, At
<1>15. ASSUME NEW u \in Units, WriteBack(u)
       PROVE  ViewsInv'
  <2>1. UNCHANGED <<cache, kernel, listed, op, unseen, clean>>
    BY <1>15 DEF WriteBack
  <2>2. QED
    BY <2>1 DEF ViewsInv, At, Primary, PrimaryOK, Backup, Told, Pending, Mover, Setter
<1>16. CASE PrimarySynced
  <2>1. Goto("copy") /\ UNCHANGED <<cache, kernel, listed, unseen, clean>> /\ op.at = "psync"
    BY <1>16 DEF PrimarySynced, At
  <2>2. op'.kind = op.kind /\ op'.at = "copy" /\ op'.p = op.p /\ op'.ext = op.ext
    BY <2>1, Going DEF Ats
  <2>3. op.kind \in {"new", "zap"}
    BY <1>s, <2>1 DEF Stages, At, Maker
  <2>4. clean => (op.kind = "zap" => cache.hdr = NoHeader) /\ (op.kind # "zap" => Primary)
    BY <2>1 DEF ViewsInv, At
  <2>5. clean' => (op.kind = "zap" => cache'.hdr = NoHeader) /\ (op.kind # "zap" => Primary')
    BY <2>1, <2>4 DEF Primary, PrimaryOK
  <2>6. ~Setter' /\ ~Mover'
    BY <2>2, <2>3 DEF Setter, Mover
  <2>7. QED
    BY <2>2, <2>3, <2>5, <2>6 DEF ViewsInv, At
<1>17. CASE SyncFails
  BY <1>0, <1>17 DEF SyncFails, Fail
<1>18. CASE BackupSynced
  <2>1. UNCHANGED <<cache, kernel, listed, unseen>> /\ op.at = "sync"
    BY <1>18 DEF BackupSynced, At
  <2>2. clean => /\ op.kind = "zap" => cache.hdr = NoHeader
                 /\ op.kind # "zap" => Primary /\ Backup
                 /\ Setter \/ Mover => Pending /\ Told
                 /\ op.kind # "wipembr"
    BY <2>1 DEF ViewsInv, At
  <2>3. CASE op.kind \in {"new", "zap", "add", "del"}
    <3>1. Goto("fsync") /\ clean' = clean
      BY <1>18, <2>3 DEF BackupSynced
    <3>2. op'.kind = op.kind /\ op'.at = "fsync" /\ op'.p = op.p /\ op'.ext = op.ext
      BY <3>1, Going DEF Ats
    <3>3. clean' => /\ op.kind = "zap" => cache'.hdr = NoHeader
                    /\ op.kind # "zap" => Primary' /\ Backup'
                    /\ Setter' \/ Mover' => Pending' /\ Told'
      BY <2>1, <2>2, <3>1, <3>2 DEF Primary, PrimaryOK, Backup, Pending, Told, Mover, Setter
    <3>4. QED
      BY <2>2, <3>1, <3>2, <3>3 DEF ViewsInv, At
  <2>4. CASE op.kind \notin {"new", "zap", "add", "del"}
    <3>1. op' = Idle /\ clean' = (clean /\ op.ok)
      BY <1>18, <2>4 DEF BackupSynced, Finish
    <3>2. op'.at = "idle" /\ op'.kind # "wipembr"
      BY <3>1, Idling DEF None
    <3>3. Setter /\ ~Mover
      BY <1>s, <2>1, <2>4 DEF Stages, At, Setter, Mover, Maker
    <3>4. clean => Primary /\ Backup /\ Told /\ \A i \in Slots : kernel[i] = Extent(cache.tab[i])
      BY <2>2, <2>4, <3>3 DEF Pending
    <3>5. clean' => Primary' /\ Backup' /\ Told' /\ \A i \in Slots : kernel'[i] = Extent(cache'.tab[i])
      BY <2>1, <3>1, <3>4 DEF Primary, PrimaryOK, Backup, Told
    <3>6. QED
      BY <3>2, <3>5 DEF ViewsInv, At
  <2>5. QED
    BY <2>3, <2>4
<1>19. CASE Fsync
  <2>1. UNCHANGED <<cache, kernel, listed, unseen, clean>> /\ op.at = "fsync"
        /\ Goto(IF op.kind \in {"add", "del"} THEN "blkpg" ELSE "rescan")
    BY <1>19 DEF Fsync, At
  <2>2. /\ op'.kind = op.kind /\ op'.p = op.p /\ op'.ext = op.ext
        /\ op'.at = IF op.kind \in {"add", "del"} THEN "blkpg" ELSE "rescan"
    BY <2>1, Going DEF Ats
  <2>3. clean => /\ op.kind = "zap" => cache.hdr = NoHeader
                 /\ op.kind # "zap" => Primary /\ Backup
                 /\ Setter \/ Mover => Pending /\ Told
                 /\ op.kind # "wipembr"
    BY <2>1 DEF ViewsInv, At
  <2>4. clean' => /\ op.kind = "zap" => cache'.hdr = NoHeader
                  /\ op.kind # "zap" => Primary' /\ Backup'
                  /\ Setter' \/ Mover' => Pending' /\ Told'
    BY <2>1, <2>2, <2>3 DEF Primary, PrimaryOK, Backup, Pending, Told, Mover, Setter
  <2>5. CASE op.kind \in {"add", "del"}
    <3>1. op'.at = "blkpg" /\ op'.kind \in {"add", "del"}
      BY <2>2, <2>5
    <3>2. QED
      BY <2>1, <2>2, <2>3, <2>4, <3>1 DEF ViewsInv, At
  <2>6. CASE op.kind \notin {"add", "del"}
    <3>1. op'.at = "rescan" /\ ~Mover'
      BY <2>2, <2>6 DEF Mover
    <3>2. QED
      BY <2>1, <2>2, <2>3, <2>4, <3>1 DEF ViewsInv, At
  <2>7. QED
    BY <2>5, <2>6
<1>20. CASE Blkpg
  <2>1. /\ UNCHANGED <<cache, listed, clean>> /\ op.at = "blkpg"
        /\ kernel' = [kernel EXCEPT ![op.p] = op.ext]
        /\ unseen' = (unseen \/ op.kind = "del")
        /\ Goto("rescan")
    BY <1>20 DEF Blkpg, At
  <2>2. op'.kind = op.kind /\ op'.at = "rescan" /\ op'.p = op.p /\ op'.ext = op.ext
    BY <2>1, Going DEF Ats
  <2>3. Mover /\ op.p \in Slots
    BY <1>s, <2>1 DEF Stages, At
  <2>4. clean => Primary /\ Backup /\ Pending /\ op.kind # "zap"
    BY <2>1, <2>3 DEF ViewsInv, At, Mover
  <2>5. kernel \in [Slots -> Asked]
    BY DEF Typed
  <2>6. clean => \A i \in Slots : kernel'[i] = Extent(cache.tab[i])
    BY <2>1, <2>3, <2>4, <2>5 DEF Pending
  <2>7. clean' => Primary' /\ Backup' /\ \A i \in Slots : kernel'[i] = Extent(cache'.tab[i])
    BY <2>1, <2>4, <2>6 DEF Primary, PrimaryOK, Backup
  <2>8. op'.kind = "del" => unseen'
    BY <2>1, <2>2
  <2>9. op'.kind \in {"add", "del"}
    BY <2>2, <2>3 DEF Mover
  <2>10. QED
    BY <2>2, <2>7, <2>8, <2>9 DEF ViewsInv, At
<1>21. CASE BlkpgFails
  BY <1>0, <1>21 DEF BlkpgFails, Fail
<1>22. CASE Rescan
  <2>1. /\ kernel' = IF op.kind \in {"new", "zap"} THEN Reread(cache) ELSE kernel
        /\ listed' = Scan(cache, kernel') /\ op' = Idle
        /\ UNCHANGED <<cache, clean>> /\ op.at = "rescan" /\ op.kind # "del"
    BY <1>22 DEF Rescan, At
  <2>2. op'.at = "idle" /\ op'.kind # "wipembr"
    BY <2>1, Idling DEF None
  <2>3. CASE clean /\ cache.hdr # NoHeader
    <3>1. op.kind \in {"new", "add"} /\ Primary /\ Backup
          /\ (op.kind = "add" => \A i \in Slots : kernel[i] = Extent(cache.tab[i]))
      BY <1>s, <2>1, <2>3 DEF ViewsInv, At, Stages, Mover, Maker
    <3>2. kernel \in [Slots -> Asked] /\ Reread(cache) \in [Slots -> Asked]
      BY RereadType DEF Typed
    <3>3. kernel' \in [Slots -> Asked]
      BY <2>1, <3>2
    <3>4. \A i \in Slots : kernel'[i] = Extent(cache.tab[i])
      BY <2>1, <3>1, <3>2, ScanTold
    <3>5. listed'.parts = kernel'
      BY <2>1, <3>1, <3>3, ScanTold
    <3>6. Primary' /\ Backup' /\ Told' /\ \A i \in Slots : kernel'[i] = Extent(cache'.tab[i])
      BY <2>1, <3>1, <3>4, <3>5 DEF Primary, PrimaryOK, Backup, Told
    <3>7. QED
      BY <2>2, <3>6 DEF ViewsInv, At
  <2>4. CASE ~(clean /\ cache.hdr # NoHeader)
    BY <2>1, <2>2, <2>4 DEF ViewsInv, At
  <2>5. QED
    BY <2>3, <2>4
<1>23. CASE RescanStale
  BY <1>0, <1>23 DEF RescanStale, Fail
<1>24. CASE RescanFails
  <2>1. /\ clean' = (clean /\ op.kind = "del") /\ op' = Idle /\ op.at = "rescan"
        /\ UNCHANGED <<cache, kernel, listed, unseen>>
    BY <1>24 DEF RescanFails, At
  <2>2. op'.at = "idle" /\ op'.kind # "wipembr"
    BY <2>1, Idling DEF None
  <2>3. clean /\ op.kind = "del" =>
          Primary /\ Backup /\ unseen /\ \A i \in Slots : kernel[i] = Extent(cache.tab[i])
    BY <2>1 DEF ViewsInv, At, Mover
  <2>4. clean' => Primary' /\ Backup' /\ Told' /\ \A i \in Slots : kernel'[i] = Extent(cache'.tab[i])
    BY <2>1, <2>3 DEF Primary, PrimaryOK, Backup, Told
  <2>5. QED
    BY <2>2, <2>4 DEF ViewsInv, At
<1>25. CASE UdevRescan
  <2>1. /\ listed' = Scan(cache, kernel) /\ op.at = "idle"
        /\ UNCHANGED <<cache, kernel, op, clean>>
    BY <1>25 DEF UdevRescan, At
  <2>2. CASE clean /\ cache.hdr # NoHeader
    <3>1. Primary /\ Backup /\ \A i \in Slots : kernel[i] = Extent(cache.tab[i])
      BY <2>1, <2>2 DEF ViewsInv, At
    <3>2. listed'.parts = kernel
      BY <2>1, <3>1, ScanTold DEF Typed
    <3>3. Primary' /\ Backup' /\ Told' /\ \A i \in Slots : kernel'[i] = Extent(cache'.tab[i])
      BY <2>1, <3>1, <3>2 DEF Primary, PrimaryOK, Backup, Told
    <3>4. QED
      BY <2>1, <2>2, <3>3 DEF ViewsInv, At
  <2>3. CASE ~(clean /\ cache.hdr # NoHeader)
    BY <2>1, <2>3 DEF ViewsInv, At
  <2>4. QED
    BY <2>2, <2>3
<1>26. CASE Crash
  BY <1>0, <1>26 DEF Crash
<1>27. CASE UNCHANGED vars
  BY <1>27 DEF vars, ViewsInv, At, Primary, PrimaryOK, Backup, Told, Pending, Mover, Setter
<1>28. ASSUME NEW p \in Slots,
              \/ UuidGpt(p) \/ CodeGpt(p)
              \/ \E n \in Given : NameGpt(p, n)
              \/ \E f \in {0, 1} : FlagsGpt(p, f)
       PROVE  ViewsInv'
  BY <1>28, <1>8, SettersSet
<1>29. QED
  BY <1>1, <1>2, <1>3, <1>4, <1>5, <1>6, <1>7, <1>9, <1>10, <1>11, <1>12, <1>13, <1>14, <1>15,
     <1>16, <1>17, <1>18, <1>19, <1>20, <1>21, <1>22, <1>23, <1>24, <1>25, <1>26, <1>27, <1>28
     DEF Next

LEMMA InvViewsAgree == Typed /\ ViewsInv => ViewsAgree
<1> SUFFICES ASSUME Typed, ViewsInv, At("idle"), clean, cache.hdr # NoHeader
             PROVE  /\ PrimaryOK(cache) /\ BackupOK(cache)
                    /\ cache.btab = Table(cache.tab)
                    /\ kernel = ExtentsOf(cache.tab)
                    /\ unseen \/ listed.parts = kernel
  BY DEF ViewsAgree
<1>1. Primary /\ Backup /\ Told /\ \A i \in Slots : kernel[i] = Extent(cache.tab[i])
  BY DEF ViewsInv
<1>2. kernel = ExtentsOf(cache.tab)
  BY <1>1 DEF ExtentsOf, Typed
<1>3. QED
  BY <1>1, <1>2 DEF Primary, Backup, BackupOK, Told

\* Always: once an operation is over and none so far has failed, the table and
\* its backup, the checksums, the kernel and growlight's record agree.
THEOREM ViewsAlwaysAgree == Spec => []ViewsAgree
<1>1. Typed /\ [Next]_vars => Typed'
  BY TypedStep
<1>2. Typed /\ ViewsInv /\ [Next]_vars => ViewsInv'
  BY ViewsStep
<1>3. Spec => [](Typed /\ ViewsInv)
  BY <1>1, <1>2, InitTyped, InitViews, PTL DEF Spec
<1>4. QED
  BY <1>3, InvViewsAgree, PTL

-----------------------------------------------------------------------------
(***************************************************************************)
(* An add that fails.                                                      *)
(***************************************************************************)
LEMMA SameArray ==
  ASSUME NEW t \in [1 .. N + 1 -> Entry], NEW r \in [1 .. N + 1 -> Entry],
         \A i \in 1 .. N + 1 : r[i] = t[i]
  PROVE  r = t
<1> DEFINE D == 1 .. N + 1
<1> HIDE DEF D
<1>1. t = [i \in D |-> t[i]] /\ r = [i \in D |-> r[i]]
  BY DEF D
<1>2. \A i \in D : r[i] = t[i]
  BY DEF D
<1>3. [i \in D |-> r[i]] = [i \in D |-> t[i]]
  BY <1>2
<1>4. QED
  BY <1>1, <1>3

LEMMA AddUndoneStep ==
  ASSUME Typed, [Next]_vars, ops' > ops, op'.kind = "add", op'.at = "idle",
         \A i \in Free : cache.tab[i] = Zero
  PROVE  cache' = cache
<1>0. ASSUME ops' = ops
      PROVE  FALSE
  BY <1>0 DEF Typed
<1>1. CASE NewGpt \/ ZapGpt \/ WipeDosMbr
  BY <1>1, NewStores, ZapStores, WipeStores
<1>2. ASSUME NEW e \in Extents, NEW n \in Given, AddGpt(e, n)
      PROVE  cache' = cache
  BY <1>2, AddStores
<1>3. ASSUME NEW e \in Extents, NEW n \in Given, AddGptFails(e, n)
      PROVE  cache' = cache
  <2>1. CASE cache' = cache
    BY <2>1
  <2>2. CASE cache' # cache
    <3> DEFINE j == Min(Free)
    <3>1. /\ Free # {} /\ DiskType(cache')
          /\ Shows(cache', cache.mbr, cache.hdr, cache'.tab, cache.bhdr, cache.btab)
          /\ cache'.tab[j] = Zero
          /\ \A i \in 1 .. N + 1 : i # j => cache'.tab[i] = cache.tab[i]
      BY <1>3, <2>2, AddFailsStores
    <3>2. cache.tab[j] = Zero
      BY <3>1, FreeSlot
    <3> HIDE DEF j
    <3>3. cache'.tab \in [1 .. N + 1 -> Entry] /\ cache.tab \in [1 .. N + 1 -> Entry]
      BY <3>1 DEF Typed, DiskType, TabType
    <3>4. cache'.tab = cache.tab
      <4>1. \A i \in 1 .. N + 1 : cache'.tab[i] = cache.tab[i]
        BY <3>1, <3>2
      <4>2. QED
        BY <3>3, <4>1, SameArray
    <3>5. Shows(cache', cache.mbr, cache.hdr, cache.tab, cache.bhdr, cache.btab)
      BY <3>1, <3>4
    <3>6. QED
      BY <3>1, <3>5, SameDisk DEF Typed, DiskType
  <2>3. QED
    BY <2>1, <2>2
<1>4. ASSUME NEW p \in Slots, DelGpt(p) \/ Sets(p) \/ CodeGptRefused(p)
      PROVE  cache' = cache
  <2>1. CASE DelGpt(p)
    BY <2>1, DelStores
  <2>2. CASE Sets(p)
    BY <2>2, SetsStores
  <2>3. CASE CodeGptRefused(p)
    BY <2>3, RefusedStores
  <2>4. QED
    BY <1>4, <2>1, <2>2, <2>3
<1>5. ASSUME NEW p \in Slots, NEW n \in Given, NameGptFails(p, n)
      PROVE  cache' = cache
  BY <1>5, NameFailsStores
<1>6. CASE WriteGpt \/ WriteGptFails \/ UpdateCrc \/ UpdateCrcFails \/ UpdateBackup
  BY <1>0, <1>6 DEF WriteGpt, WriteGptFails, UpdateCrc, UpdateCrcFails, UpdateBackup, counters
<1>7. CASE (\E u \in Units : WriteBack(u)) \/ PrimarySynced \/ SyncFails \/ BackupSynced \/ Fsync
  BY <1>0, <1>7 DEF WriteBack, PrimarySynced, SyncFails, BackupSynced, Fsync, counters
<1>8. CASE Blkpg \/ BlkpgFails \/ Rescan \/ RescanStale \/ RescanFails \/ UdevRescan
  BY <1>0, <1>8 DEF Blkpg, BlkpgFails, Rescan, RescanStale, RescanFails, UdevRescan, counters
<1>9. CASE Crash \/ UNCHANGED vars
  BY <1>0, <1>9 DEF Crash, vars
<1>10. ASSUME NEW p \in Slots,
              \/ UuidGpt(p) \/ CodeGpt(p)
              \/ \E n \in Given : NameGpt(p, n)
              \/ \E f \in {0, 1} : FlagsGpt(p, f)
       PROVE  cache' = cache
  BY <1>10, <1>4, SettersSet
<1>11. QED
  BY <1>1, <1>2, <1>3, <1>4, <1>5, <1>6, <1>7, <1>8, <1>9, <1>10 DEF Next

\* An add that fails before it releases the table leaves it as it was, whichever
\* of its calls failed, if the free entries were empty.
THEOREM FailedAddUndone == Spec => AddUndone
<1>1. Typed /\ [Next]_vars => Typed'
  BY TypedStep
<1>2. Spec => []Typed
  BY <1>1, InitTyped, PTL DEF Spec
<1>3. Typed /\ [Next]_vars =>
        [ops' > ops /\ op'.kind = "add" /\ op'.at = "idle"
           /\ (\A i \in Free : cache.tab[i] = Zero) => cache' = cache]_vars
  BY AddUndoneStep
<1>4. QED
  BY <1>2, <1>3, PTL DEF Spec, AddUndone

-----------------------------------------------------------------------------
(***************************************************************************)
(* Crashes.                                                                *)
(***************************************************************************)
LEMMA InitDisk == Init => DiskInv
<1> SUFFICES ASSUME Init PROVE DiskInv
  OBVIOUS
<1>1. op.at = "idle" /\ disk = cache
  BY Idling DEF Init
<1>2. QED
  BY <1>1 DEF DiskInv, At, Settled

\* With nothing to fail no name is too long.
LEMMA NothingTooLong ==
  ASSUME Typed, failing = {}
  PROVE  /\ \A n \in Given : n \notin TooLong
         /\ \A f : f \notin failing
  BY DEF Given

\* From where nothing is under way.
Quiet == BackedUp \/ Settled

\* A step that leaves the disks between two operations.
LEMMA QuietStays ==
  ASSUME Quiet, UNCHANGED <<cache, disk>>
  PROVE  Quiet'
  BY DEF Quiet, BackedUp, Settled, PrimaryOK, Backup

LEMMA QuietDisk ==
  ASSUME Quiet', op'.at \in {"idle", "fsync", "blkpg", "rescan"}
  PROVE  DiskInv'
  BY DEF DiskInv, At, Quiet

\* The protective MBR makes no difference to a table.
LEMMA QuietMbr ==
  ASSUME Quiet, NEW v, Shows(cache', v, cache.hdr, cache.tab, cache.bhdr, cache.btab),
         disk' = disk
  PROVE  Quiet'
  BY DEF Quiet, BackedUp, Settled, PrimaryOK, Backup, Shows

\* The beginning of an edit, or of a new table.
LEMMA EditDisk ==
  ASSUME Typed, DiskInv, op.at = "idle",
         op'.at \in {"crc", "head"}, Onset,
         cache'.hdr = cache.hdr, cache'.bhdr = cache.bhdr, cache'.btab = cache.btab,
         UNCHANGED <<disk, failing>>
  PROVE  DiskInv'
<1> SUFFICES ASSUME failing' = {} PROVE DiskInv'
  BY DEF DiskInv
<1>1. Quiet
  BY DEF DiskInv, At, Quiet
<1>2. disk'.bhdr = cache'.bhdr /\ disk'.btab = cache'.btab
  BY <1>1 DEF Quiet, BackedUp, Settled
<1>3. (op'.backed <=> BackupOK(disk')) /\ (op'.sound /\ op'.backed => disk'.btab = op'.old)
  BY DEF Onset, Found
<1>4. disk'.hdr = cache'.hdr \/ (cache'.hdr = op'.old /\ cache'.hdr # NoHeader)
  <2>1. CASE BackedUp
    BY <2>1, TableOf DEF BackedUp, Onset, Found, PrimaryOK, Typed, DiskType
  <2>2. CASE Settled
    BY <2>2 DEF Settled
  <2>3. QED
    BY <1>1, <2>1, <2>2 DEF Quiet
<1>5. Untouched'
  BY <1>2, <1>3, <1>4 DEF Untouched
<1>6. QED
  BY <1>5 DEF DiskInv, At

\* A unit that is written back between two operations.
LEMMA QuietWriteBack ==
  ASSUME Typed, Quiet, NEW u \in Units, WriteBack(u)
  PROVE  Quiet'
<1>1. cache' = cache
  BY DEF WriteBack
<1>2. CASE u = "mbr"
  BY <1>1, <1>2, WriteBackStores DEF Quiet, BackedUp, Settled, PrimaryOK, Backup, Shows
<1>3. CASE u = "hdr"
  BY <1>1, <1>3, WriteBackStores DEF Quiet, BackedUp, Settled, PrimaryOK, Backup, Shows
<1>4. CASE u = "tab"
  BY <1>1, <1>4, WriteBackStores DEF Quiet, BackedUp, Settled, PrimaryOK, Backup, Shows
<1>5. CASE u = "bhdr"
  BY <1>1, <1>5, WriteBackStores DEF Quiet, BackedUp, Settled, PrimaryOK, Backup, Shows
<1>6. CASE u = "btab"
  BY <1>1, <1>6, WriteBackStores DEF Quiet, BackedUp, Settled, PrimaryOK, Backup, Shows
<1>7. QED
  BY <1>2, <1>3, <1>4, <1>5, <1>6 DEF Units

\* What is written back of the primary before the backup is made: the backup on the
\* platters is the one the operation began on, if it began on a whole one.
LEMMA UntouchedWriteBack ==
  ASSUME Typed, Untouched, NEW u \in Units, WriteBack(u)
  PROVE  /\ Untouched'
         /\ op.sound =>
              \/ Recovered' \in {Recovered, op.old, Table(cache.tab)}
              \/ Recovered' = NoHeader /\ ~op.backed
<1>1. cache' = cache /\ op' = op /\ disk[u] # cache[u]
  BY DEF WriteBack
<1>2. u # "bhdr" /\ u # "btab"
  BY <1>1 DEF Untouched
<1>3. disk'.bhdr = disk.bhdr /\ disk'.btab = disk.btab
  BY <1>2, WriteBackStores DEF Shows, Units
<1>4. BackupOK(disk') <=> BackupOK(disk)
  BY <1>3 DEF BackupOK
<1>5. disk'.hdr = disk.hdr \/ disk'.hdr = cache.hdr
  BY <1>2, WriteBackStores DEF Shows, Units
<1>6. Untouched'
  BY <1>1, <1>3, <1>4, <1>5 DEF Untouched
<1>7. ASSUME op.sound, ~PrimaryOK(disk')
      PROVE  Recovered' = op.old \/ (Recovered' = NoHeader /\ ~op.backed)
  BY <1>3, <1>4, <1>7 DEF Recovered, Found, Untouched
<1>8. ASSUME PrimaryOK(disk')
      PROVE  Recovered' \in {Recovered, op.old, Table(cache.tab)}
  <2>1. Recovered' = Table(disk'.tab) /\ Recovered' = disk'.hdr
    BY <1>8 DEF Recovered, Found, PrimaryOK
  <2>2. CASE u = "mbr"
    BY <1>8, <2>2, WriteBackStores DEF Shows, Recovered, Found, PrimaryOK
  <2>3. CASE u = "hdr"
    <3>1. disk'.hdr = cache.hdr
      BY <2>3, WriteBackStores DEF Shows
    <3>2. cache.hdr \in {op.old, Table(cache.tab)}
      BY <1>1, <2>3 DEF Untouched
    <3>3. QED
      BY <2>1, <3>1, <3>2
  <2>4. CASE u = "tab"
    BY <2>1, <2>4, WriteBackStores DEF Shows
  <2>5. QED
    BY <1>2, <2>2, <2>3, <2>4 DEF Units
<1>9. QED
  BY <1>6, <1>7, <1>8

\* What is written back while the backup is being synced.
LEMMA SyncWriteBack ==
  ASSUME Typed, PrimaryOK(cache), Backup, op.sound,
         BackupOK(disk) => disk.btab \in {op.old, Table(cache.tab)},
         NEW u \in Units, WriteBack(u)
  PROVE  /\ BackupOK(disk') => disk'.btab \in {op.old, Table(cache.tab)}
         /\ Recovered' \in {Recovered, op.old, Table(cache.tab), NoHeader}
<1>1. CASE u \in {"mbr", "hdr", "tab"}
  <2>1. disk'.bhdr = disk.bhdr /\ disk'.btab = disk.btab
    BY <1>1, WriteBackStores DEF Shows
  <2>2. BackupOK(disk') => disk'.btab \in {op.old, Table(cache.tab)}
    BY <2>1 DEF BackupOK
  <2>3. ASSUME PrimaryOK(disk')
        PROVE  Recovered' \in {Recovered, Table(cache.tab)}
    <3>1. CASE u = "mbr"
      BY <2>3, <3>1, WriteBackStores DEF Shows, Recovered, Found, PrimaryOK
    <3>2. CASE u = "hdr"
      BY <2>3, <3>2, WriteBackStores DEF Shows, Recovered, Found, PrimaryOK
    <3>3. CASE u = "tab"
      BY <2>3, <3>3, WriteBackStores DEF Shows, Recovered, Found, PrimaryOK
    <3>4. QED
      BY <1>1, <3>1, <3>2, <3>3
  <2>4. QED
    BY <2>2, <2>3 DEF Recovered, Found
<1>2. CASE u \in {"bhdr", "btab"}
  <2>1. disk'.hdr = disk.hdr /\ disk'.tab = disk.tab
    BY <1>2, WriteBackStores DEF Shows
  <2>2. BackupOK(disk') => disk'.btab = Table(cache.tab)
    <3>1. CASE u = "bhdr"
      BY <3>1, WriteBackStores DEF Shows, BackupOK, Backup
    <3>2. CASE u = "btab"
      BY <3>2, WriteBackStores DEF Shows, Backup
    <3>3. QED
      BY <1>2, <3>1, <3>2
  <2>3. PrimaryOK(disk') => Recovered' = Recovered
    BY <2>1 DEF Recovered, Found, PrimaryOK
  <2>4. QED
    BY <2>2, <2>3 DEF Recovered, Found
<1>3. QED
  BY <1>1, <1>2 DEF Units

LEMMA DiskStep ==
  ASSUME Typed, DiskInv, [Next]_vars
  PROVE  DiskInv'
<1> SUFFICES ASSUME failing' = {} PROVE DiskInv'
  BY DEF DiskInv
<1>s. Stages
  BY DEF Typed
<1>f. failing = {}
  <2>1. failing' = failing
    <3>1. ASSUME NEW e \in Extents, NEW n \in Given, AddGpt(e, n) \/ AddGptFails(e, n)
          PROVE  failing' = failing
      BY <3>1, AddStores, AddFailsStores
    <3>2. ASSUME NEW p \in Slots, DelGpt(p) \/ Sets(p) \/ CodeGptRefused(p)
          PROVE  failing' = failing
      BY <3>2, DelStores, SetsStores, RefusedStores
    <3>3. ASSUME NEW p \in Slots, NEW n \in Given, NameGptFails(p, n)
          PROVE  failing' = failing
      BY <3>3, NameFailsStores
    <3>4. ASSUME NEW p \in Slots,
                 \/ UuidGpt(p) \/ CodeGpt(p)
                 \/ \E n \in Given : NameGpt(p, n)
                 \/ \E f \in {0, 1} : FlagsGpt(p, f)
          PROVE  failing' = failing
      BY <3>2, <3>4, SettersSet
    <3>5. CASE NewGpt \/ ZapGpt \/ WipeDosMbr
      BY <3>5, NewStores, ZapStores, WipeStores
    <3>6. CASE WriteGpt \/ WriteGptFails \/ UpdateCrc \/ UpdateCrcFails \/ UpdateBackup
      BY <3>6 DEF WriteGpt, WriteGptFails, UpdateCrc, UpdateCrcFails, UpdateBackup, counters
    <3>7. CASE (\E u \in Units : WriteBack(u)) \/ PrimarySynced \/ SyncFails \/ BackupSynced \/ Fsync
      BY <3>7 DEF WriteBack, PrimarySynced, SyncFails, BackupSynced, Fsync, counters
    <3>8. CASE Blkpg \/ BlkpgFails \/ Rescan \/ RescanStale \/ RescanFails \/ UdevRescan
      BY <3>8 DEF Blkpg, BlkpgFails, Rescan, RescanStale, RescanFails, UdevRescan, counters
    <3>9. CASE Crash \/ UNCHANGED vars
      BY <3>9 DEF Crash, vars
    <3>10. QED
      BY <3>1, <3>2, <3>3, <3>4, <3>5, <3>6, <3>7, <3>8, <3>9 DEF Next
  <2>2. QED
    BY <2>1
<1>q. op.at \in {"idle", "fsync", "blkpg", "rescan"} => Quiet
  BY <1>f DEF DiskInv, At, Quiet
<1>n. (\A n \in Given : n \notin TooLong) /\ (\A f : f \notin failing)
  BY <1>f, NothingTooLong
<1>t. Table(cache.tab) # NoHeader
  BY TableOf DEF Typed, DiskType
<1>1. CASE NewGpt
  BY <1>1, NewStores, EditDisk DEF Shows
<1>2. CASE ZapGpt
  <2>1. op'.kind = "zap" /\ op'.at = "head"
    BY <1>2, ZapStores
  <2>2. QED
    BY <2>1 DEF DiskInv, At
<1>3. CASE WriteGpt
  <2>1. Goto("psync") /\ disk' = disk /\ op.at = "head"
    BY <1>3 DEF WriteGpt, At
  <2>2. /\ op'.kind = op.kind /\ op'.at = "psync" /\ op'.sound = op.sound
        /\ op'.old = op.old /\ op'.backed = op.backed
    BY <2>1, Going DEF Ats
  <2>3. op.kind \in {"new", "zap"}
    BY <1>s, <2>1 DEF Stages, At, Maker
  <2>4. CASE op.kind = "new"
    <3>1. cache'.hdr = Table(cache.tab) /\ cache'.tab = cache.tab
          /\ cache'.bhdr = cache.bhdr /\ cache'.btab = cache.btab
      BY <1>3, <2>4, WriteGptStores DEF Shows
    <3>2. PrimaryOK(cache')
      BY <3>1 DEF PrimaryOK
    <3>3. Untouched
      BY <1>f, <2>1, <2>4 DEF DiskInv, At
    <3>4. Untouched'
      BY <1>t, <2>1, <2>2, <3>1, <3>3 DEF Untouched, BackupOK
    <3>5. QED
      BY <2>2, <2>4, <3>2, <3>4 DEF DiskInv, At
  <2>5. CASE op.kind = "zap"
    <3>1. cache'.hdr = NoHeader
      BY <1>3, <2>5, WriteGptStores DEF Shows
    <3>2. QED
      BY <2>2, <2>5, <3>1 DEF DiskInv, At
  <2>6. QED
    BY <2>3, <2>4, <2>5
<1>4. CASE WriteGptFails
  BY <1>4, <1>n DEF WriteGptFails
<1>5. ASSUME NEW e \in Extents, NEW n \in Given, AddGpt(e, n)
      PROVE  DiskInv'
  BY <1>5, AddStores, EditDisk DEF Shows
<1>6. ASSUME NEW e \in Extents, NEW n \in Given, AddGptFails(e, n)
      PROVE  DiskInv'
  <2>1. cache' = cache /\ disk' = disk /\ op'.at = "idle" /\ op.at = "idle"
    BY <1>6, <1>n, AddFailsStores
  <2>2. QED
    BY <1>q, <2>1, QuietStays, QuietDisk
<1>7. ASSUME NEW p \in Slots, DelGpt(p)
      PROVE  DiskInv'
  BY <1>7, DelStores, EditDisk DEF Shows
<1>8. ASSUME NEW p \in Slots, Sets(p)
      PROVE  DiskInv'
  BY <1>8, SetsStores, EditDisk DEF Shows
<1>9. ASSUME NEW p \in Slots, CodeGptRefused(p)
      PROVE  DiskInv'
  BY <1>9, RefusedStores, EditDisk
<1>10. ASSUME NEW p \in Slots, NEW n \in Given, NameGptFails(p, n)
       PROVE  DiskInv'
  BY <1>10, <1>n, NameFailsStores
<1>11. CASE WipeDosMbr
  BY <1>11, <1>q, WipeStores, QuietMbr, QuietDisk
<1>12. CASE UpdateCrc
  <2>1. Goto("copy") /\ disk' = disk /\ op.at = "crc"
    BY <1>12 DEF UpdateCrc, At
  <2>2. /\ op'.kind = op.kind /\ op'.at = "copy" /\ op'.sound = op.sound
        /\ op'.old = op.old /\ op'.backed = op.backed
    BY <2>1, Going DEF Ats
  <2>3. cache'.hdr = Table(cache.tab) /\ cache'.tab = cache.tab
        /\ cache'.bhdr = cache.bhdr /\ cache'.btab = cache.btab
    BY <1>12, CrcStores DEF Shows
  <2>4. op.kind # "zap"
    BY <1>s, <2>1 DEF Stages, At, Setter, Mover
  <2>5. Untouched
    BY <1>f, <2>1, <2>4 DEF DiskInv, At
  <2>6. Untouched' /\ PrimaryOK(cache')
    BY <1>t, <2>1, <2>2, <2>3, <2>5 DEF Untouched, BackupOK, PrimaryOK
  <2>7. QED
    BY <2>2, <2>4, <2>6 DEF DiskInv, At
<1>13. CASE UpdateCrcFails
  <2>1. /\ op' = Idle /\ cache' = cache /\ disk' = disk
        /\ op.at = "crc" /\ cache.hdr = NoHeader
    BY <1>13 DEF UpdateCrcFails, Fail, At
  <2>2. op.kind # "zap"
    BY <1>s, <2>1 DEF Stages, At, Setter, Mover
  <2>3. Quiet
    BY <1>f, <2>1, <2>2 DEF DiskInv, At, Untouched, Quiet, Settled
  <2>4. QED
    BY <2>1, <2>3, QuietStays, QuietDisk, Idling
<1>14. CASE UpdateBackup
  <2>1. Goto("sync") /\ disk' = disk /\ op.at = "copy"
    BY <1>14 DEF UpdateBackup, At
  <2>2. /\ op'.kind = op.kind /\ op'.at = "sync" /\ op'.sound = op.sound
        /\ op'.old = op.old
    BY <2>1, Going DEF Ats
  <2>3. CASE op.kind = "zap"
    <3>1. cache'.hdr = cache.hdr /\ cache'.tab = cache.tab /\ cache'.bhdr = NoHeader
          /\ cache'.btab = NoTable
      BY <1>14, <2>3, UpdateBackupStores DEF Shows
    <3>2. cache.hdr = NoHeader /\ disk.hdr = cache.hdr /\ disk.tab = cache.tab
      BY <1>f, <2>1, <2>3 DEF DiskInv, At
    <3>3. QED
      BY <2>1, <2>2, <2>3, <3>1, <3>2 DEF DiskInv, At
  <2>4. CASE op.kind # "zap"
    <3>1. cache'.hdr = cache.hdr /\ cache'.tab = cache.tab /\ Backup'
      BY <1>14, <2>4, UpdateBackupStores DEF Shows, Backup
    <3>2. PrimaryOK(cache) /\ Untouched
      BY <1>f, <2>1, <2>4 DEF DiskInv, At
    <3>3. PrimaryOK(cache')
      BY <3>1, <3>2 DEF PrimaryOK
    <3>4. op'.sound /\ BackupOK(disk') => disk'.btab = op'.old
      BY <2>1, <2>2, <3>2 DEF Untouched, BackupOK
    <3>5. QED
      BY <2>2, <2>4, <3>1, <3>3, <3>4 DEF DiskInv, At
  <2>5. QED
    BY <2>3, <2>4
<1>15. ASSUME NEW u \in Units, WriteBack(u)
       PROVE  DiskInv'
  <2>1. cache' = cache /\ op' = op /\ disk[u] # cache[u]
    BY <1>15 DEF WriteBack
  <2>2. CASE op.at \in {"idle", "fsync", "blkpg", "rescan"}
    BY <1>15, <1>q, <2>1, <2>2, QuietWriteBack, QuietDisk
  <2>3. CASE op.at \in {"head", "crc", "psync", "copy"} /\ op.kind # "zap"
    <3>1. Untouched /\ (op.at \in {"psync", "copy"} => PrimaryOK(cache))
      BY <1>f, <2>3 DEF DiskInv, At
    <3>2. Untouched'
      BY <1>15, <3>1, UntouchedWriteBack
    <3>3. QED
      BY <2>1, <2>3, <3>1, <3>2 DEF DiskInv, At
  <2>4. CASE op.at \in {"head", "crc", "psync", "copy"} /\ op.kind = "zap"
    <3>1. op.at \in {"psync", "copy"} => cache.hdr = NoHeader
      BY <1>f, <2>4 DEF DiskInv, At
    <3>2. ASSUME op.at = "copy"
          PROVE  disk'.hdr = cache.hdr /\ disk'.tab = cache.tab
      <4>1. disk.hdr = cache.hdr /\ disk.tab = cache.tab
        BY <1>f, <2>4, <3>2 DEF DiskInv, At
      <4>2. QED
        BY <1>15, <4>1, WriteBackStores DEF Shows, Units
    <3>3. QED
      BY <2>1, <2>4, <3>1, <3>2 DEF DiskInv, At
  <2>5. CASE op.at = "sync" /\ op.kind = "zap"
    <3>1. /\ cache.hdr = NoHeader /\ disk.hdr = cache.hdr /\ disk.tab = cache.tab
          /\ cache.bhdr = NoHeader /\ cache.btab = NoTable
      BY <1>f, <2>5 DEF DiskInv, At
    <3>2. disk'.hdr = cache.hdr /\ disk'.tab = cache.tab
      BY <1>15, <3>1, WriteBackStores DEF Shows, Units
    <3>3. QED
      BY <2>1, <2>5, <3>1, <3>2 DEF DiskInv, At
  <2>6. CASE op.at = "sync" /\ op.kind # "zap"
    <3>1. /\ PrimaryOK(cache) /\ Backup
          /\ op.sound /\ BackupOK(disk) => disk.btab \in {op.old, Table(cache.tab)}
      BY <1>f, <2>6 DEF DiskInv, At
    <3>2. op.sound /\ BackupOK(disk') => disk'.btab \in {op.old, Table(cache.tab)}
      BY <1>15, <3>1, SyncWriteBack
    <3>3. Backup'
      BY <2>1, <3>1 DEF Backup
    <3>4. QED
      BY <2>1, <2>6, <3>1, <3>2, <3>3 DEF DiskInv, At
  <2>7. op.at \in {"idle", "head", "psync", "crc", "copy", "sync", "fsync", "blkpg", "rescan"}
    BY OpParts DEF Ats
  <2>8. QED
    BY <2>2, <2>3, <2>4, <2>5, <2>6, <2>7
<1>16. CASE PrimarySynced
  <2>1. Goto("copy") /\ cache' = cache /\ disk' = disk /\ op.at = "psync" /\ Synced(Syncing)
    BY <1>16 DEF PrimarySynced, At
  <2>2. /\ op'.kind = op.kind /\ op'.at = "copy" /\ op'.sound = op.sound
        /\ op'.old = op.old /\ op'.backed = op.backed
    BY <2>1, Going DEF Ats
  <2>3. Syncing = {"mbr", "hdr", "tab"}
    BY <2>1 DEF Syncing, At
  <2>4. disk.hdr = cache.hdr /\ disk.tab = cache.tab
    BY <2>1, <2>3 DEF Synced
  <2>5. CASE op.kind = "zap"
    <3>1. cache.hdr = NoHeader
      BY <1>f, <2>1, <2>5 DEF DiskInv, At
    <3>2. QED
      BY <2>1, <2>2, <2>4, <2>5, <3>1 DEF DiskInv, At
  <2>6. CASE op.kind # "zap"
    <3>1. PrimaryOK(cache) /\ Untouched
      BY <1>f, <2>1, <2>6 DEF DiskInv, At
    <3>2. PrimaryOK(cache') /\ Untouched'
      BY <2>1, <2>2, <3>1 DEF PrimaryOK, Untouched, BackupOK
    <3>3. QED
      BY <2>2, <2>6, <3>2 DEF DiskInv, At
  <2>7. QED
    BY <2>5, <2>6
<1>17. CASE SyncFails
  BY <1>17, <1>n DEF SyncFails
<1>18. CASE BackupSynced
  <2>1. cache' = cache /\ disk' = disk /\ op.at = "sync" /\ Synced(Syncing)
    BY <1>18 DEF BackupSynced, At
  <2>2. Syncing = {"bhdr", "btab"}
    BY <2>1 DEF Syncing, At
  <2>3. disk.bhdr = cache.bhdr /\ disk.btab = cache.btab
    BY <2>1, <2>2 DEF Synced
  <2>4. Quiet
    <3>1. CASE op.kind = "zap"
      BY <1>f, <2>1, <2>3, <3>1 DEF DiskInv, At, Quiet, Settled
    <3>2. CASE op.kind # "zap"
      BY <1>f, <2>1, <2>3, <3>2 DEF DiskInv, At, Quiet, BackedUp
    <3>3. QED
      BY <3>1, <3>2
  <2>5. Quiet'
    BY <2>1, <2>4, QuietStays
  <2>6. op'.at \in {"idle", "fsync"}
    <3>1. CASE op.kind \in {"new", "zap", "add", "del"}
      BY <1>18, <3>1, Going DEF BackupSynced, Ats
    <3>2. CASE op.kind \notin {"new", "zap", "add", "del"}
      BY <1>18, <3>2, Idling DEF BackupSynced, Finish
    <3>3. QED
      BY <3>1, <3>2
  <2>7. QED
    BY <2>5, <2>6, QuietDisk
<1>19. CASE Fsync
  <2>1. cache' = cache /\ disk' = disk /\ op.at = "fsync"
        /\ Goto(IF op.kind \in {"add", "del"} THEN "blkpg" ELSE "rescan")
    BY <1>19 DEF Fsync, At
  <2>2. op'.at \in {"blkpg", "rescan"}
    BY <2>1, Going DEF Ats
  <2>3. QED
    BY <1>q, <2>1, <2>2, QuietStays, QuietDisk
<1>20. CASE Blkpg
  <2>1. cache' = cache /\ disk' = disk /\ op.at = "blkpg" /\ Goto("rescan")
    BY <1>20 DEF Blkpg, At
  <2>2. op'.at = "rescan"
    BY <2>1, Going DEF Ats
  <2>3. QED
    BY <1>q, <2>1, <2>2, QuietStays, QuietDisk
<1>21. ASSUME cache' = cache, disk' = disk, op.at \in {"blkpg", "rescan"}, op' = Idle
       PROVE  DiskInv'
  BY <1>q, <1>21, QuietStays, QuietDisk, Idling
<1>22. CASE BlkpgFails \/ Rescan \/ RescanStale \/ RescanFails
  BY <1>21, <1>22 DEF BlkpgFails, Fail, Rescan, RescanStale, RescanFails, At
<1>23. CASE UdevRescan
  <2>1. cache' = cache /\ disk' = disk /\ op.at = "idle" /\ op' = op
    BY <1>23 DEF UdevRescan, At
  <2>2. QED
    BY <1>q, <2>1, QuietStays, QuietDisk
<1>24. CASE Crash
  <2>1. cache' = disk /\ disk' = disk /\ op' = Idle
    BY <1>24 DEF Crash
  <2>2. Quiet'
    BY <2>1 DEF Quiet, Settled
  <2>3. QED
    BY <2>1, <2>2, QuietDisk, Idling
<1>25. CASE UNCHANGED vars
  <2>1. cache' = cache /\ disk' = disk /\ op' = op /\ failing' = failing
    BY <1>25 DEF vars
  <2>2. QED
    BY <2>1 DEF DiskInv, At, BackedUp, Settled, Untouched, PrimaryOK, BackupOK, Backup
<1>26. ASSUME NEW p \in Slots,
              \/ UuidGpt(p) \/ CodeGpt(p)
              \/ \E n \in Given : NameGpt(p, n)
              \/ \E f \in {0, 1} : FlagsGpt(p, f)
       PROVE  DiskInv'
  BY <1>26, <1>8, SettersSet
<1>27. QED
  BY <1>1, <1>2, <1>3, <1>4, <1>5, <1>6, <1>7, <1>9, <1>10, <1>11, <1>12, <1>13, <1>14, <1>15,
     <1>16, <1>17, <1>18, <1>19, <1>20, <1>22, <1>23, <1>24, <1>25, <1>26
     DEF Next

\* Between operations what is written back is the table, or makes no difference.
LEMMA QuietRecovers ==
  ASSUME Typed, Quiet, NEW u \in Units, WriteBack(u)
  PROVE  Recovered' \in {Recovered, Table(cache.tab)}
<1>1. u = "mbr" => Recovered' = Recovered
  BY WriteBackStores DEF Shows, Recovered, Found, PrimaryOK, BackupOK
<1>2. CASE BackedUp
  <2>1. disk'.bhdr = Table(cache.tab) /\ disk'.btab = Table(cache.tab)
    BY <1>2, WriteBackStores DEF Units, Shows, BackedUp, Backup
  <2>2. u = "hdr" => disk'.hdr = Table(cache.tab)
    BY <1>2, WriteBackStores DEF Shows, BackedUp, PrimaryOK
  <2>3. u = "tab" => Table(disk'.tab) = Table(cache.tab)
    BY WriteBackStores DEF Shows
  <2>4. u \in {"bhdr", "btab"} => disk[u] = cache[u]
    BY <1>2 DEF BackedUp
  <2>5. u \in {"mbr", "hdr", "tab"}
    BY <2>4 DEF WriteBack, Units
  <2>6. CASE u \in {"hdr", "tab"}
    <3>1. PrimaryOK(disk') => Table(disk'.tab) = Table(cache.tab)
      BY <2>2, <2>3, <2>6 DEF PrimaryOK
    <3>2. QED
      BY <2>1, <3>1 DEF Recovered, Found, BackupOK
  <2>7. QED
    BY <1>1, <2>5, <2>6
<1>3. CASE Settled
  <2>1. u \in {"mbr", "tab"} /\ (u = "tab" => cache.hdr = NoHeader)
    BY <1>3 DEF WriteBack, Units, Settled
  <2>2. CASE u = "tab"
    <3>1. disk'.hdr = NoHeader /\ disk.hdr = NoHeader
          /\ disk'.bhdr = disk.bhdr /\ disk'.btab = disk.btab
      BY <1>3, <2>1, <2>2, WriteBackStores DEF Shows, Settled
    <3>2. ~PrimaryOK(disk) /\ ~PrimaryOK(disk')
      BY <3>1, WriteBackStores, TableOf DEF PrimaryOK, Typed, DiskType
    <3>3. QED
      BY <3>1, <3>2 DEF Recovered, Found, BackupOK
  <2>3. QED
    BY <1>1, <2>1, <2>2
<1>4. QED
  BY <1>2, <1>3 DEF Quiet

LEMMA DurableStep ==
  ASSUME Typed, DiskInv, [Next]_vars, failing = {}, op.sound, op.kind # "zap"
  PROVE  /\ Recovered' \in {Recovered, op.old, Table(cache.tab), NoHeader}
         /\ Recovered' = NoHeader => Recovered = NoHeader \/ At("sync") \/ ~op.backed
         /\ At("sync") /\ ~At("sync")' /\ crashes' = crashes => Recovered' # NoHeader
<1> DEFINE Durable ==
      /\ Recovered' \in {Recovered, op.old, Table(cache.tab), NoHeader}
      /\ Recovered' = NoHeader => Recovered = NoHeader \/ At("sync") \/ ~op.backed
      /\ At("sync") /\ ~At("sync")' /\ crashes' = crashes => Recovered' # NoHeader
<1>t. Table(cache.tab) # NoHeader /\ Table(disk.tab) # NoHeader
  BY TableOf DEF Typed, DiskType
<1>0. ASSUME disk' = disk
      PROVE  Recovered' = Recovered
  BY <1>0 DEF Recovered, Found, PrimaryOK, BackupOK
<1>1. ASSUME disk' = disk, op.at # "sync"
      PROVE  Durable
  BY <1>0, <1>1 DEF At
<1>2. ASSUME NEW u \in Units, WriteBack(u)
      PROVE  Durable
  <2>1. op' = op
    BY <1>2 DEF WriteBack
  <2>2. CASE op.at \in {"idle", "fsync", "blkpg", "rescan"}
    <3>1. Quiet
      BY <2>2 DEF DiskInv, At, Quiet
    <3>2. Recovered' \in {Recovered, Table(cache.tab)}
      BY <1>2, <3>1, QuietRecovers
    <3>3. QED
      BY <1>t, <2>2, <3>2 DEF At
  <2>3. CASE op.at \in {"head", "crc", "psync", "copy"}
    <3>1. Untouched
      BY <2>3 DEF DiskInv, At
    <3>2. \/ Recovered' \in {Recovered, op.old, Table(cache.tab)}
          \/ Recovered' = NoHeader /\ ~op.backed
      BY <1>2, <3>1, UntouchedWriteBack
    <3>3. op.backed => op.old # NoHeader
      <4>1. op.backed => disk.btab = op.old /\ disk.btab \in [Slots -> Entry]
        BY <3>1, DiskParts DEF Untouched, Typed, DiskType
      <4>2. QED
        BY <4>1, HeaderIsNone
    <3>4. QED
      BY <1>t, <2>3, <3>2, <3>3 DEF At
  <2>4. CASE op.at = "sync"
    <3>1. /\ PrimaryOK(cache) /\ Backup
          /\ BackupOK(disk) => disk.btab \in {op.old, Table(cache.tab)}
      BY <2>4 DEF DiskInv, At
    <3>2. Recovered' \in {Recovered, op.old, Table(cache.tab), NoHeader}
      BY <1>2, <3>1, SyncWriteBack
    <3>3. QED
      BY <2>1, <2>4, <3>2 DEF At
  <2>5. op.at \in {"idle", "head", "psync", "crc", "copy", "sync", "fsync", "blkpg", "rescan"}
    BY OpParts DEF Ats
  <2>6. QED
    BY <2>2, <2>3, <2>4, <2>5
<1>3. ASSUME NEW e \in Extents, NEW n \in Given, AddGpt(e, n) \/ AddGptFails(e, n)
      PROVE  Durable
  <2>1. disk' = disk /\ op.at = "idle"
    BY <1>3 DEF AddGpt, AddGptFails, Begin, At
  <2>2. QED
    BY <1>1, <2>1
<1>4. ASSUME NEW p \in Slots,
             \/ DelGpt(p) \/ UuidGpt(p) \/ CodeGpt(p) \/ CodeGptRefused(p)
             \/ \E n \in Given : NameGpt(p, n) \/ NameGptFails(p, n)
             \/ \E f \in {0, 1} : FlagsGpt(p, f)
      PROVE  Durable
  <2>1. disk' = disk /\ op.at = "idle"
    BY <1>4 DEF DelGpt, UuidGpt, CodeGpt, CodeGptRefused, NameGpt, NameGptFails, FlagsGpt, Edit,
                Begin, At
  <2>2. QED
    BY <1>1, <2>1
<1>5. CASE NewGpt \/ ZapGpt \/ WipeDosMbr \/ WriteGpt \/ WriteGptFails
  <2>1. disk' = disk /\ op.at \in {"idle", "head"}
    BY <1>5 DEF NewGpt, ZapGpt, WipeDosMbr, WriteGpt, WriteGptFails, Begin, At
  <2>2. QED
    BY <1>1, <2>1
<1>6. CASE UpdateCrc \/ UpdateCrcFails \/ UpdateBackup \/ PrimarySynced \/ Fsync
  <2>1. disk' = disk /\ op.at \in {"crc", "copy", "psync", "fsync"}
    BY <1>6 DEF UpdateCrc, UpdateCrcFails, UpdateBackup, PrimarySynced, Fsync, At
  <2>2. QED
    BY <1>1, <2>1
<1>7. CASE SyncFails
  BY <1>7, NothingTooLong DEF SyncFails
<1>8. CASE BackupSynced
  <2>1. disk' = disk /\ op.at = "sync" /\ Synced(Syncing)
    BY <1>8 DEF BackupSynced, At
  <2>2. Syncing = {"bhdr", "btab"}
    BY <2>1 DEF Syncing, At
  <2>3. disk.bhdr = cache.bhdr /\ disk.btab = cache.btab /\ Backup
    BY <2>1, <2>2 DEF Synced, DiskInv, At
  <2>4. Recovered # NoHeader
    BY <1>t, <2>3 DEF Recovered, Found, Backup, BackupOK
  <2>5. QED
    BY <1>0, <2>1, <2>4
<1>9. CASE Blkpg \/ BlkpgFails \/ Rescan \/ RescanStale \/ RescanFails \/ UdevRescan
  <2>1. disk' = disk /\ op.at \in {"blkpg", "rescan", "idle"}
    BY <1>9 DEF Blkpg, BlkpgFails, Rescan, RescanStale, RescanFails, UdevRescan, At
  <2>2. QED
    BY <1>1, <2>1
<1>10. CASE Crash
  <2>1. disk' = disk /\ crashes' = crashes + 1
    BY <1>10 DEF Crash
  <2>2. crashes' # crashes
    BY <2>1 DEF Typed
  <2>3. QED
    BY <1>0, <2>1, <2>2
<1>11. CASE UNCHANGED vars
  <2>1. disk' = disk /\ op' = op
    BY <1>11 DEF vars
  <2>2. QED
    BY <1>0, <2>1 DEF At
<1>12. QED
  BY <1>2, <1>3, <1>4, <1>5, <1>6, <1>7, <1>8, <1>9, <1>10, <1>11 DEF Next

\* Whatever the kernel writes back, whenever and in whatever order, and wherever
\* power fails: an operation that began with copies of one table leaves on the
\* platters the table it began on or the one intended, never a mixture; and none at
\* all only while it syncs the backup, or where the backup was torn before.
THEOREM OperationsDurable == Spec => DurableAtomically
<1>1. Typed /\ [Next]_vars => Typed'
  BY TypedStep
<1>2. Typed /\ DiskInv /\ [Next]_vars => DiskInv'
  BY DiskStep
<1>3. Spec => [](Typed /\ DiskInv)
  BY <1>1, <1>2, InitTyped, InitDisk, PTL DEF Spec
<1>4. Typed /\ DiskInv /\ [Next]_vars =>
        [failing = {} /\ op.sound /\ op.kind # "zap" =>
           /\ Recovered' \in {Recovered, op.old, Table(cache.tab), NoHeader}
           /\ Recovered' = NoHeader => Recovered = NoHeader \/ At("sync") \/ ~op.backed
           /\ At("sync") /\ ~At("sync")' /\ crashes' = crashes => Recovered' # NoHeader]_vars
  BY DurableStep
<1>5. QED
  BY <1>3, <1>4, PTL DEF Spec, DurableAtomically
====
