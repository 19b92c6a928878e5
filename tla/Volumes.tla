------------------------------- MODULE Volumes -------------------------------
(***************************************************************************)
(* Disks, their partitions and what is on them, and what growlight does to *)
(* them for its two interfaces: ptable.c with the tables of msdos.c, gpt.c *)
(* and apm.c, mbr.c, fs.c, swap.c, mounts.c.  "disk" is what the kernel    *)
(* has, "rec" what growlight last read of it.                              *)
(*                                                                         *)
(* A command holds the growlight lock and is one step; the kernel and the  *)
(* programs it runs may refuse, a scan may fail, and /proc/mounts may be   *)
(* read in part.  Other processes act as well, and udev, /proc/mounts and  *)
(* /proc/swaps tell the event thread.                                      *)
(***************************************************************************)
EXTENDS Zones, FiniteSets

CONSTANTS
  Dev,        \* names of disks
  Start,      \* the disks growlight may find
  MaxChanges  \* bound on what changes the disks

VARIABLES
  disk,     \* each disk, as the kernel has it
  rec,      \* each disk, as growlight has recorded it
  unread,   \* mounts the records lack: left out when /proc/mounts was last read, or
            \* dropped with their disk since
  uevents,  \* disks udev has something to say about
  proc,     \* which of "mounts" and "swaps" have changed
  phase,    \* growlight: "up", "down" or "crashed"
  changes,
  front     \* the interface growlight was started with: "screen", or "line"

volumeVars == <<disk, rec, unread, uevents, proc, phase, changes>>

Whole == <<>>  \* a volume is a disk or, by its sectors, a partition of it

(***************************************************************************)
(* The use of a volume: the file system on it (mnttype), where it is       *)
(* mounted (mnt), "/" standing for any path outside of the target and "/t" *)
(* for one inside, and its priority as swap.                               *)
(***************************************************************************)
Use == [fs : {"none", "ext4", "swap"}, at : {"", "/", "/t"},
        prio : {"invalid", "inactive", "on"}]
Tables == {"gone", "unloaded", "none", "gpt", "dos", "mac"}
Fresh(fs, prio) == [fs |-> fs, at |-> "", prio |-> prio]
Blank == Fresh("none", "invalid")
Gone == [table |-> "gone", parts |-> <<>>, whole |-> Blank]

\* What the kernel lets be: only a file system is mounted, only swap has a priority.
RealUse == {u \in Use : /\ u.at # "" => u.fs = "ext4"
                        /\ u.prio # "invalid" => u.fs = "swap"}

Shaped(r, U) ==
  /\ r = [table |-> r.table, parts |-> r.parts, whole |-> r.whole]
  /\ r.table \in Tables
  /\ r.whole \in U
  /\ r.parts = [e \in DOMAIN r.parts |-> r.parts[e]]
  /\ \A e \in DOMAIN r.parts : e # Whole /\ e[1] <= e[2] /\ r.parts[e] \in U

Possible(t) == Shaped(t, RealUse) /\ (t.table = "gone" => t = Gone)

\* Partitions that are on the disk, none of them over another.
Laid(d, P) ==
  /\ \A e \in P : e \in (0 .. Size[d] - 1) \X (0 .. Size[d] - 1) /\ e[1] <= e[2]
  /\ \A e, x \in P : e = x \/ e[2] < x[1] \/ x[2] < e[1]

ASSUME DisksAssumption ==
  /\ IsFiniteSet(Dev)
  /\ Size \in [Dev -> Nat] /\ First \in [Tables -> Nat]

ASSUME StartAssumption ==
  \A s \in Start : /\ s = [d \in Dev |-> s[d]]
                  /\ \A d \in Dev : Possible(s[d]) /\ Laid(d, DOMAIN s[d].parts)

Busy(u) == u.at # "" \/ u.prio = "on"

Volumes(d) == {Whole} \cup DOMAIN rec[d].parts
UseOf(r, v) == IF v = Whole THEN r.whole ELSE r.parts[v]
WithUse(r, v, u) == IF v = Whole THEN [r EXCEPT !.whole = u] ELSE [r EXCEPT !.parts[v] = u]
With(parts, e, u) == [x \in DOMAIN parts \cup {e} |-> IF x = e THEN u ELSE parts[x]]
Less(parts, e) == [x \in DOMAIN parts \ {e} |-> parts[x]]
InUse(r) == Busy(r.whole) \/ \E e \in DOMAIN r.parts : Busy(r.parts[e])

Present(d) == disk[d].table # "gone"
Known(d) == rec[d].table # "gone"
There(d, v) == Present(d) /\ (v = Whole \/ v \in DOMAIN disk[d].parts)

(***************************************************************************)
(* rescan: the partitions are dropped and read again, those of a disk with *)
(* no table eliminated.  A swap is recorded as inactive (probe_blkid_      *)
(* superblock), whatever its priority was.                                 *)
(***************************************************************************)
Signed(fs) == Fresh(fs, IF fs = "swap" THEN "inactive" ELSE "invalid")
Probed(u) == Signed(u.fs)

View(r) ==
  LET kept == IF r.table \in {"none", "unloaded"} THEN {} ELSE DOMAIN r.parts
  IN  [table |-> r.table, parts |-> [e \in kept |-> Probed(r.parts[e])], whole |-> Probed(r.whole)]

\* handle_mount: a file system other than the one on record replaces it, if there is
\* one on record.
MountedUse(u, t) == [u EXCEPT !.at = t.at, !.fs = IF t.at # "" /\ @ # "none" THEN t.fs ELSE @]

\* clear_mounts and parse_mounts, where the lines of the volumes V of a disk are read.
Mounted(r, t, V) ==
  [table |-> r.table,
   parts |-> [e \in DOMAIN r.parts |-> MountedUse(r.parts[e], IF e \in V THEN t.parts[e] ELSE Blank)],
   whole |-> MountedUse(r.whole, IF Whole \in V THEN t.whole ELSE Blank)]

\* lookup_device discovers a disk that has no record, but no partition of one:
\* explore_sysfs_node does not recurse on it.
Discovered(r, t) == IF r.table = "gone" THEN View(t) ELSE r

MountsOf(d, t) == {<<d, v>> : v \in {x \in {Whole} \cup DOMAIN t.parts : UseOf(t, x).at # ""}}
Lines(truth) == UNION {MountsOf(d, truth[d]) : d \in Dev}

FoundIn(records, truth, d, L) ==
  IF <<d, Whole>> \in L THEN Discovered(records[d], truth[d]) ELSE records[d]

Reparsed(records, truth, L) ==
  [d \in Dev |-> Mounted(FoundIn(records, truth, d, L), truth[d],
                         {v \in {Whole} \cup DOMAIN truth[d].parts : <<d, v>> \in L})]

(***************************************************************************)
(* The lines parse_mounts may come to read: it stops at the first it       *)
(* cannot parse, and skips those it cannot stat and those whose volume it  *)
(* does not find.                                                          *)
(***************************************************************************)
Readings(records, truth) ==
  {L \in SUBSET Lines(truth) :
     \A l \in L : l[2] = Whole \/ l[2] \in DOMAIN FoundIn(records, truth, l[1], L).parts}

Parse(records, truth) ==
  \E L \in Readings(records, truth) :
    /\ rec' = Reparsed(records, truth, L)
    /\ unread' = Lines(truth) \ L

\* A disk is freed, with its list of mounts.
Drop(d) ==
  /\ rec' = [rec EXCEPT ![d] = Gone]
  /\ unread' = unread \cup MountsOf(d, disk'[d])

\* Mutant: the mounts are not read again.
RescanAlone(d) == rec' = [rec EXCEPT ![d] = View(disk'[d])] /\ unread' = unread

(***************************************************************************)
(* rescan_blockdev, where the disk is still there: the kernel may refuse   *)
(* it; the scan of the disk or of one of its partitions may fail, and the  *)
(* disk is dropped; or it is read, and then all mounts are read again.     *)
(***************************************************************************)
Rescan(d) ==
  \/ UNCHANGED <<rec, unread>>
  \/ Drop(d)
  \/ Parse([rec EXCEPT ![d] = View(disk'[d])], disk')

\* A callback of the full-screen interface names the disk afterwards, though it may
\* have been freed.
Names(d) == phase' = phase \/ (rec'[d] = Gone /\ front = "screen" /\ phase' = "crashed")

Change == changes < MaxChanges /\ changes' = changes + 1
Tell(d) == uevents' = uevents \cup {d}
Refused == UNCHANGED volumeVars

VolumesInit ==
  /\ disk \in Start
  /\ \E scanned \in SUBSET Dev :
       LET records == [d \in Dev |-> IF d \in scanned THEN View(disk[d]) ELSE Gone]
       IN  \E L \in Readings(records, disk) :
             /\ rec = Reparsed(records, disk, L)
             /\ unread = Lines(disk) \ L
  /\ uevents = {} /\ proc = {}
  /\ phase = "up"
  /\ changes = 0

-----------------------------------------------------------------------------
(***************************************************************************)
(* Partition tables (ptable.c).  The tables "gpt" and "dos" can do all     *)
(* that this model tells apart; "apm" is detected as "mac", which ptable.c *)
(* does not know; "mdp" can do nothing.                                    *)
(***************************************************************************)
Creatable == {"gpt", "dos", "apm"}
Detected(pty) == IF pty = "apm" THEN "mac" ELSE pty
Supported == {"gpt", "dos"}
Named == {"gpt"}
MSDOS_ENTRIES == 4

\* The partitions the kernel has after BLKRRPART, which may not be reached and is
\* refused while one is in use.
Reread(t) == {t.parts} \cup IF InUse(t) THEN {} ELSE {<<>>}

\* make_partition_table calls through make without looking: it is null for "mdp".
MakePartitionTable(d, pty) ==
  /\ rec[d].table = "none" /\ rec[d].whole.fs = "none"
  /\ IF pty = "mdp" THEN phase' = "crashed" /\ UNCHANGED <<disk, rec, unread, uevents, proc, changes>>
     ELSE /\ Present(d) /\ disk[d].table # "unloaded"
          /\ Change
          /\ \E kept \in Reread(disk[d]) :
               disk' = [disk EXCEPT ![d] = [@ EXCEPT !.table = Detected(pty), !.parts = kept]]
          /\ Rescan(d) /\ Names(d) /\ Tell(d)
          /\ UNCHANGED proc

\* Mutant: the partitions are not looked at.
MountsOfDisk(d) == rec[d].whole.at # ""
MountsUnder(d) ==
  rec[d].whole.at # "" \/ \E e \in DOMAIN rec[d].parts : rec[d].parts[e].at # ""

\* What a disk may have after the zap of the table on record: both tables need the
\* end of the first sector, an Apple map the second; and a GPT's is where a file system
\* on the whole disk begins.
Zapped(pty, t) ==
  IF t.table = "mac" /\ pty = "dos" THEN {t}
  ELSE {[table |-> "none", parts |-> kept,
         whole |-> IF pty = "gpt" /\ ~InUse(t) THEN Blank ELSE t.whole] : kept \in Reread(t)}

\* zap goes by the record, whatever is on the disk by now.
WipePtable(d) ==
  /\ ~MountsUnder(d)
  /\ rec[d].table \in Supported
  /\ Present(d) /\ disk[d].table # "unloaded"
  /\ Change
  /\ \E t \in Zapped(rec[d].table, disk[d]) : disk' = [disk EXCEPT ![d] = t]
  /\ Rescan(d) /\ Tell(d)
  /\ UNCHANGED <<proc, phase>>

\* Mutant: their order is not looked at.
OfferedUnordered(d, f, l) == l <= LastUsable(d) /\ f >= FirstUsable(rec[d])
Offered(d, f, l) == f <= l /\ l <= LastUsable(d) /\ f >= FirstUsable(rec[d])

\* What was in the sectors comes to light again.
AddPartition(d, named, f, l) ==
  /\ Offered(d, f, l)
  /\ rec[d].table \in Supported /\ (named => rec[d].table \in Named)
  /\ Present(d) /\ disk[d].table = rec[d].table
  /\ disk[d].table = "dos" => Cardinality(DOMAIN disk[d].parts) < MSDOS_ENTRIES
  /\ \A e \in DOMAIN disk[d].parts : l < e[1] \/ e[2] < f
  /\ Change
  /\ \E u \in {Blank, Fresh("ext4", "invalid")} :
       disk' = [disk EXCEPT ![d].parts = With(@, <<f, l>>, u)]
  /\ Rescan(d) /\ Names(d) /\ Tell(d)
  /\ UNCHANGED proc

\* The kernel does not let go of a partition that is in use, and refuses the rescan,
\* as a partition's sysfs entry has no file for it.  Of a disk, the parent of the
\* "partition" is read before the layout is looked at.
WipePartition(d, v) ==
  IF v = Whole
  THEN phase' = "crashed" /\ UNCHANGED <<disk, rec, unread, uevents, proc, changes>>
  ELSE /\ rec[d].table \in Supported
       /\ There(d, v) /\ ~Busy(disk[d].parts[v])
       /\ Change
       /\ disk' = [disk EXCEPT ![d].parts = Less(@, v)]
       /\ Tell(d)
       /\ UNCHANGED <<rec, unread, proc, phase>>

\* wipe_dosmbr: the first sector, of which every table needs something.
WipeDosmbr(d) ==
  /\ Present(d) /\ disk[d].table # "unloaded"
  /\ Change
  /\ disk' = [disk EXCEPT ![d].table = "none"]
  /\ Rescan(d) /\ Tell(d)
  /\ UNCHANGED <<proc, phase>>

\* rescan_blockdev, also wipe_biosboot, which spares the table.
Rescanned(d) ==
  /\ Present(d)
  /\ disk' = disk /\ Rescan(d)
  /\ UNCHANGED <<uevents, proc, phase, changes>>

-----------------------------------------------------------------------------
(***************************************************************************)
(* File systems (fs.c), swap (swap.c) and mounts (mounts.c).  The programs *)
(* refuse what is in use.                                                  *)
(***************************************************************************)
Fits(d, v, u) == ~Busy(u) /\ (v = Whole => ~InUse(disk[d]))

\* A file system on the whole disk takes the table's place.
Formatted(d, v, type) ==
  disk' = [disk EXCEPT ![d] =
    WithUse(IF v = Whole THEN [@ EXCEPT !.table = "none", !.parts = <<>>] ELSE @,
            v, Signed(type))]

\* The record is not read again; mkfs needs no force where growlight knows of
\* no partition.
MakeFilesystem(d, v, type) ==
  LET u == UseOf(rec[d], v) IN
  /\ u.fs = "none" /\ u.prio # "on"
  /\ v = Whole => DOMAIN rec[d].parts = {}
  /\ There(d, v) /\ disk[d].table # "unloaded" /\ Fits(d, v, UseOf(disk[d], v))
  /\ Change
  /\ Formatted(d, v, type)
  /\ rec' = [rec EXCEPT ![d] = WithUse(@, v, [u EXCEPT !.fs = type])]
  /\ Tell(d)
  /\ UNCHANGED <<unread, proc, phase>>

\* wipefs -a, then a rescan, which a partition's sysfs entry has no file for.
WipeFilesystem(d, v) ==
  /\ UseOf(rec[d], v).fs # "none" /\ UseOf(rec[d], v).at = ""
  /\ There(d, v) /\ disk[d].table # "unloaded" /\ Fits(d, v, UseOf(disk[d], v))
  /\ Change
  /\ Formatted(d, v, "none")
  /\ IF v = Whole THEN Rescan(d) /\ Names(d) ELSE UNCHANGED <<rec, unread, phase>>
  /\ Tell(d)
  /\ UNCHANGED proc

Attached(d, v, path) == disk' = [disk EXCEPT ![d] = WithUse(@, v, [UseOf(@, v) EXCEPT !.at = path])]

Mmount(d, v, path) ==
  /\ There(d, v) /\ UseOf(disk[d], v).fs = "ext4" /\ UseOf(disk[d], v).at # path
  /\ Change
  /\ Attached(d, v, path)
  /\ proc' = proc \cup {"mounts"}
  /\ UNCHANGED <<rec, unread, uevents, phase>>

Unmount(d, v) ==
  /\ UseOf(rec[d], v).at # ""
  /\ There(d, v) /\ UseOf(disk[d], v).at # ""
  /\ Change
  /\ Attached(d, v, "")
  /\ proc' = proc \cup {"mounts"}
  /\ UNCHANGED <<rec, unread, uevents, phase>>

Prioritised(r, v, prio) == WithUse(r, v, Fresh("swap", prio))

\* mkswap, then swapon, which may fail after it.
Swapondev(d, v) ==
  LET u == UseOf(rec[d], v) IN
  /\ u.fs \in {"none", "swap"} /\ u.prio # "on"
  /\ There(d, v) /\ disk[d].table # "unloaded" /\ Fits(d, v, UseOf(disk[d], v))
  /\ v = Whole => disk[d].table = "none"
  /\ Change
  /\ \E prio \in {"inactive", "on"} :
       /\ disk' = [disk EXCEPT ![d] = Prioritised(@, v, prio)]
       /\ rec' = IF prio = "on" THEN [rec EXCEPT ![d] = Prioritised(@, v, "on")] ELSE rec
       /\ proc' = IF prio = "on" THEN proc \cup {"swaps"} ELSE proc
  /\ Tell(d)
  /\ UNCHANGED <<unread, phase>>

Swapoffdev(d, v) ==
  /\ There(d, v) /\ UseOf(disk[d], v).prio = "on"
  /\ Change
  /\ disk' = [disk EXCEPT ![d] = Prioritised(@, v, "inactive")]
  /\ rec' = [rec EXCEPT ![d] = WithUse(@, v, [UseOf(@, v) EXCEPT !.prio = "inactive"])]
  /\ proc' = proc \cup {"swaps"}
  /\ UNCHANGED <<unread, uevents, phase>>

-----------------------------------------------------------------------------
(***************************************************************************)
(* Other processes: a disk is unplugged, or changes in one of the ways the *)
(* kernel allows; and everything that changes is told to somebody.         *)
(***************************************************************************)
TruthVolumes(d) == {Whole} \cup DOMAIN disk[d].parts

\* What the table becomes: another disk is plugged in, or this one out, or first
\* its medium is removed.
Replugged(t) ==
  IF t.table = "gone" THEN "none"
  ELSE IF t.table = "unloaded" \/ InUse(t) THEN "gone" ELSE "unloaded"

OthersPlug(d) ==
  /\ Change
  /\ disk' = [disk EXCEPT ![d] = [Gone EXCEPT !.table = Replugged(disk[d])]]
  /\ Tell(d) /\ proc' = proc \cup {"mounts", "swaps"}
  /\ UNCHANGED <<rec, unread, phase>>

OthersFormat(d, v) ==
  /\ Present(d) /\ disk[d].table # "unloaded"
  /\ Fits(d, v, UseOf(disk[d], v)) /\ (v = Whole => DOMAIN disk[d].parts = {})
  /\ Change
  /\ Formatted(d, v, "ext4") /\ Tell(d)
  /\ UNCHANGED <<rec, unread, proc, phase>>

OthersDelete(d, e) ==
  /\ e # Whole /\ ~Busy(disk[d].parts[e])
  /\ Change
  /\ disk' = [disk EXCEPT ![d].parts = Less(@, e)] /\ Tell(d)
  /\ UNCHANGED <<rec, unread, proc, phase>>

OthersUse(d, v) ==
  LET u == UseOf(disk[d], v) IN
  /\ u.fs # "none"
  /\ Change
  /\ IF u.fs = "ext4"
     THEN Attached(d, v, IF u.at = "" THEN "/" ELSE "") /\ proc' = proc \cup {"mounts"}
     ELSE /\ disk' = [disk EXCEPT ![d] =
               Prioritised(@, v, IF u.prio = "on" THEN "inactive" ELSE "on")]
          /\ proc' = proc \cup {"swaps"}
  /\ UNCHANGED <<rec, unread, uevents, phase>>

-----------------------------------------------------------------------------
(***************************************************************************)
(* The event thread.                                                       *)
(***************************************************************************)
\* rescan_device of a name: the disk is read and all mounts again, or it is
\* discovered, and they are not; or it is let go of, if it is gone or the scan fails.
Uevent(d) ==
  /\ phase = "up" /\ d \in uevents
  /\ uevents' = uevents \ {d}
  /\ UNCHANGED <<disk, proc, phase, changes>>
  /\ LET read == [rec EXCEPT ![d] = View(disk[d])] IN
     \/ Drop(d)
     \/ Present(d) /\ Known(d) /\ Parse(read, disk)
     \/ Present(d) /\ ~Known(d) /\ rec' = read /\ unread' = unread

MountsEvent ==
  /\ phase = "up" /\ "mounts" \in proc
  /\ proc' = proc \ {"mounts"}
  /\ Parse(rec, disk)
  /\ UNCHANGED <<disk, uevents, phase, changes>>

Swapping(r) == {v \in {Whole} \cup DOMAIN r.parts : UseOf(r, v).prio = "on"}

\* A volume whose priority is invalid is raised; an inactive one is left so.
RaisedUse(u) == IF u.prio = "invalid" THEN [u EXCEPT !.fs = "swap", !.prio = "on"] ELSE u

Raised(r, V) ==
  [table |-> r.table,
   parts |-> [e \in DOMAIN r.parts |-> IF e \in V THEN RaisedUse(r.parts[e]) ELSE r.parts[e]],
   whole |-> IF Whole \in V THEN RaisedUse(r.whole) ELSE r.whole]

\* parse_swaps, up to the first line that names a partition without a record, or a
\* disk whose discovery fails.
SwapsEvent ==
  /\ phase = "up" /\ "swaps" \in proc
  /\ proc' = proc \ {"swaps"}
  /\ LET lines == UNION {{<<d, v>> : v \in Swapping(disk[d])} : d \in Dev}
         known == {l \in lines : l[2] \in Volumes(l[1])}
     IN \E read \in SUBSET known :
          /\ (known = lines /\ \A l \in lines : Known(l[1])) => read = known
          /\ rec' = [d \in Dev |->
                LET V == {l[2] : l \in {x \in read : x[1] = d}}
                IN  Raised(IF V = {} THEN rec[d] ELSE Discovered(rec[d], disk[d]), V)]
  /\ UNCHANGED <<disk, unread, uevents, phase, changes>>

Events ==
  \/ MountsEvent \/ SwapsEvent
  \/ \E d \in Dev :
       \/ Uevent(d) \/ OthersPlug(d)
       \/ \E v \in TruthVolumes(d) : OthersFormat(d, v) \/ OthersDelete(d, v) \/ OthersUse(d, v)

-----------------------------------------------------------------------------
VolumesTypeOK ==
  /\ \A d \in Dev : /\ Possible(disk[d]) /\ Laid(d, DOMAIN disk[d].parts)
                    /\ Shaped(rec[d], Use) /\ Laid(d, DOMAIN rec[d].parts)
  /\ \A l \in unread : l[1] \in Dev

\* Nothing the kernel has changed is still to be told.
Settled(d) == d \notin uevents /\ "mounts" \notin proc

\* Whoever changes a disk, by whatever command, and whatever scan fails: once the
\* event thread has heard of it, the record growlight has of a disk, if any, has the
\* disk's table, partitions and file systems, and its mounts but those that were left
\* out when /proc/mounts was last read; and there is none of a disk that is gone.
RecordCurrent ==
  phase = "up" => \A d \in Dev : Settled(d) =>
    /\ Known(d) => Present(d)
    /\ Known(d) =>
         /\ rec[d].table = disk[d].table
         /\ DOMAIN rec[d].parts = DOMAIN View(disk[d]).parts
         /\ \A v \in Volumes(d) :
              /\ UseOf(rec[d], v).fs = UseOf(disk[d], v).fs
              /\ \/ UseOf(rec[d], v).at = UseOf(disk[d], v).at
                 \/ UseOf(rec[d], v).at = "" /\ <<d, v>> \in unread

=============================================================================
