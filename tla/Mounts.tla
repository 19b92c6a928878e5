------------------------------- MODULE Mounts -------------------------------
(***************************************************************************)
(* The mounts of mounts.c and the target of target.c: growlight keeps, for *)
(* each device, the paths /proc/mounts gave it, which the event thread     *)
(* reads anew when the kernel says that they have changed, and a           *)
(* descriptor of the file system mounted at the target, where finalize     *)
(* writes an fstab.  Other processes mount and unmount as well.            *)
(*                                                                         *)
(* Every operation holds the growlight lock.  A device whose scan fails is *)
(* dropped from growlight's table with its list, and is looked up again    *)
(* when a line of /proc/mounts names it.                                   *)
(***************************************************************************)
EXTENDS Lists

CONSTANTS
  Dev,        \* block devices with a file system (mnttype), other than zfs
  Disks,      \* the devices of each disk, which is scanned as a whole
  Removable,  \* whole disks that are removable, and have no partitions
  Virtual,    \* what is mounted without a block device
  Path,       \* where
  Above,      \* the paths above each
  Prefixed,   \* pairs of paths the first of which begins with the second
  Odd,        \* paths parse_mount cannot read (other than ASCII)
  MaxMounts,  \* bound on mounts at a time
  MaxChanges  \* bound on changes of mounts and of the target

ASSUME MountsAssumption ==
  /\ Above \in [Path -> SUBSET Path]
  /\ \A p \in Path : <<p, p>> \in Prefixed
  /\ Odd \subseteq Path
  /\ Removable \subseteq Dev /\ Disks \subseteq SUBSET Dev

VARIABLES
  mounts,   \* the kernel's mounts, in the order of /proc/mounts
  known,    \* the mnt list of each device
  lost,     \* devices not in growlight's table: their last scan failed
  unlisted, \* mounts the lists lack: dropped with a device, or skipped because
            \* their device was not found, when /proc/mounts was last read or since
  phase,    \* growlight: "init", "gap" (before event_thread), "up", "down"
  raised,   \* /proc/mounts has changed since epoll last looked
  taken,    \* the event thread is about to read it
  missed,   \* it changed after it was read and before epoll looked
  target,   \* growlight_target
  targfd,   \* the file system targfd is open on
  wrote,    \* the last fstab
  changes

kernelVars == <<mounts, raised, missed>>
listVars == <<known, lost, unlisted>>
targetVars == <<target, targfd, wrote>>
vars == <<mounts, known, lost, unlisted, phase, raised, taken, missed, target, targfd, wrote, changes>>

None == "none"
Closed == "closed"
Host == "host"
Source == Dev \cup Virtual

-----------------------------------------------------------------------------
(***************************************************************************)
(* The kernel.  A path leads to what was last mounted at or above it.      *)
(***************************************************************************)
OnWay(p) == {i \in DOMAIN mounts : mounts[i].path \in Above[p] \cup {p}}
Resolve(p) == IF OnWay(p) = {} THEN Host ELSE mounts[Max(OnWay(p))].dev
Top(p) == Max(OnWay(p))
Mountpoint(p) == OnWay(p) # {} /\ mounts[Top(p)].path = p

\* Mounted over, at a path above: the directory may not be there any more.
Hidden(i) == \E j \in DOMAIN mounts : j > i /\ mounts[j].path \in Above[mounts[i].path]

\* The mounts that are left when some are gone.
Without(I) == Remains(mounts, DOMAIN mounts \ I)

Init ==
  /\ mounts \in {<<>>} \cup {<<[dev |-> d, path |-> p]>> : d \in Dev, p \in Path}
  /\ known = [d \in Dev |-> {}]
  /\ lost = {} /\ unlisted = {}
  /\ phase = "init"
  /\ raised = FALSE /\ taken = FALSE /\ missed = FALSE
  /\ target = None /\ targfd = Closed
  /\ wrote = [on |-> None, lines |-> {}]
  /\ changes = 0

Change ==
  /\ changes < MaxChanges
  /\ changes' = changes + 1

\* epoll reports what changes from event_thread on.
Notify ==
  /\ raised' = (raised \/ phase = "up")
  /\ missed' = (missed \/ phase = "gap")

Attach(s, p) ==
  /\ Len(mounts) < MaxMounts
  /\ ~(Mountpoint(p) /\ Resolve(p) = s)
  /\ mounts' = Append(mounts, [dev |-> s, path |-> p])
  /\ Notify

OthersMount(s, p) ==
  /\ Change /\ Attach(s, p)
  /\ UNCHANGED <<listVars, phase, taken, targetVars>>

Bare(p, P) == \A i \in DOMAIN mounts : p \in Above[mounts[i].path] => mounts[i].path \in P

\* A busy file system can be detached all the same.
OthersUnmount(p) ==
  /\ Change
  /\ Mountpoint(p) /\ Bare(p, {})
  /\ mounts' = Without({Top(p)})
  /\ Notify
  /\ UNCHANGED <<listVars, phase, taken, targetVars>>

-----------------------------------------------------------------------------
(***************************************************************************)
(* parse_mounts reads the lines up to the first it cannot read, and skips  *)
(* a hidden mount unless its path begins like the target's, when it makes  *)
(* the directories the mount point is to have.  A device that is not in    *)
(* the table is looked up, which may fail again: its line is skipped.      *)
(***************************************************************************)
Readable == {i \in DOMAIN mounts : \A j \in 1 .. i : mounts[j].path \notin Odd}
Skippable == {i \in Readable : Hidden(i) /\ <<mounts[i].path, target>> \notin Prefixed}
Parsed(I) == [d \in Dev |-> {mounts[i].path : i \in {j \in I : mounts[j].dev = d}}]

\* handle_mount opens the target when it meets its line.
Opened ==
  IF target # None /\ \E d \in Dev : target \in known'[d]
  THEN Resolve(target) ELSE Closed

(***************************************************************************)
(* Of the lines I, those whose lookup fails; one that succeeds finds all   *)
(* that is on its disk, so that no later line of the disk fails.           *)
(***************************************************************************)
SameDisk(c, d) == \E disk \in Disks : {c, d} \subseteq disk
Failures(I) ==
  {F \in SUBSET {i \in I : mounts[i].dev \in lost} :
     \A i \in F, j \in I \ F : SameDisk(mounts[i].dev, mounts[j].dev) => i < j}

Heard(I, F) ==
  /\ lost' = {d \in lost : \A j \in I \ F : ~SameDisk(d, mounts[j].dev)}
  /\ unlisted' = {<<mounts[i].dev, mounts[i].path>> : i \in F}

\* Mutant: the descriptor survives.
ReparseOpen ==
  \E skipped \in SUBSET Skippable : \E failed \in Failures(Readable \ skipped) :
    /\ known' = Parsed(Readable \ (skipped \cup failed))
    /\ targfd' = IF Opened = Closed THEN targfd ELSE Opened
    /\ Heard(Readable \ skipped, failed)

\* Mutant: the lists are not cleared.
ReparseAdds ==
  \E skipped \in SUBSET Skippable : \E failed \in Failures(Readable \ skipped) :
    /\ known' = [d \in Dev |-> known[d] \cup Parsed(Readable \ (skipped \cup failed))[d]]
    /\ targfd' = Opened
    /\ Heard(Readable \ skipped, failed)

\* clear_mounts and parse_mounts: the lists and the target are given up first.
Reparse ==
  \E skipped \in SUBSET Skippable : \E failed \in Failures(Readable \ skipped) :
    /\ known' = Parsed(Readable \ (skipped \cup failed))
    /\ targfd' = Opened
    /\ Heard(Readable \ skipped, failed)

\* growlight_init gives up if there is a line it cannot read.
Start ==
  /\ phase = "init"
  /\ Reparse
  /\ phase' = IF Readable = DOMAIN mounts THEN "gap" ELSE "down"
  /\ UNCHANGED <<kernelVars, taken, target, wrote, changes>>

\* event_thread opens /proc/mounts for epoll.
EventThread ==
  /\ phase = "gap"
  /\ phase' = "up"
  /\ UNCHANGED <<mounts, listVars, raised, taken, missed, targetVars, changes>>

MountsEvent ==
  /\ phase = "up" /\ raised /\ ~taken
  /\ raised' = FALSE /\ taken' = TRUE
  /\ UNCHANGED <<mounts, listVars, phase, missed, targetVars, changes>>

\* The event thread with the lock; an error of parse_mounts is ignored.
EventReparse ==
  /\ taken
  /\ Reparse
  /\ taken' = FALSE /\ missed' = FALSE
  /\ UNCHANGED <<mounts, phase, raised, target, wrote, changes>>

\* rescan_device of a disk growlight has, on a uevent or after an operation.
RescanReparse ==
  /\ phase = "up"
  /\ Reparse
  /\ missed' = FALSE
  /\ UNCHANGED <<mounts, phase, raised, taken, target, wrote, changes>>

\* A scan that fails, of the disk or of one of its partitions, drops the disk with
\* its lists; the mounts are not read, and the target's descriptor stays as it is.
RescanFails(disk) ==
  /\ phase = "up"
  /\ known' = [d \in Dev |-> IF d \in disk THEN {} ELSE known[d]]
  /\ lost' = lost \cup disk
  /\ unlisted' = unlisted \cup UNION {{d} \X known[d] : d \in disk}
  /\ UNCHANGED <<kernelVars, phase, taken, targetVars, changes>>

\* A uevent of a disk that is not in the table: a scan that succeeds inserts it, and
\* the mounts are not read.
Discover(disk) ==
  /\ phase = "up" /\ disk \cap lost # {}
  /\ lost' = lost \ disk
  /\ UNCHANGED <<kernelVars, known, unlisted, phase, taken, targetVars, changes>>

-----------------------------------------------------------------------------
\* mmount: the list of the device is not changed until the event.
Mmount(d, p) ==
  /\ phase = "up"
  /\ d \notin lost /\ p \notin known[d]
  /\ Change /\ Attach(d, p)
  /\ UNCHANGED <<listVars, phase, taken, targetVars>>

(***************************************************************************)
(* unmount goes through the list, whatever path it was given (its callers  *)
(* give it none, or the name of the device), and stops at the first error. *)
(* Of the target it closes the descriptor before it tries.                 *)
(***************************************************************************)
Unmount(d) ==
  /\ phase = "up" /\ known[d] # {}
  /\ Change
  /\ \E done \in SUBSET known[d], failed \in SUBSET known[d] :
       /\ done \cap failed = {} /\ Cardinality(failed) <= 1
       /\ failed = {} => done = known[d]
       /\ \A p \in done : Mountpoint(p) /\ Bare(p, done)
       /\ targfd' = IF target \in done \cup failed THEN Closed ELSE targfd
       /\ IF done = {} THEN UNCHANGED kernelVars
          ELSE mounts' = Without({Top(p) : p \in done}) /\ Notify
  /\ UNCHANGED <<listVars, phase, taken, target, wrote>>

-----------------------------------------------------------------------------
(***************************************************************************)
(* set_target looks for the path among the mounts before it sets           *)
(* growlight_target, so that mount_target, which opens growlight_target,   *)
(* is given a null pointer and leaves the descriptor closed.               *)
(***************************************************************************)
SetTarget(p) ==
  /\ phase \in {"init", "up"} /\ target = None
  /\ Change
  /\ target' = p
  /\ targfd' = IF \E d \in Dev : p \in known[d] THEN Closed ELSE targfd
  /\ UNCHANGED <<kernelVars, listVars, phase, taken, wrote>>

\* Mutant: the descriptor stays open.
UnsetTargetOpen ==
  /\ phase = "up" /\ target # None
  /\ Change
  /\ target' = None
  /\ UNCHANGED <<kernelVars, listVars, phase, taken, targfd, wrote>>

UnsetTarget ==
  /\ phase = "up" /\ target # None
  /\ Change
  /\ target' = None /\ targfd' = Closed
  /\ UNCHANGED <<kernelVars, listVars, phase, taken, wrote>>

\* dump_targets: the mounts whose path begins like the target's.  A removable disk
\* has a line for /media/cdrom, which is left out here, in the place of its own.
Lines ==
  {l \in (Dev \ Removable) \X Path : l[2] \in known[l[1]] /\ <<l[2], target>> \in Prefixed}

\* Mutant: the descriptor is not looked at.
FinalizeUnopened ==
  /\ phase = "up" /\ target # None
  /\ wrote' = [on |-> targfd, lines |-> Lines]
  /\ UNCHANGED <<kernelVars, listVars, phase, taken, target, targfd, changes>>

\* finalize_target, where every write succeeds; where one fails, a part of the
\* files is left, and the call can be repeated.
FinalizeTarget ==
  /\ phase = "up" /\ target # None /\ targfd # Closed
  /\ wrote' = [on |-> targfd, lines |-> Lines]
  /\ UNCHANGED <<kernelVars, listVars, phase, taken, target, targfd, changes>>

Stopped == phase = "down" /\ UNCHANGED vars

Next ==
  \/ \E s \in Source, p \in Path : OthersMount(s, p)
  \/ \E p \in Path : OthersUnmount(p) \/ SetTarget(p)
  \/ Start \/ EventThread \/ MountsEvent \/ EventReparse \/ RescanReparse
  \/ \E disk \in Disks : RescanFails(disk) \/ Discover(disk)
  \/ \E d \in Dev : Unmount(d) \/ \E p \in Path : Mmount(d, p)
  \/ UnsetTarget \/ FinalizeTarget
  \/ Stopped

Spec == Init /\ [][Next]_vars

-----------------------------------------------------------------------------
TypeOK ==
  /\ mounts \in Seq([dev : Source, path : Path])
  /\ known \in [Dev -> SUBSET Path]
  /\ lost \subseteq Dev /\ unlisted \subseteq Source \X Path
  /\ phase \in {"init", "gap", "up", "down"}
  /\ raised \in BOOLEAN /\ taken \in BOOLEAN /\ missed \in BOOLEAN
  /\ target \in Path \cup {None}
  /\ targfd \in Source \cup {Closed, Host}
  /\ wrote.on \in Source \cup {None, Host} /\ wrote.lines \subseteq Dev \X Path

\* The event thread has nothing to do, and nothing changed before it began.
Quiet == phase \in {"gap", "up"} /\ ~raised /\ ~taken /\ ~missed

\* The lists are the kernel's mounts up to the first line that cannot be read, but
\* for those mounted over and those unlisted.
Listed ==
  \A d \in Dev :
    /\ \A p \in Parsed({i \in Readable : ~Hidden(i)})[d] : p \in known[d] \/ <<d, p>> \in unlisted
    /\ known[d] \subseteq Parsed(Readable)[d]

\* Whoever mounts and unmounts, whenever, and whichever scans fail: once the event
\* thread is through, growlight's lists are the kernel's.
Current == Quiet => Listed

\* Then targfd, if it is open, is open on the file system the target's path leads
\* to, and never where no target is set.
TargetHere ==
  /\ targfd # Closed => target # None
  /\ Quiet /\ targfd # Closed => targfd = Resolve(target)

\* A finalized fstab has a line for the target's root file system, even if the
\* mounts have changed and the event thread has yet to see it; but for two cases:
\* it is on a removable disk, or a scan of its disk has failed since /proc/mounts was
\* last read.
RootWritten ==
  [][wrote' # wrote =>
       \E d \in Dev :
         \/ <<d, target>> \in wrote'.lines
         \/ d \in Removable /\ target \in known[d]
         \/ <<d, target>> \in unlisted]_vars

\* The inductive invariant: an open descriptor has a line that opened it, on a list
\* or dropped with one.
Rooted == targfd # Closed => \E d \in Dev : target \in known[d] \/ <<d, target>> \in unlisted
MountsInv == target \in Path \cup {None} /\ Current /\ TargetHere /\ Rooted

\* "reference to target root, once defined" (target.c:18): where the target is
\* defined and growlight knows its root to be mounted, the reference is open.
TargetOpen ==
  Quiet /\ (\E d \in Dev : target \in known[d]) => targfd # Closed
=============================================================================
