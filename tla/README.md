# Specifications of growlight

growlight discovers, displays, partitions, formats and mounts the block devices of a Linux
machine, and prepares an installation target from them. It is a library of C
(`src/src/*.c`) with two interfaces, a full-screen one (`notcurses/`) and a line-oriented one
(`readline/`), both of which link the library into a single multithreaded process.

The modules in this directory specify the parts of it that are hard to test: the recursive
lock and the discovery of devices, the barrier of the initial scan, growlight's threads from
their start to their end, the ring of log messages, the writing of GUID partition tables, the
mount table with the installation target, and what the two interfaces do to disks, file systems
and swaps while the event thread and other programs change them. TLC checks them on small
instances; TLAPS proves the main results for all instances.

Contents: [parts](#the-parts-of-growlight), [modules](#modules-and-code),
[runs](#runs), [bounds](#bounds), [fairness](#fairness), [proofs](#proofs),
[findings](#what-disagrees-with-the-source), [what is left out](#what-is-not-modelled),
[plan](#plan).

## The parts of growlight

| part | state | operations | talks to | what makes it hard | what makes it correct |
|---|---|---|---|---|---|
| Discovery (`growlight.c`, `mdadm.c`, `dm.c`) | controllers with their `blockdevs`; the recursive mutex `lock`; the list `discovery_active` | `lookup_device`, `create_new_device`, `rescan`, `rescan_device` | sysfs, libblkid, the interface's callbacks; itself, for parents and slaves | the lock is given up in the middle and comes back; recursion under it; early returns | one record and one discovery of a name; the lock held where needed; calls return |
| Barrier (`growlight.c`) | `thrcount`, mutex `barrier`, `barrier_cond` | `watch_dir`, `scan_device` and the scans of links, the event thread's own scans | pthreads | wakeups, threads that cannot be made, devices that hang | counter exact; no directory begun before the one before is joined; initialization ends |
| Event thread, start and stop (`growlight.c`, `udev.c`) | epoll, inotify, udev, a timer; `eventthread_launched` | `growlight_init`, `event_posix_thread`, `growlight_stop` | barrier, discovery, mounts, swap, the interface's callbacks | cancelled at any point, with either of two mutexes; a start that fails halfway | the devices are freed when no thread is left; stops |
| Log (`growlight.c`) | `logs`, `rblast`, `loglock` | `add_log`, `get_logs` | all parts | wrap-around, failed allocations | the last messages, newest first, none twice |
| GPT (`gpt.c`, `gpt.h`) | on the disk: protective MBR, two headers, two arrays | `new_gpt`, `zap_gpt`, `add_gpt`, `del_gpt`, setters | `mmap`, `msync`, `fsync` | two copies, checksums, write order, crashes, failures midway | copies apart, whole and equal; atomic under a crash; others' entries left alone |
| MS-DOS and Apple tables (`msdos.c`, `apm.c`, `mbr.c`) | on the disk: one sector | as for GPT, with gaps | as GPT | arithmetic of 32 bits; missing functions | as GPT |
| Dispatch (`ptable.c`) | a table of functions by type | `make_partition_table`, `wipe_ptable`, `add_partition`, `wipe_partition`, ... | the tables; BLKPG and BLKRRPART ioctls; rescans | four views of one disk; missing functions; mounts that are not looked at | table, kernel and list agree; a mounted disk keeps its table |
| Mounts (`mounts.c`) | `mnt` list of each device | `parse_mounts`, `clear_mounts`, `mmount`, `unmount` | `/proc/mounts`, discovery | others mount too; mounts hide mounts | lists are the kernel's mounts |
| Target (`target.c`) | `growlight_target`, `targfd`, `finalized` | `set_target`, `finalize_target` | mounts | a descriptor of what is mounted at a path | open on the target, and only there; fstab has its root |
| Swap (`swap.c`) | `swapprio`, `mnttype` | `parse_swaps`, `swapondev`, `swapoffdev`, `mkswap` | `/proc/swaps`, rescans | others swap too; a rescan forgets | the record has what is swapped on |
| File systems (`fs.c`, `popen.c`) | none | `make_filesystem`, `wipe_filesystem`, `check_partition` | programs, rescans | programs refuse; a rescan of a partition fails | the record follows |
| Full-screen interface (`notcurses/`) | the reel of adapters, each with its list of disks, the zones of a disk, the selection, the form that is up; its own mutex `bfl` | keys, the forms' callbacks, `block_callback`, `block_free` | all of the above; the core calls it back with the lock held | a form is answered later than it was raised, while the event thread moves what is selected | lists and zones are the record's; an answer does what was asked |
| Line interface (`readline/`) | none | commands | all of the above | device lists read while others rescan | |
| Statistics (`stats.c`) | counters of each device | `read_diskstats` | a timer of the event thread | size of a file not known beforehand | each line to its device |
| ZFS (`zfs.c`) | pools among the devices | `scan_zpools` | libzfs, discovery | returns under the lock | lock released |
| Hardware (`smart.c`, `sg.c`, `nvme.c`, ...) | fields of a device | queries | ioctls, sysfs | | |
| Types, aggregates (`ptypes.c`, `aggregate.c`) | static tables | lookups, commands for RAID | | | |

The parts meet in one process by calls and by one lock. Everything that touches a device runs
under the growlight lock, from whichever thread: the scan threads of the start, the event
thread (inotify, udev, epoll on `/proc/mounts` and `/proc/swaps`, a timer), and the interface's
thread for the user's commands. The parts that write to a disk hold it from beginning to end; the
discovery gives it up while it explores a device. The full-screen interface takes its own mutex
after that lock, in keys as well as in the callbacks of the core.

## Modules and code

| module | models | from |
|---|---|---|
| `Discovery` | lock, `discovery_active`, lookups, rescans, mount reparses, as stacks of calls in each thread | `growlight.c:1153-1303`, `2235-2303`, `mdadm.c:112-160` |
| `DeviceTable` | abstract: what discovery promises | |
| `Barrier` | `watch_dir` and the threads it starts | `growlight.c:1414-1520` |
| `Lifecycle` | `Barrier` within `growlight_init`, the event thread, the interface's thread, `growlight_stop`, and their two mutexes | `growlight.c:1615-1880`, `2040-2140`, `notcurses.c` |
| `LogRing` | `add_log`, `get_logs` | `growlight.c:94-160` |
| `LogHistory` | abstract: a log of the last messages | |
| `GptLayout` | the arithmetic of sectors and mappings | `gpt.c:60-311`, `339-464` |
| `Gpt` | the operations on a table, one step for each system call | `gpt.c`, `ptable.c:219-602`, `mbr.c`, `growlight.c:2189-2233` |
| `Mounts` | mount table and target | `mounts.c`, `target.c`, `growlight.c:1615-1663`, `2085-2095` |
| `Zones` | the zones of a disk and what a user may write for sectors, as operators | `ptable.c:481-521`, `notcurses.c:2732-2842`, `5714-5833` |
| `Volumes` | disks, partitions, file systems, mounts and swaps; the commands on them, the events that follow, other programs | `ptable.c`, `mbr.c`, `fs.c`, `swap.c`, `mounts.c`, `growlight.c:1002-1140`, `2189-2303` |
| `Screen` | the full-screen interface: lists, zones, selection, keys, forms, callbacks | `notcurses.c` |
| `Line` | the commands of the line interface | `readline.c` |
| `Interface` | `Screen` or `Line` over `Volumes` | both `main`s |
| `Lists` | what is left of a list when some are taken off it, and the members of a set of numbers in order, as functions that can be proved about | `notcurses.c:5884-5911`, `growlight.c:500-541` |

`MCDiscovery`, `MCBarrier`, `MCLogRing`, `MCGptLayout`, `MCGpt`, `MCMounts` and `MCInterface` give the
constants the values of the runs (`MCBarrier` extends `Lifecycle`); the modules whose names end in
`Proofs` hold the theorems, `ListProofs` the facts about numbers and lists that several of them use. `map` in `PROJECT.json` names the lines behind each definition.

**Discovery.** `owner` and `count` are the recursive mutex. A thread's `stack` holds the calls
of `lookup_device` (and within it `create_new_device`), `rescan_device` and `parse_mounts` that
are under way in it; `pc` is where a call stands between two places where the lock changes hands
or the outside world is asked. `active` holds the nodes of `discovery_active`, told apart by the
call that allocated them, and `table[n]` counts the records a name has. Three subtleties of
the code are in the model as they are:
`pthread_cond_timedwait` with a deadline in 1970 gives the mutex up only if it was locked once,
so `LookupWait` needs `count = 1` and a deeper lookup spins (`LookupSpin`); a name with a path
is compared with the list before the path is stripped, so only bare names wait (`MustWait`);
`rescan_device` of an unknown device begins a discovery without a look at the list
(`RescanUnknown`). `explore_md_sysfs` unlocks once for each slave it looks up, `parse_mounts`
does not. What sysfs and the probes answer is free: any step that asks may fail.

**Barrier.** `at` is where `growlight_init` stands in `watch_dir`. The wait with a timeout is in
the code a `pthread_cond_timedwait` on another condition and a mutex not held, with a deadline in
the past, which returns at once, and then an unbounded `pthread_cond_wait`, followed by
`break`. Assertions are compiled out in the default build
(`CMakeLists.txt:27`), so `assert(thrcount == 0)` is a property here and no guard.

**Lifecycle.** It extends `Barrier`'s steps by three program counters: `ui` (the thread that
started growlight, from `growlight_init` through keys or commands to `growlight_stop`), `ev` (the
event thread) and `cancelled`. `lock` is the growlight lock, `bfl` the screen's mutex, taken after
it by keys and callbacks and, alone, by every message that is logged. A cancelled thread dies at
one of the points where POSIX lets it, with whatever it has locked. Every step of `Lifecycle` is
one of `Barrier` or leaves its variables alone, which is a theorem.

**LogRing.** Each of the two operations holds `loglock` throughout, and is one step. Messages are
the numbers of their recording. Where `"malloc"` may fail, `add_log` moves its index and stores
nothing; where `"strdup"` may, `get_logs` returns with the mutex held, after which nothing runs.
`failing` says which of them may fail in a behaviour.

**GptLayout.** Sectors by their numbers: what `new_gpt`, `zap_gpt` and the edits write at both ends
of a disk, what the headers say is there, and whether `update_backup` stays within its mapping.
`write_gpt` and the functions that edit count a table's sectors differently (34 and 33).

**Gpt.** The same disk in four views: `cache` (the shared mapping, which kernel and libblkid
read), `disk` (the platters), `kernel` (the partitions it serves) and `listed` (growlight's last scan).
A header is the array its checksum was made from, so that a checksum holds when the two are
equal. `op` is the operation under way; its steps are the system calls: the stores, `msync`,
`fsync`, BLKPG or BLKRRPART, and the rescan. `WriteBack` takes one dirty unit of the disk to the platters,
at any time, as the kernel may with a mapping that is shared; a sync ends when all of its units are there (`Syncing`). `Crash`
leaves the platters, of which `Found` is the table that is found: the primary, if its checksum holds, or else the backup. The array has one slot more than entries: the sector
behind it, which the setters can reach and `write_gpt` clears. `failing` says what may fail in a
behaviour; power fails only where nothing else does.

**Mounts.** `mounts` is the kernel's stack of mounts; a path leads to what was last mounted at it or
above it. `known` are growlight's lists. `raised` and `taken` are the epoll event and the event thread
between receiving it and locking; `missed` marks a change between the first parse and the
watch, which no event reports. `Odd` paths are those `parse_mount` cannot read: the parse ends
there. `Prefixed` are the pairs of paths of which one begins with the other, as `strncmp` sees it.
A scan may fail at any time, of the disk or of one of its partitions: the disk is freed with its lists and is `lost`, the mounts are not read
again, and `targfd` stays as it is (`RescanFails`). A lost disk comes back by an event of its own (`Discover`), which reads no mounts either, or
by a parse whose line names it, where the lookup may fail again and the line is skipped. `unlisted` are the mounts that the
lists lack for such a reason, and no other. A `Removable` disk without partitions has a line for a CD in fstab in the place of its mounts'.

**Volumes.** Where `Gpt` and `Mounts` follow one table and one list through every system call,
`Volumes` has whole disks and takes each command as one step, since a command holds the growlight
lock throughout. `disk` is the truth: a table, the partitions by their sectors, and of each volume
(the disk itself or a partition) the file system, where it is mounted, and its swap priority. `rec` is
growlight's record of the same, in the same form. A command looks at `rec`, acts on `disk` where the
kernel and the programs let it, and leaves `rec` as its rescan, or its lack of one, leaves it:
`Rescan` has three outcomes, whatever the disk: the kernel refuses and nothing is read; the scan of the disk or of a partition fails and the disk is dropped
from the record with its mounts (`Drop`); or it is read (`View`) and all mounts are parsed again (`Parse`). A parse reads any part of the mounts
that lines it cannot parse, stat or look up may leave it (`Readings`), with the disks it discovers on the way; `unread` are
the mounts it left out, or a drop has taken away since. A rescan of a partition has no sysfs file to read and changes nothing
(`WipePartition`, `WipeFilesystem`). A zap goes by the table on record, whatever is on the disk by now (`Zapped`). `uevents` and `proc` are what udev, `/proc/mounts` and `/proc/swaps` have still to
tell the event thread, whose handlers are `Uevent`, `MountsEvent` and `SwapsEvent`. Other
programs plug, format, delete, mount and swap (`Others...`), and all they do is told.
`phase = "crashed"` is where the code follows a pointer that is null or is none, and where a callback names a disk that its failed
rescan has freed (`Names`), which the code may survive.

**Screen.** `bobjs` are the disks of each adapter in the order they are drawn, `selected` and
`current` the selection, `screen[d]` the zones of a disk with the number of the selected one, as
`update_blockobj` builds them (`Zones`). `form` is the form that is up with, as a history variable,
what it was raised about; `pending` are the sectors a form has handed to the next. Each key and each callback
is an action, named for the function: the key's guard, the callback's own guards, which are fewer, and the
operation of `Volumes` it calls. The core's callbacks are part of the step that changes the
record: `Follow` is `block_callback` and `block_free` for every disk whose record changed. `Underneath` is the event
thread's work while a form is up. A partition type whose name is taken before its sectors are
checked, and the ways back by Escape, are as in the code.

**Line.** The commands are disjunctions of the same operations, on the disk or partition they name. `partition add`
always passes a name on, and in two of its forms sectors it has not set, which may be any.

## Runs

| run | question | states |
|---|---|---|
| `bare` | Three threads look up bare names, with an MD device on a disk: is a name ever discovered twice at once, or recorded twice (`UniqueRecords`)? Do the lookups implement `DeviceTable` (`KeepsPromise`)? Does every call return (`CallsReturn`)? | 12 171 |
| `all` | Two threads do everything, nested as the code nests it: that the mutex is locked as often as the calls of its owner have locked it (`CountMatchesOwner`), the list of discoveries (`ActiveMatchesCalls`), the exclusion of others while a device is off its list (`RefreshHoldsLock`, `NoCreateDuringRefresh`), and that the only way never to return is the spin of a doubly locked lookup (`CallsReturnOrSpin`). | 18 104 |
| `barrier` | growlight from its start to its end, with three directories of two links, spurious wakeups, failures, a device that hangs, an event thread cancelled anywhere: `CountExact`, `UntimedJoins`, `AssertionUnlessWoken`, `InitEndsUnlessHung` of the scan; `FreedAlone` (no thread is left when the devices are freed) and `StopReturns` (growlight comes to its end, but for three named ways) of the whole. | 10 656 |
| `barrier_timeout` | Is the wait in the directory with a timeout "for some finite amount of time"? Violated, by a device that hangs. | |
| `log` | A ring filled nearly three times, with allocations that fail or do not: `RingInOrder`, `NoRepeats`, and `IsHistory`, the refinement of `LogHistory` where none fails. | 71 744 |
| `gpt_layout` | Disks of many sizes: `CopiesApart` (on which they are, and on which not), `BackupComplete`, `UsableClear`, `MappedUnlessAligned`. | 745 |
| `gpt` | Any four operations, with anything failing that can, or up to two power failures anywhere and write-back at any time: `ViewsAgree`, `AddUndone`, `DurableAtomically`. | 588 936 |
| `mounts` | A partition, a removable disk and a tmpfs, four paths, growlight and others mounting, scans failing: `Current`, `TargetHere`, `RootWritten`. | 847 514 |
| `mounts_target` | Is the target's descriptor open where its root is known to be mounted? Violated. | |
| `interface` | Either interface over two disks, with the event thread and other programs at work: `RecordCurrent` (once all is told, the record is the disk's), `ZonesOfRecord` (the partitions a key can get at are those on record, and the zones tile the disk), `SelectionListed` and `SelectionKept` (lists, and what is selected, survive what is unplugged), `TablesKept` (no answer takes the table from under a known mount). | 944 725 |
| `interface_asked` | Is what is confirmed done to what it was asked of? Violated, by a disk that is unplugged under the form. | |
| `interface_swaps` | Is a device that is swapped on known to be, once `/proc/swaps` has been parsed? Violated. | |

Each module's `TypeOK` is checked in one of its runs. Deadlock is checked except in `log`,
where a failed `strdup` stops the log.

How to read the conditions in some of the properties:

* `CallsReturn` and `CallsReturnOrSpin` speak of behaviours in which, from some time on, no
  call is begun. A device that never answers and is looked up forever starves those that wait.
* `FreedAlone` leaves out behaviours in which a wakeup of the initial scan was spurious: there scans go on.
* `StopReturns` names three states it cannot get past, `ScreenKept` (an event thread that died with `bfl`, or a
  `block_callback` that returned without releasing it), `JoinsWaiter` (the callback of the exit form joins a
  thread that waits for the lock it holds) and `DevicesKept` (an event thread that died with the growlight lock, which
  `free_devtable` takes for each device). The property is that there is no fourth.
* `ViewsAgree` speaks of disks on which nothing has failed, because the code repairs nothing after a failure,
  and lets the list differ while the kernel's event of a deletion is under way, because
  `wipe_partition` rescans the partition in place of the disk, which always fails.
* `DurableAtomically` speaks of operations that begin on copies of one table, or on a primary where there is no backup (`op.sound`). An edit that
  begins on a primary torn by an earlier crash gives it a good checksum. It allows the platters to have no table at all while the backup is
  being synced: the kernel may by then have written half of a primary that nothing has synced, and a crash leaves both torn. When that
  sync is over, there is a table again.
* `AddUndone` assumes the free entry was empty; the setters, writing to the entry behind theirs, can fill it.
* `UsableClear` leaves out a new table's last usable sector until an edit: `initialize_gpt` counts
  the first sector of the backup as usable, and the edits' shorter backup makes it so.
* `CopiesApart` says of a disk of 67 sectors, the least `new_gpt` accepts, that the copies of its table do share a sector until the first edit, and
  of every other that they do not.
* `MappedUnlessAligned` says on which disks the mapping is short; the store past it is the last
  step of the model there.
* `Current` leaves out the gap before the event thread runs (`missed`), the lines behind one that cannot be read (`Readable`), and what is `unlisted`.
* `RootWritten` names the two ways in which an fstab lacks its root: it is on a removable disk, or a scan of its disk
  has failed since the mounts were last read. Whatever else happens between a mount and a finalization, it is there.
* `RecordCurrent` and `TablesKept` speak of a disk where `Settled` holds: udev has nothing more to say of it,
  and the mounts have been read since they last changed; of mounts that were left out then (`unread`) they say nothing, so that
  `wipe_ptable` does take the table of a disk whose only mount is behind a line that cannot be read. A disk that is dropped has no record,
  which `RecordCurrent` allows until it is found again. Swap priorities are not part of it (see `interface_swaps`).
* `TablesKept` leaves out the form that asks whether the MBR be wiped, whose callback looks at no mount, and
  what is done without a form.
* `ZonesOfRecord` has the zones tile the disk where no partition begins before the table's first usable sector
  (`Usable`). Where one does, as a DOS partition that is mounted while the MBR is wiped and a GPT made does, the zone of metadata
  at the start lies over the partition, or the free space before it ends before it begins. That the partitions and the selection are
  right holds there too. The last sector, which metadata and the last zone may share, is left out.
* `CountMatchesOwner` lets a thread of the user interface hold the mutex once more than its calls have locked it: the interface
  had it already when it asked for a rescan.

## Bounds

* Threads, names: three threads and a disk, its partition and an MD device are the least with a
  discovery, one who waits, and one who begins another in between; the MD device makes lookups nest.
  `all` has two threads: what a third adds to its safety properties is covered by the theorems about them, all of which are
  proved for any threads, names and slaves. (With three threads the run passes too, in some minutes.)
* `Barrier`, `Lifecycle`: the timed directory, and two without; two links, so that one thread ends while another
  runs or is being made; two spurious wakeups, so that one can follow another. The number of keys, events and
  messages is not bounded.
* `LogRing`: `Size` 3 and `MaxLogged` 8 wrap twice, with every pattern of failures.
* `GptLayout`: 512-byte sectors, 4 KiB pages, 16 KiB of entries, disks of 50 to 260 sectors, which has
  every remainder by a page many times, disks too small, and the least `new_gpt` accepts, of 67. All sizes are in the theorems.
* `Gpt`: `N` = 2 entries are enough for the off-by-one, for a full table, and for a second entry to be left alone. Three
  extents, two of which overlap the third. `MaxOps` = 4 allows making a table, filling it and
  editing or zapping it; `MaxCrashes` = 2 a crash, a recovery, and a crash in what follows.
* `Mounts`: `MaxMounts` = 3 mounts at a time and `MaxChanges` = 3 changes after the mount there may be at the start: a target, a mount
  below or over it, and its end; failing scans and parses are not counted. `mounts_target` has two mounts. Each of the four paths has its role: target, below it, beside it with its
  name as a prefix, unreadable.
* `Interface`: a disk of four sectors, on which partitions can lie before, between and behind free space, and one of two, which may be plugged
  in later; both on one of two adapters, so that a list grows, shrinks and is left for an empty one. `MaxChanges` = 2 lets a
  disk be changed before a form is raised and again under it, by the user or by others; keys, forms and events are not
  counted, nor are scans that fail. Every one of the run's properties is proved for any number of changes, disks and sectors. The starts are a GPT beside a disk
  with a swap signature, two disks with nothing on them, and a DOS table, with its partition mounted or not, beside a disk that is plugged in later; the
  mounted one lies before the first sector a GPT would let it have.
  A disk is plugged in without partitions: were there any, the parse of a mount of one of them would look the partition up to no
  avail before the disk's own event came.

## Fairness

* `Discovery` uses strong fairness of each thread's steps inside its calls. A thread that waits for the mutex finds it free now and then;
  weak fairness would let others take it every time, which pthread mutexes do not forbid but
  a scheduler that eventually runs every thread while the mutex is free excludes. No
  thread need begin a call.
* `Barrier` and `Lifecycle` (`FairLife`) use weak fairness of `growlight_init` in the initial scan, and of each scan unless its
  device is `Hung`; strong fairness, for the same reason as above, of the interface's thread inside a key and inside
  `growlight_stop`, and of the event thread once an event has arrived. Keys, events, the user's wish to quit and spurious wakeups are not fair.
* The other modules state safety only.

## Proofs

`tlapm` proves all of the following from the named assumptions on constants in the modules. They say no more than what the
code's inputs are: thread names are distinct from "no thread"; sizes are positive; there is an adapter to begin with
(`ScreenAssumption`, the virtual ones `growlight_init` makes); disks are finitely many, with sizes and first usable sectors that are numbers
(`DisksAssumption`); and the disks are such at the start as the kernel serves them, with partitions inside the disk and none over another
(`StartAssumption`).

* `DiscoveryProofs`. `LockInv` adds `StackShape` to the properties: below a call under way are only explorations and mount parses
  that wait for it, and only the outermost is not a lookup. Without it a return could hand the lock's count to a caller of the
  wrong kind. From it `TypeCorrect`, `LookupIsLocked` and `RefreshIsLocked`; and, with one lemma for each way a call begins, goes on or returns,
  `MutexIsCounted`: because of that shape only the last call of a stack and the outermost can have locked the mutex, so that what the stack has
  locked (`Locks`) needs no sum over it. `ActiveExact`: the list of discoveries is exactly the calls inside
  `create_new_device`. `RefreshExcludesOthers`. And for programs that look up bare names only (`BareOnly`), `UniqueDiscovery` and the
  refinement `DiscoveryImplementsTable`, from `UniqueInv`: a name being explored has no record yet, the names on the list
  are distinct, and only whole devices get records.
* `LifecycleProofs`. Of the barrier, `CounterIsExact`, from `CountInv`, which adds that no link is given to two threads;
  `UntimedWatchJoins`; `AssertionWithoutWakeups`; `BarrierTyped`. Of the whole, `LifeImplementsBarrier`, by which the
  barrier's theorems hold of growlight's life, and `DevicesFreedAlone`. The invariant behind the latter says that there is an event thread just if
  `eventthread_launched` is set, that the interface's thread gets past the join only when it is gone, and that the scan is over from the
  moment its outcome is known.
* `LogRingProofs`. `RingTyped` and `NeverRepeats`, whatever fails, and `RingAlwaysInOrder` and the refinement `RingImplementsHistory`
  where nothing does, each for every size. `NeverRepeats` follows from the slots' holding distinct messages.
* `GptLayoutProofs`. For every disk, sectors of 512 bytes, 16 KiB of entries and pages
  of any size: `CopiesStayApart` (on that of 67 sectors, until it is edited, that they do not), `BackupIsComplete`, `UsableIsClear`, `MappingSuffices`, `WritesStayOnDisk`; and `MappableDisks`: with pages
  of 4 KiB the mapping suffices exactly where the number of sectors leaves neither 1 nor 2 by eight.
* `GptProofs`. For any number of entries, any extents and names, however many operations and crashes, three inductive invariants, each of which says what
  an operation has done by the stage it is at. `Typed`: `GptTyped`, and which operations come to which stage. `ViewsInv`, of a disk
  on which nothing has failed: from when the primary, then the backup, then the kernel and the list are in line, and what `Pending` leaves
  to tell the kernel; `ViewsAlwaysAgree` and, with `Typed`, `FailedAddUndone` follow. `DiskInv`, where no call fails but power may: at rest the platters have
  the cache (`Settled`), or its backup while the primary is on its way (`BackedUp`); until the backup is being synced they have the backup the operation
  began on (`Untouched`), whatever the kernel has written of the primary by itself, and while it is, a backup that is whole is the old or the new. `OperationsDurable` follows: the table that is found after a crash is the one before the operation or the one
  after, or none where `DurableAtomically` allows it.
* `MountsProofs`. `MountsTyped`; `ListsAreCurrent`, `TargetIsHere`, `RootAlwaysWritten`, for any devices, paths and bounds. `MountsInv` adds that an open
  descriptor has a line that opened it, in the lists or dropped from them with its disk (`Rooted`).
* `InterfaceProofs`. For any disks, adapters, sizes and changes, all that the run `interface` checks: `InterfaceTyped`, `RecordStaysCurrent`,
  `ZonesAreOfRecord`, `SelectionStaysListed`, `SelectionStaysKept` and `TablesStayKept`. The invariant, `FullInv`, has these parts.
  - `VolumesInv` says of each disk and its record that they are `Good`: the disk is one the kernel
    allows; the record has the same table, partitions and file systems unless udev has still to tell of the disk, and the same mounts, but those `unread`, unless
    `/proc/mounts` has as well; and what has no record is not mounted but where that is `unread`, so that a parse, whichever of the lines it reads and
    whatever disks it discovers by them, makes every record `Good` again. `LeftInv` has the type of `unread`. There is one lemma for each operation
    of `Volumes`; the operations that read the disk again make it `Good` from any state, the others
    leave something to be told. `TablesStayKept` follows from it and the next: no form is up under the line interface (`FormUp`), and `wipe_ptable` looks at the
    mounts of a record that is `Good`.
  - `LaidInv`: the partitions, on the disk and on record, are inside the disk and apart. Every operation `Moves` the records: each keeps
    its table and partitions or takes those of its disk, and if a disk goes from the records, it goes alone. The last is what lets `block_free` move the selection
    to a neighbour that stays.
  - `ScreenInv`, under the full-screen interface: the lists have the disks on record, each once, with the selected one among them (`ListsInv`); the zones are those of the record,
    with one of them selected (`ZonesInv`); and the form is one there is (`FormInv`).

  That the zones cover the disk is a fact about `ZonesOf` alone: the partitions in the order of their beginnings, each with the free space
  before it, are pieces of a disk that begin where the one before ends, and so is what they are strung together to (`Tiles`); what is put
  behind them ends with the disk.
* `ListProofs` has what these proofs need of numbers, finite sets and sequences: a set of numbers goes through its members upwards (`NthFacts`), what is left of a
  list (`RemainsFacts`), a list of a set (`ListOfSet`), and what lists strung together contain and where (`Flattened`). Where an induction is needed
  it is over a fixed predicate, as the absence of a least counterexample (`LeastNumber`).

Only checked by TLC: liveness (`CallsReturn`, `CallsReturnOrSpin`, `InitEndsUnlessHung`, `StopReturns`), which is out of the
prover's reach, and the four properties that the code does not have. Every safety property that a passing run checks, invariant or action property, is a theorem; the
refinements `KeepsPromise` and `IsHistory` are too, the first under `BareOnly`, the second where no allocation fails.

## What disagrees with the source

With a run each:

* `barrier_timeout`: the wait in a directory with a timeout has none in effect (`growlight.c:1490`), against "for some finite amount of time" and "for up to 1s"
  (`growlight.c:1418`, `1486`); a device that does not answer holds the start up for ever.
* `mounts_target`: `set_target` on a path where something is mounted leaves the descriptor closed (`target.c:102`), until
  `/proc/mounts` changes.
* `interface_asked`: a callback acts on what is selected when the answer comes (`notcurses.c:4020`); a disk that is unplugged under the form hands
  the request to its neighbour.
* `interface_swaps`: a device with a swap signature is recorded as inactive swap by every probe (`libblkid.c:138`), and `parse_swaps` raises only
  devices whose priority is invalid (`swap.c:112`): what others swap on stays inactive on record.

Met while modelling, and in the models as the code has them, without a run of their own:

* After a spurious wakeup in the directory that has a timeout, `watch_dir` returns with scans under way (`growlight.c:1490`), against the assertion
  at `growlight.c:1433`. `AssertionUnlessWoken` shows that there is no other way.
* `write_gpt` writes 34 sectors where header and array take 33 (`gpt.c:163`), so that on a disk of 67 sectors, which `new_gpt` and the
  comment at `gpt.c:154` accept, the two copies meet. `CopiesApart` shows that they do nowhere else.
* The setters index the array by a number that counts from one (`gpt.c:596`, `624`, ...), so naming partition 1 changes
  partition 2's entry, against "Pass the partition" (`gpt.h:21`); number 128 is behind the array (`Slot` in `Gpt`).
* The last usable sector (`growlight.h:174`) growlight offers to a partition is the last of the disk (`ptable.c:505`), where the backup's header is;
  `UsableClear` is about the header's.
* A removable disk that is mounted at the target has a line for a CD in the place of the root's (`target.c:281`), and the root of a disk whose rescan
  fails is lost with its list (`growlight.c:2287`), against `growlight-readline.8.md:267`. `RootWritten` shows that an fstab lacks its root in no other case.
* The parse of the mounts ends at the first line it cannot read (`mounts.c:249`), against "Displays all currently-mounted filesystems"
  (`growlight-readline.8.md:280`).
* `zap_gpt` clears the sector behind the array, the first usable one of other programs' tables, as `write_gpt` counts one sector too many (`gpt.c:163`).
* `update_backup`'s mapping is a page short where the backup begins on a page (`gpt.c:78`).
* The edits sync the backup and only later, or never, the primary (`gpt.c:443`, `600`).
* `uuid_gpt` writes to the name (`gpt.c:623`); `new_gpt` keeps whatever entries the sectors held (`gpt.c:190`); `add_gpt` reports an
  overlap and goes on (`gpt.c:525`), although its comment says it verifies.
* A name too long has been written in part when it is refused (`gpt.c:596`).
* `wipe_partition` always reports failure (`ptable.c:297`), and takes a whole disk for a partition (`ptable.c:286`).
* `make_partition_table` calls `mdp`'s missing function (`ptable.c:188`); an Apple map is detected under a name that `ptable.c` does not
  know, and cannot be removed.
* `fsck_partition`, `mountpoint_callback` and `set_partition_attrs` assert what does not hold of a partition, an empty zone or an Apple map
  (`notcurses.c:4498`, `4638`, `4461`); the default build compiles the assertions out.
* `block_callback` returns with `bfl` held where an adapter cannot be shown (`notcurses.c:5848`); the exit form's callback joins the
  event thread with both mutexes held (`notcurses.c:5137`).
* A failed `strdup` leaves `loglock` held (`growlight.c:143`).
* A partition left from another table, before the first usable sector of the new one, is drawn over by the metadata at the start, and what
  follows is measured from there (`notcurses.c:5739-5751`).
* The lookup's wait has a deadline in 1970 (`growlight.c:1225`).
* A scan that fails for one partition drops its whole disk (`growlight.c:1062`), with its mounts and without a parse of them (`growlight.c:2287`), and a
  callback then names the disk that was freed (`notcurses.c:2991`).
* `wipe_ptable` looks at growlight's lists only (`ptable.c:218`): where a mount is behind a line that could not be read, the table goes.
* An event thread that is cancelled with the growlight lock held keeps `free_devtable` waiting (`growlight.c:372`).
* `unmount`'s test of its path is inverted (`mounts.c:327`), and `unmap` passes the device's name for the path (`readline.c:1382`): all mounts of the device
  go, where `growlight-readline.8.md:274` speaks of the associated one.
* `dump_targets` tells a target's mounts by a prefix (`target.c:227`): a mount at `/target2` goes to the fstab of `/target`.

Met in code that is not modelled: `read_procfs_file` reads no more than its first buffer (`stats.c:44`); `zpoolcb` returns with the lock held where a pool
has the name of a device (`zfs.c:130`); an MS-DOS entry keeps 32 bits of a first sector of 64 (`msdos.c:273`).

## What is not modelled

Formats (humanized sizes, names in UTF-16, UUIDs), the text of diagnostics, the decoding of SMART, SCSI and NVMe data,
programs run for file systems and RAID, and partition types are data without steps of their own. `PROJECT.json`, under `components`, gives the reason for
each part. Within the parts that are modelled:

* disks keep their size; memory that runs out ends a call where the code checks for it, and is not considered where it does not;
* a rescan whose controller cannot be told frees the disk without a word to the interface (`growlight.c:939`), which keeps what was freed; in
  `Screen` the interface is told of every disk that goes;
* a finalization of the target that fails halfway, and what `finalized` means at exit, are left out of `Mounts`;
* a discovery gives the lock up while it explores, which `Discovery` follows and `Volumes` takes as one step; and a lookup that waits, holding
  `bfl`, for another thread's discovery is in neither;
* `Screen` has no drawing, help, details or environment panels, no browsing of directories, and no aggregates; `Line` no printing (with
  the slave lists it walks), arrays or pools;
* `stats.c` has a hazard of its own (a buffer that does not grow, and lines told apart by it) and no shared state beyond the lock; ZFS is optional
  and off by default. Both are candidates below.

## Plan

Done, in this order: the lock and the discovery, their abstract specification, barrier, log, the layout and the operations of GPT, mounts and target;
then start and stop around the barrier, the volumes with tables, file systems and swaps, the zones, and the two interfaces over them.
Of the safety properties the runs check, all are theorems now. Next, by importance:

1. A refinement of `Volumes`' partition commands by `Gpt`'s operations: a whole disk's table as the record of a `Gpt` at rest, each operation one step of
   it; `ViewsAlwaysAgree` is the fact it would rest on.
2. The finalization of the target with its failures and the exit status, in `Mounts`; the slave lists walked by the line interface, in `Discovery`.
3. The 32-bit arithmetic of `msdos.c` beside `GptLayout`, and `stats.c`'s buffer.
4. `Volumes` with the finalized target, so that `Lifecycle`'s exit and `Screen`'s are one.
