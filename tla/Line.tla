-------------------------------- MODULE Line --------------------------------
(***************************************************************************)
(* The line interface (readline.c): a command names its disk or partition, *)
(* and is handled with the growlight lock held.                            *)
(***************************************************************************)
EXTENDS Volumes

Ready == phase = "up"

\* blockdev: rescan and wipebiosboot, rmtable, wipedosmbr, mktable.
Blockdev(d) ==
  \/ Rescanned(d) \/ WipePtable(d) \/ WipeDosmbr(d)
  \/ \E pty \in Creatable \cup {"mdp"} : MakePartitionTable(d, pty)

\* partition: add, which always passes a name and, for "first:" or ":last", passes
\* sectors it has not set; del of whatever is named.
PartitionCommand(d) ==
  \/ \E f, l \in 0 .. Size[d] - 1 : AddPartition(d, TRUE, f, l)
  \/ \E v \in Volumes(d) : WipePartition(d, v)

\* fs: mkfs, wipefs, mount, umount; map and unmap.
Fs(d) ==
  \E v \in Volumes(d) :
    \/ \E type \in {"ext4", "swap"} : MakeFilesystem(d, v, type)
    \/ WipeFilesystem(d, v)
    \/ \E path \in {"/", "/t"} : Mmount(d, v, path)
    \/ Unmount(d, v)

Swap(d) == \E v \in Volumes(d) : Swapondev(d, v) \/ Swapoffdev(d, v)

Quit == phase' = "down" /\ UNCHANGED <<disk, rec, unread, uevents, proc, changes>>

Command ==
  /\ Ready
  /\ \/ Quit
     \/ \E d \in Dev : Known(d) /\ (Blockdev(d) \/ PartitionCommand(d) \/ Fs(d) \/ Swap(d))

LineNext == Command \/ Events
=============================================================================
