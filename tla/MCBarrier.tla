----------------------------- MODULE MCBarrier -----------------------------
(***************************************************************************)
(* Three directories, as /sys/class/block (with a timeout), /dev/md and    *)
(* /dev/disk/by-path (without), with two links each.                     *)
(***************************************************************************)
EXTENDS Lifecycle

CONSTANTS sda, sdb

LinkNames == {sda, sdb}
FirstTimed == {1}
TwoEach == [d \in 1 .. 3 |-> {sda, sdb}]
DiskHung == {<<1, sdb>>}
=============================================================================
