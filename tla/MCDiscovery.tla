---------------------------- MODULE MCDiscovery ----------------------------
(***************************************************************************)
(* A disk with one partition and an MD device built on the disk; what the  *)
(* runs vary is what the threads may call.                                 *)
(***************************************************************************)
EXTENDS Discovery, TLC

CONSTANTS scan, udev, ui, sda, sda1, md0

Threads3 == {scan, udev, ui}
Threads2 == {scan, udev}
Names == {sda, sda1, md0}
Disks == (sda :> sda) @@ (sda1 :> sda) @@ (md0 :> md0)
OnDisk == (sda :> <<>>) @@ (sda1 :> <<>>) @@ (md0 :> <<sda>>)
OnPartition == (sda :> <<>>) @@ (sda1 :> <<>>) @@ (md0 :> <<sda1>>)
Root == <<sda1>>

\* scan_device, the statistics tick and MD slaves: bare names.
BareOps == [t \in Threads3 |-> {"lookup"}]
\* Everything, of two threads.
AllOps == (scan :> {"lookup", "path", "uirescan"}) @@ (udev :> {"lookup", "rescan", "mounts"})
=============================================================================
