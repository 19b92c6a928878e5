---------------------------- MODULE MCInterface ----------------------------
(***************************************************************************)
(* A disk of four sectors with a partition table, or without; another of   *)
(* two on the same adapter, which may not be plugged in yet; and the       *)
(* adapter beside it, with nothing to begin with.  Or the first disk's     *)
(* partition is mounted, and begins before a GPT would let it.             *)
(***************************************************************************)
EXTENDS Interface

Disks == {"sda", "sdb"}
Adapters == <<"ata1", "ata2">>
Homes == [sda |-> "ata1", sdb |-> "ata1"]
Sizes == [sda |-> 4, sdb |-> 2]
Firsts == [gpt |-> 2, dos |-> 1, mac |-> 0, gone |-> 0, none |-> 0, unloaded |-> 0]
Ext4 == Fresh("ext4", "invalid")
Raw == [Gone EXCEPT !.table = "none"]
Gpt == [Raw EXCEPT !.table = "gpt", !.parts = (<<2, 2>> :> Ext4)]
Dos == [Raw EXCEPT !.table = "dos", !.parts = (<<1, 2>> :> Blank)]
SwapDisk == [Raw EXCEPT !.whole = Fresh("swap", "inactive")]
MountedDos == [Dos EXCEPT !.parts = (<<1, 2>> :> [Ext4 EXCEPT !.at = "/"])]
Starts ==
  {("sda" :> Gpt) @@ ("sdb" :> SwapDisk), ("sda" :> Raw) @@ ("sdb" :> Raw)}
    \cup {("sda" :> d) @@ ("sdb" :> Gone) : d \in {Dos, MountedDos}}
=============================================================================
