------------------------------ MODULE MCMounts ------------------------------
(***************************************************************************)
(* A partition, a removable disk and a tmpfs; /t and, below it, /t/home,   *)
(* /t2 beside it, and a path parse_mount cannot read.                      *)
(***************************************************************************)
EXTENDS Mounts

Devices == {"sda1", "sdb"}
Whole == {{"sda1"}, {"sdb"}}
Sticks == {"sdb"}
Tmpfs == {"tmpfs"}
Paths == {"/t", "/t/home", "/t2", "/accented"}
Ancestors == [p \in Paths |-> IF p = "/t/home" THEN {"/t"} ELSE {}]
Beginnings == {<<p, p>> : p \in Paths} \cup {<<"/t/home", "/t">>, <<"/t2", "/t">>}
NotAscii == {"/accented"}
=============================================================================
