------------------------------- MODULE MCGpt -------------------------------
(***************************************************************************)
(* A table of two entries and three sector ranges, two of which overlap.   *)
(***************************************************************************)
EXTENDS Gpt

Ranges == {<<5, 6>>, <<6, 7>>, <<7, 8>>}
AnyName == {"boot", "a long name"}
LongNames == {"a long name"}

All == {"new", "zap", "add", "del", "name", "uuid", "flags", "code", "wipembr"}

Anything == {"name", "random", "msync", "fsync", "blkpg", "sysfs", "rrpart"}
=============================================================================
