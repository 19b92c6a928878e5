---------------------------- MODULE MCGptLayout ----------------------------
(***************************************************************************)
(* The sizes gpt.c has: 512-byte sectors, 16 KiB of entries, 4 KiB pages.  *)
(***************************************************************************)
EXTENDS GptLayout

\* Every remainder of a disk's sectors by a page's, from disks too small for
\* new_gpt on; the least it accepts has 67 sectors.
AnySize == 50 .. 260
=============================================================================
