------------------------------ MODULE GptLayout ------------------------------
(***************************************************************************)
(* Where gpt.c writes on a disk.  write_gpt and the functions that edit a  *)
(* table compute the length of a table on their own, and differ by one     *)
(* sector; update_backup maps the end of the disk in whole pages.  Sectors *)
(* are numbered from 0; a span <<a, b>> is the sectors from a to b.        *)
(***************************************************************************)
EXTENDS Integers

CONSTANTS
  LbaSize,     \* LBA_SIZE, bytes in a sector
  PgSize,      \* getpagesize()
  TableBytes,  \* MINIMUM_GPT_ENTRIES * sizeof(gpt_entry)
  Sizes        \* the disks considered, in sectors

ASSUME LayoutAssumption ==
  /\ LbaSize \in Nat \ {0}
  /\ PgSize \in Nat \ {0}
  /\ TableBytes \in Nat
  /\ Sizes \subseteq Nat

VARIABLES
  lbas,    \* the sectors of the disk
  gpt,     \* the headers, or NoGpt
  wrote,   \* what the last operation wrote at either end of the disk
  fault    \* it wrote past the end of its mapping

vars == <<lbas, gpt, wrote, fault>>

One(b) == IF b THEN 1 ELSE 0

-----------------------------------------------------------------------------
\* Header and entries, as write_gpt counts them.
WriteLbas ==
  1 + One(LbaSize # TableBytes % LbaSize) + TableBytes \div LbaSize

\* Mutant: the header is not counted.
EditLbasShort == TableBytes \div LbaSize

\* Mutant: the length write_gpt uses.
EditLbasLong == WriteLbas

\* Header and entries, as map_gpt and unmap_gpt count them.
EditLbas == 1 + TableBytes \div LbaSize

MinBytes == LbaSize + 2 * (LbaSize + TableBytes)

\* Mutant: the backup ends before the last sector.
BackupSpanEarly(n, g) == <<n - 1 - g, n - 2>>

\* Mutant: the number of sectors is taken for the last of them.
BackupSpanLate(n, g) == <<n - (g - 1), n>>

\* The last g sectors: entries first, the header in the very last.
BackupSpan(n, g) == <<n - 1 - (g - 1), n - 1>>

MapOff(n, g) == (BackupSpan(n, g)[1] * LbaSize) % PgSize

\* Mutant: the part of a page in front of the backup is not mapped for.
MapSizeShort(n, g) ==
  PgSize * ((LbaSize * g + MapOff(n, g)) \div PgSize)

MapSize(n, g) ==
  PgSize * ((LbaSize * g + MapOff(n, g)) \div PgSize + One(MapOff(n, g) # 0))

\* update_backup writes g sectors into a mapping of MapSize bytes.
Outside(n, g) == MapOff(n, g) + LbaSize * g > MapSize(n, g)

NoGpt == [made |-> FALSE]

\* initialize_gpt, and the backup's copy of the header.
HeaderFor(n, g) ==
  [made |-> TRUE, partlba |-> 2, first |-> g, last |-> (n - 1) - (g - 1),
   backuplba |-> n - 1, backuppart |-> (n - 1) - (g - 1)]

-----------------------------------------------------------------------------
Init ==
  /\ lbas \in Sizes
  /\ gpt = NoGpt
  /\ wrote = {}
  /\ fault = FALSE

\* The table's own sectors 2, 3, ... are checksummed and copied as they are.
NewGpt ==
  /\ ~fault
  /\ ~gpt.made
  /\ lbas * LbaSize >= MinBytes
  /\ gpt' = HeaderFor(lbas, WriteLbas)
  /\ wrote' = {<<0, 1>>, BackupSpan(lbas, WriteLbas)}
  /\ fault' = Outside(lbas, WriteLbas)
  /\ UNCHANGED lbas

ZapGpt ==
  /\ ~fault
  /\ gpt.made
  /\ gpt' = NoGpt
  /\ wrote' = {<<0, WriteLbas>>, BackupSpan(lbas, WriteLbas)}
  /\ fault' = Outside(lbas, WriteLbas)
  /\ UNCHANGED lbas

\* Any change of an entry ends in unmap_gpt: the header takes its place from the
\* primary's backuplba, the entries their length from EditLbas.
EditGpt ==
  /\ ~fault
  /\ gpt.made
  /\ gpt' = [gpt EXCEPT !.backuppart = gpt.backuplba - (EditLbas - 1)]
  /\ wrote' = {<<1, EditLbas>>, BackupSpan(lbas, EditLbas)}
  /\ fault' = Outside(lbas, EditLbas)
  /\ UNCHANGED lbas

Stopped ==
  /\ fault \/ (~gpt.made /\ lbas * LbaSize < MinBytes)
  /\ UNCHANGED vars

Next == NewGpt \/ ZapGpt \/ EditGpt \/ Stopped

Spec == Init /\ [][Next]_vars

-----------------------------------------------------------------------------
EntryLbas == TableBytes \div LbaSize

PrimaryTable == <<gpt.partlba, gpt.partlba + EntryLbas - 1>>
BackupTable == <<gpt.backuppart, gpt.backuppart + EntryLbas - 1>>

Apart(s, t) == s[2] < t[1] \/ t[2] < s[1]
Within(s, t) == t[1] <= s[1] /\ s[2] <= t[2]

\* No write leaves the disk.
TypeOK ==
  /\ lbas \in Sizes
  /\ gpt.made \in BOOLEAN
  /\ \A s \in wrote : s[1] \in Nat /\ s[2] \in s[1] .. lbas - 1
  /\ fault \in BOOLEAN

\* update_backup leaves its mapping on no disk but those whose backup, of one
\* length or the other, begins on a page: then a page is missing.
MappedUnlessAligned ==
  fault => MapOff(lbas, WriteLbas) = 0 \/ MapOff(lbas, EditLbas) = 0

\* The inductive invariant: the headers are those of write_gpt, or those after an
\* edit.
Fresh ==
  /\ gpt = HeaderFor(lbas, WriteLbas)
  /\ wrote = {<<0, 1>>, BackupSpan(lbas, WriteLbas)}

Edited ==
  /\ gpt = [HeaderFor(lbas, WriteLbas)
              EXCEPT !.backuppart = (lbas - 1) - (EditLbas - 1)]
  /\ wrote = {<<1, EditLbas>>, BackupSpan(lbas, EditLbas)}

Zapped ==
  /\ gpt = NoGpt
  /\ wrote \in {{}, {<<0, WriteLbas>>, BackupSpan(lbas, WriteLbas)}}

LayoutInv ==
  /\ lbas \in Sizes
  /\ fault \in BOOLEAN
  /\ wrote # {} => lbas * LbaSize >= MinBytes
  /\ Fresh \/ Edited \/ Zapped
  /\ MappedUnlessAligned

\* "lbas must be greater than or equal to 1 + 2 * (1 + ceil(16k / lbasize)"
\* (gpt.c:154), as new_gpt sees to.  On such disks no table reaches into a header, and
\* the two copies share no sector, so that losing either end of the disk leaves the
\* other copy whole: with one exception, where they do.  That is the least disk
\* new_gpt accepts, before the first edit of its table: write_gpt's backup begins
\* one sector early, in the primary.
CopiesApart ==
  gpt.made /\ ~fault =>
    /\ Apart(PrimaryTable, BackupTable) <=> ~(lbas * LbaSize = MinBytes /\ <<0, 1>> \in wrote)
    /\ Within(PrimaryTable, <<2, lbas - 1>>)
    /\ Within(BackupTable, <<2, gpt.backuplba - 1>>)
    /\ gpt.backuplba = lbas - 1

\* What was last written to the end of the disk is what the backup header says
\* is there: all the entries, from backuppart on.
BackupComplete ==
  gpt.made /\ ~fault => \E s \in wrote :
    /\ Within(BackupTable, s)
    /\ s[1] = gpt.backuppart
    /\ s[2] = gpt.backuplba

\* The usable sectors of the header are clear of the primary table, and once any
\* edit has moved the backup of that as well.  (Before the first edit last_usable is
\* the first sector of the backup's entries.)
UsableClear ==
  gpt.made /\ ~fault =>
    /\ PrimaryTable[2] < gpt.first
    /\ <<1, EditLbas>> \in wrote => gpt.last < BackupTable[1]
=============================================================================
