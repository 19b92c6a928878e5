-------------------------------- MODULE Zones --------------------------------
(***************************************************************************)
(* The zones the full-screen interface divides a disk into                 *)
(* (update_blockobj of notcurses.c), and the sectors a partition is asked  *)
(* for with (lex_part_spec).                                               *)
(***************************************************************************)
EXTENDS Lists

CONSTANTS
  Size,  \* the sectors of each disk
  First  \* the first usable sector under each table

\* lookup_last_usable_sector, and lookup_first_usable_sector, which answers 0
\* for a table ptable.c does not know.
LastUsable(d) == Size[d] - 1
FirstUsable(r) == First[r.table]

Meta(f, l) == [first |-> f, last |-> l, kind |-> "metadata"]
Empty(f, l) == [first |-> f, last |-> l, kind |-> "empty"]
Part(e) == [first |-> e[1], last |-> e[2], kind |-> "partition"]

\* add_new_partition keeps the partitions in the order of their first sectors.
Sorted(parts) ==
  LET starts == {e[1] : e \in DOMAIN parts}
  IN  [k \in 1 .. Cardinality(starts) |-> CHOOSE e \in DOMAIN parts : e[1] = Nth(starts, k)]

\* The metadata at the end repeats the last sector of the empty space before it.
Behind(s, size) ==
  IF s >= size THEN <<>> ELSE <<Empty(s, size - 1), Meta(size - 1, size - 1)>>

\* Mutant: a partition is taken to end before its last sector.
ZonesShort(d, r) ==
  LET p == Sorted(r.parts)
      lead == FirstUsable(r)
      From(i) == IF i = 1 THEN lead ELSE p[i - 1][2]
      Run(i) == (IF From(i) = p[i][1] THEN <<>> ELSE <<Empty(From(i), p[i][1] - 1)>>)
                  \o <<Part(p[i])>>
  IN  IF r.table \in {"none", "unloaded", "gone"} THEN <<>>
      ELSE (IF lead = 0 THEN <<>> ELSE <<Meta(0, lead - 1)>>)
             \o FlattenSeq([i \in 1 .. Len(p) |-> Run(i)])
             \o Behind(From(Len(p) + 1), Size[d])

\* Without a table there is no zone: the disk is one volume.
ZonesOf(d, r) ==
  LET p == Sorted(r.parts)
      lead == FirstUsable(r)
      From(i) == IF i = 1 THEN lead ELSE p[i - 1][2] + 1
      Run(i) == (IF From(i) = p[i][1] THEN <<>> ELSE <<Empty(From(i), p[i][1] - 1)>>)
                  \o <<Part(p[i])>>
  IN  IF r.table \in {"none", "unloaded", "gone"} THEN <<>>
      ELSE (IF lead = 0 THEN <<>> ELSE <<Meta(0, lead - 1)>>)
             \o FlattenSeq([i \in 1 .. Len(p) |-> Run(i)])
             \o Behind(From(Len(p) + 1), Size[d])

\* update_blockobj keeps the number of the zone selected, or the last there is;
\* on a disk seen for the first time it takes the first empty space, else the
\* second zone.  0 is no zone.
Chosen(old, zones) ==
  LET n == Len(zones)
      free == {i \in 1 .. n : zones[i].kind = "empty"}
  IN  IF old # 0 THEN Min({old, n})
      ELSE IF free # {} THEN Min(free)
      ELSE Min({2, n})

Blockobj(d, old, r) ==
  LET zones == ZonesOf(d, r) IN [zones |-> zones, zone |-> Chosen(old, zones)]

(***************************************************************************)
(* lex_part_spec: a percentage of the zone, a number of bytes (a sector is *)
(* one byte here, the multiples are left out), or first:last, which is not *)
(* compared with the zone.  Nothing and 0% end before they begin.          *)
(***************************************************************************)
Specs(z, size) ==
  {<<z.first, ((z.last - z.first) * pct) \div 100 + z.first - 1>> : pct \in {0, 50, 100}}
    \cup {<<z.first, z.first + n - 1>> : n \in 0 .. z.last - z.first + 1}
    \cup {<<f, l>> : f \in 0 .. size - 1, l \in 0 .. size - 1}
=============================================================================
