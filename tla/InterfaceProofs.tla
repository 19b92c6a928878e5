-------------------------- MODULE InterfaceProofs --------------------------
(***************************************************************************)
(* What is proved of growlight and its interfaces, for any disks, adapters *)
(* and sizes and any number of changes: disks and records are of their     *)
(* types; the record of a disk, if there is one, is that of the disk once  *)
(* the event thread has heard all, whatever scans fail; a table goes under *)
(* a form only where growlight knows of no mount; and what is drawn        *)
(* follows the record: a selected disk is on its adapter's list, and the   *)
(* zones of a disk are those of its record.                                *)
(***************************************************************************)
EXTENDS Interface, ListProofs

-----------------------------------------------------------------------------
(***************************************************************************)
(* RecordCurrent.  Good relates one disk to its record: "told" says that   *)
(* udev has nothing more to say of it, "heard" that the mounts have been   *)
(* read since they changed, and "left" has those left out then.  Each      *)
(* command tells of the disk it changes or reads it again, so that every   *)
(* step keeps all of them Good.                                            *)
(***************************************************************************)
\* The partitions that are read of a disk.
Kept(t) == IF t.table \in {"none", "unloaded"} THEN {} ELSE DOMAIN t.parts

Alike(r, t) ==
  /\ r.table = t.table
  /\ DOMAIN r.parts = Kept(t)
  /\ r.whole.fs = t.whole.fs
  /\ \A e \in DOMAIN r.parts : r.parts[e].fs = t.parts[e].fs

OfFs(u, w) == u.fs = w.fs
OfAt(u, w) == u.at = w.at
Loose(u) == u.at = ""

SameMounts(d, r, t, left) ==
  /\ OfAt(r.whole, t.whole) \/ (Loose(r.whole) /\ <<d, Whole>> \in left)
  /\ \A e \in DOMAIN r.parts :
       OfAt(r.parts[e], t.parts[e]) \/ (Loose(r.parts[e]) /\ <<d, e>> \in left)

\* But for the mounts.
Apt(t, r, told) ==
  /\ Possible(t) /\ Shaped(r, Use)
  /\ r.table = "gone" => DOMAIN r.parts = {}
  /\ told /\ r.table # "gone" => Alike(r, t)

Good(d, t, r, told, heard, left) ==
  /\ Apt(t, r, told)
  /\ heard /\ r.table = "gone" => MountsOf(d, t) \subseteq left
  /\ heard /\ told /\ r.table # "gone" => SameMounts(d, r, t, left)

LEMMA SameMore ==
  ASSUME NEW left, NEW more, left \subseteq more
  PROVE  \A d, r, t : SameMounts(d, r, t, left) => SameMounts(d, r, t, more)
BY DEF SameMounts

LEMMA BlankUse == Blank \in RealUse /\ Blank \in Use
BY DEF Blank, Fresh, RealUse, Use

\* Uses that are made, each at once one the kernel lets be.
LEMMA NewUses ==
  /\ Fresh("ext4", "invalid") \in RealUse
  /\ \A type \in {"none", "ext4", "swap"} :
       Signed(type) \in RealUse /\ Signed(type).at = "" /\ Signed(type).fs = type
  /\ \A prio \in {"inactive", "on"} :
       LET u == Fresh("swap", prio)
       IN  u \in RealUse /\ u \in Use /\ u.at = "" /\ u.fs = "swap"
BY DEF Signed, Fresh, RealUse, Use

LEMMA GoneShaped ==
  /\ Shaped(Gone, Use) /\ Possible(Gone)
  /\ Gone.table = "gone" /\ DOMAIN Gone.parts = {}
  /\ Gone.whole.at = "" /\ Gone.whole.fs = "none"
<1>1. Gone = [table |-> "gone", parts |-> <<>>, whole |-> Blank]
  BY DEF Gone
<1>2. DOMAIN <<>> = {} /\ <<>> = [e \in DOMAIN <<>> |-> <<>>[e]]
  OBVIOUS
<1>3. Shaped(Gone, Use) /\ Shaped(Gone, RealUse)
  BY <1>1, <1>2, BlankUse DEF Shaped, Tables
<1>4. Blank.at = "" /\ Blank.fs = "none"
  BY DEF Blank, Fresh
<1> QED
  BY <1>1, <1>2, <1>3, <1>4 DEF Possible

\* What is read of a disk is what it has, without its mounts.
Bare(r) == Loose(r.whole) /\ \A e \in DOMAIN r.parts : Loose(r.parts[e])

LEMMA ViewFacts ==
  ASSUME NEW t, Possible(t)
  PROVE  /\ Shaped(View(t), Use) /\ Alike(View(t), t) /\ Bare(View(t))
         /\ View(t).table = "gone" => DOMAIN View(t).parts = {}
<1>1. View(t) = [table |-> t.table, parts |-> [e \in Kept(t) |-> Probed(t.parts[e])],
                 whole |-> Probed(t.whole)]
  BY DEF View, Kept, Possible, Shaped
<1>2. \A u \in RealUse : Probed(u) \in Use /\ Probed(u).fs = u.fs /\ Loose(Probed(u))
  BY DEF RealUse, Use, Probed, Signed, Fresh, Loose
<1>3. t.whole \in RealUse /\ \A e \in Kept(t) : e \in DOMAIN t.parts /\ t.parts[e] \in RealUse
  BY DEF Possible, Shaped, Kept
<1> HIDE DEF Probed
<1>4. Kept(t) \subseteq DOMAIN t.parts /\ View(t).parts = [e \in Kept(t) |-> Probed(t.parts[e])]
  BY <1>1 DEF Kept
<1>5. \A e \in DOMAIN View(t).parts : e # Whole /\ e[1] <= e[2] /\ View(t).parts[e] \in Use
  BY <1>2, <1>3, <1>4 DEF Possible, Shaped
<1>6. View(t).parts = [e \in DOMAIN View(t).parts |-> View(t).parts[e]]
  BY <1>4
<1>7. View(t).table = t.table /\ View(t).whole = Probed(t.whole)
  BY <1>1
<1>8. View(t) = [table |-> View(t).table, parts |-> View(t).parts, whole |-> View(t).whole]
  BY <1>1
<1>9. Shaped(View(t), Use)
  BY <1>2, <1>3, <1>5, <1>6, <1>7, <1>8 DEF Shaped, Possible
<1>10. Alike(View(t), t)
  BY <1>2, <1>3, <1>4, <1>7 DEF Alike
<1>11. Bare(View(t))
  BY <1>2, <1>3, <1>4, <1>7 DEF Bare
<1>12. t.table = "gone" => DOMAIN t.parts = {}
  BY GoneShaped DEF Possible
<1>13. View(t).table = "gone" => DOMAIN View(t).parts = {}
  BY <1>4, <1>7, <1>12
<1> QED
  BY <1>9, <1>10, <1>11, <1>13

\* What is mounted of a disk.
LEMMA MountsAre ==
  ASSUME NEW d, NEW t, Possible(t)
  PROVE  /\ <<d, Whole>> \in MountsOf(d, t) <=> ~Loose(t.whole)
         /\ \A e \in DOMAIN t.parts : <<d, e>> \in MountsOf(d, t) <=> ~Loose(t.parts[e])
         /\ \A l \in MountsOf(d, t) : l = <<d, l[2]>> /\ l[2] \in {Whole} \cup DOMAIN t.parts
<1>1. \A v : <<d, v>> \in MountsOf(d, t)
               <=> v \in {Whole} \cup DOMAIN t.parts /\ ~Loose(UseOf(t, v))
  BY DEF MountsOf, Loose
<1>2. UseOf(t, Whole) = t.whole
  BY DEF UseOf
<1>3. \A e \in DOMAIN t.parts : UseOf(t, e) = t.parts[e]
  BY DEF UseOf, Possible, Shaped
<1>4. \A l \in MountsOf(d, t) : l = <<d, l[2]>> /\ l[2] \in {Whole} \cup DOMAIN t.parts
  <2> TAKE l \in MountsOf(d, t)
  <2>1. PICK v \in {Whole} \cup DOMAIN t.parts : l = <<d, v>>
    BY DEF MountsOf
  <2>2. l[2] = v
    BY <2>1
  <2> QED
    BY <2>1, <2>2
<1> QED
  BY <1>1, <1>2, <1>3, <1>4

LEMMA LinesAre ==
  ASSUME NEW truth, NEW d \in Dev
  PROVE  \A v : <<d, v>> \in MountsOf(d, truth[d]) <=> <<d, v>> \in Lines(truth)
<1> SUFFICES ASSUME NEW v, <<d, v>> \in Lines(truth) PROVE <<d, v>> \in MountsOf(d, truth[d])
  BY DEF Lines
<1>1. PICK x \in Dev : <<d, v>> \in MountsOf(x, truth[x])
  BY DEF Lines
<1>2. x = d
  BY <1>1 DEF MountsOf
<1> QED
  BY <1>1, <1>2

\* Where no more is mounted.
Fewer(t, t1) ==
  /\ Loose(t.whole) => Loose(t1.whole)
  /\ \A e \in DOMAIN t1.parts :
       Loose(t1.parts[e]) \/ (e \in DOMAIN t.parts /\ ~Loose(t.parts[e]))

LEMMA FewerMounts ==
  ASSUME NEW d, NEW t, NEW t1, Possible(t), Possible(t1), Fewer(t, t1)
  PROVE  MountsOf(d, t1) \subseteq MountsOf(d, t)
<1> SUFFICES ASSUME NEW l \in MountsOf(d, t1) PROVE l \in MountsOf(d, t)
  OBVIOUS
<1>1. l = <<d, l[2]>> /\ l[2] \in {Whole} \cup DOMAIN t1.parts
  BY MountsAre
<1>2. CASE l[2] = Whole
  <2>1. ~Loose(t1.whole)
    BY <1>1, <1>2, MountsAre
  <2>2. ~Loose(t.whole)
    BY <2>1 DEF Fewer
  <2> QED
    BY <1>1, <1>2, <2>2, MountsAre
<1>3. CASE l[2] \in DOMAIN t1.parts
  <2>1. ~Loose(t1.parts[l[2]])
    BY <1>1, <1>3, MountsAre
  <2>2. l[2] \in DOMAIN t.parts /\ ~Loose(t.parts[l[2]])
    BY <1>3, <2>1 DEF Fewer
  <2> QED
    BY <1>1, <2>2, MountsAre
<1> QED
  BY <1>1, <1>2, <1>3

\* A record that was not read for mounts shows none, and that is right if all are left out.
LEMMA BareMounts ==
  ASSUME NEW d, NEW r, NEW t, NEW left, Possible(t), Alike(r, t), Bare(r),
         MountsOf(d, t) \subseteq left
  PROVE  SameMounts(d, r, t, left)
<1>1. \A e \in DOMAIN r.parts : e \in DOMAIN t.parts
  BY DEF Alike, Kept
<1>2. \A u, w : Loose(u) /\ Loose(w) => OfAt(u, w)
  BY DEF Loose, OfAt
<1>3. OfAt(r.whole, t.whole) \/ (Loose(r.whole) /\ <<d, Whole>> \in left)
  <2>1. Loose(t.whole) \/ <<d, Whole>> \in left
    BY MountsAre
  <2> QED
    BY <1>2, <2>1 DEF Bare
<1>4. ASSUME NEW e \in DOMAIN r.parts
      PROVE  OfAt(r.parts[e], t.parts[e]) \/ (Loose(r.parts[e]) /\ <<d, e>> \in left)
  <2>1. Loose(t.parts[e]) \/ <<d, e>> \in left
    BY <1>1, MountsAre
  <2> QED
    BY <1>2, <2>1 DEF Bare
<1> QED
  BY <1>3, <1>4 DEF SameMounts

\* Reading the mounts again changes nothing else of a record that is like the disk.
LEMMA MountedFacts ==
  ASSUME NEW d, NEW r, NEW t, NEW V, NEW left, Shaped(r, Use), Possible(t),
         V \subseteq {Whole} \cup DOMAIN t.parts,
         \A l \in MountsOf(d, t) : l[2] \in V \/ l \in left
  PROVE  /\ Shaped(Mounted(r, t, V), Use) /\ Mounted(r, t, V).table = r.table
         /\ DOMAIN Mounted(r, t, V).parts = DOMAIN r.parts
         /\ Alike(r, t) => Alike(Mounted(r, t, V), t) /\ SameMounts(d, Mounted(r, t, V), t, left)
<1> DEFINE m == Mounted(r, t, V)
           of == [e \in DOMAIN r.parts |-> IF e \in V THEN t.parts[e] ELSE Blank]
           ofWhole == IF Whole \in V THEN t.whole ELSE Blank
<1>1. m = [table |-> r.table, parts |-> [e \in DOMAIN r.parts |-> MountedUse(r.parts[e], of[e])],
           whole |-> MountedUse(r.whole, ofWhole)]
  BY DEF Mounted
<1>2. \A u \in Use, w \in RealUse :
        /\ MountedUse(u, w) \in Use /\ OfAt(MountedUse(u, w), w)
        /\ OfFs(u, w) \/ Loose(w) => OfFs(MountedUse(u, w), u)
  <2> TAKE u \in Use, w \in RealUse
  <2>1. MountedUse(u, w) \in Use /\ OfAt(MountedUse(u, w), w)
    BY DEF MountedUse, Use, RealUse, OfAt
  <2>2. OfFs(u, w) => OfFs(MountedUse(u, w), u)
    BY DEF MountedUse, Use, RealUse, OfFs
  <2>3. Loose(w) => OfFs(MountedUse(u, w), u)
    BY DEF MountedUse, Use, RealUse, OfFs, Loose
  <2> QED
    BY <2>1, <2>2, <2>3
<1>3. Loose(Blank) /\ Blank \in RealUse
  BY BlankUse DEF Blank, Fresh, Loose
<1>4. /\ r.whole \in Use
      /\ \A e \in DOMAIN r.parts : e # Whole /\ e[1] <= e[2] /\ r.parts[e] \in Use
  BY DEF Shaped
<1>5. /\ t.whole \in RealUse
      /\ \A e \in DOMAIN t.parts : e # Whole /\ t.parts[e] \in RealUse
  BY DEF Possible, Shaped
<1>6. ofWhole \in RealUse /\ \A e \in DOMAIN r.parts : of[e] \in RealUse
  <2>1. \A e \in DOMAIN r.parts : e \in V => e \in DOMAIN t.parts
    BY <1>4
  <2> QED
    BY <1>3, <1>5, <2>1
<1>7. \/ ofWhole = t.whole
      \/ Loose(ofWhole) /\ (Loose(t.whole) \/ <<d, Whole>> \in left)
  <2>1. <<d, Whole>> \in MountsOf(d, t) => Whole \in V \/ <<d, Whole>> \in left
    OBVIOUS
  <2> QED
    BY <1>3, <2>1, MountsAre
<1>8. \A e \in DOMAIN t.parts : e \in DOMAIN r.parts =>
        \/ of[e] = t.parts[e]
        \/ Loose(of[e]) /\ (Loose(t.parts[e]) \/ <<d, e>> \in left)
  <2>1. \A e : <<d, e>> \in MountsOf(d, t) => e \in V \/ <<d, e>> \in left
    <3>1. \A e : <<d, e>>[2] = e
      OBVIOUS
    <3> QED
      BY <3>1
  <2> QED
    BY <1>3, <2>1, MountsAre
<1> HIDE DEF of, ofWhole
<1>9. /\ m.table = r.table /\ m.whole = MountedUse(r.whole, ofWhole)
      /\ DOMAIN m.parts = DOMAIN r.parts
      /\ \A e \in DOMAIN r.parts : m.parts[e] = MountedUse(r.parts[e], of[e])
      /\ m.parts = [e \in DOMAIN m.parts |-> m.parts[e]]
      /\ m = [table |-> m.table, parts |-> m.parts, whole |-> m.whole]
  BY <1>1
<1> HIDE DEF m
<1>10. Shaped(m, Use)
  BY <1>2, <1>4, <1>6, <1>9 DEF Shaped
<1>11. ASSUME Alike(r, t) PROVE Alike(m, t) /\ SameMounts(d, m, t, left)
  <2>1. \A e \in DOMAIN r.parts : e \in DOMAIN t.parts
    BY <1>11 DEF Alike, Kept
  <2>2. OfFs(m.whole, t.whole) /\ OfAt(m.whole, ofWhole)
    <3>1. OfFs(r.whole, t.whole)
      BY <1>11 DEF Alike, OfFs
    <3>2. OfFs(m.whole, r.whole) /\ OfAt(m.whole, ofWhole)
      BY <1>2, <1>4, <1>6, <1>7, <1>9, <3>1
    <3> QED
      BY <3>1, <3>2 DEF OfFs
  <2>3. ASSUME NEW e \in DOMAIN r.parts
        PROVE  OfFs(m.parts[e], t.parts[e]) /\ OfAt(m.parts[e], of[e])
    <3>1. OfFs(r.parts[e], t.parts[e])
      BY <1>11 DEF Alike, OfFs
    <3>2. of[e] = t.parts[e] \/ Loose(of[e])
      BY <1>8, <2>1
    <3>3. OfFs(m.parts[e], r.parts[e]) /\ OfAt(m.parts[e], of[e])
      BY <1>2, <1>4, <1>6, <1>9, <3>1, <3>2
    <3> QED
      BY <3>1, <3>3 DEF OfFs
  <2>4. Alike(m, t)
    BY <1>9, <1>11, <2>2, <2>3 DEF Alike, OfFs
  <2>5. \A u, v, w : OfAt(u, v) /\ Loose(v) /\ Loose(w) => OfAt(u, w)
    BY DEF OfAt, Loose
  <2>6. \A u, v : OfAt(u, v) /\ Loose(v) => Loose(u)
    BY DEF OfAt, Loose
  <2>7. OfAt(m.whole, t.whole) \/ (Loose(m.whole) /\ <<d, Whole>> \in left)
    BY <1>7, <2>2, <2>5, <2>6
  <2>8. ASSUME NEW e \in DOMAIN r.parts
        PROVE  OfAt(m.parts[e], t.parts[e]) \/ (Loose(m.parts[e]) /\ <<d, e>> \in left)
    BY <1>8, <2>1, <2>3, <2>5, <2>6
  <2> QED
    BY <1>9, <2>4, <2>7, <2>8 DEF SameMounts
<1> QED
  BY <1>9, <1>10, <1>11 DEF m
-----------------------------------------------------------------------------
\* A disk that is there.
Here(t) == Shaped(t, RealUse) /\ t.table # "gone"

LEMMA HerePossible == \A t : Here(t) => Possible(t)
BY DEF Here, Possible

\* Whatever lines were read, those that were not are left out.
LEMMA GoodParsed ==
  ASSUME NEW truth, NEW records, NEW L \in Readings(records, truth), NEW d \in Dev,
         NEW udev, Apt(truth[d], records[d], d \notin udev)
  PROVE  Good(d, truth[d], Reparsed(records, truth, L)[d], d \notin udev, TRUE, Lines(truth) \ L)
<1> DEFINE t == truth[d]
           told == d \notin udev
           q == FoundIn(records, truth, d, L)
           V == {v \in {Whole} \cup DOMAIN t.parts : <<d, v>> \in L}
           m == Mounted(q, t, V)
           left == Lines(truth) \ L
<1>1. Reparsed(records, truth, L)[d] = m
  BY DEF Reparsed
<1>2. /\ Possible(t)
      /\ q = IF <<d, Whole>> \in L /\ records[d].table = "gone" THEN View(t) ELSE records[d]
  BY DEF Apt, FoundIn, Discovered
<1>3. Apt(t, q, told)
  BY <1>2, ViewFacts DEF Apt
<1>4. \A l \in MountsOf(d, t) : l[2] \in V \/ l \in left
  <2> TAKE l \in MountsOf(d, t)
  <2>1. l = <<d, l[2]>> /\ l[2] \in {Whole} \cup DOMAIN t.parts
    BY <1>2, MountsAre
  <2>2. l \in Lines(truth)
    BY <2>1, LinesAre
  <2> QED
    BY <2>1, <2>2
<1>5. V \subseteq {Whole} \cup DOMAIN t.parts
  OBVIOUS
<1>6. \A l \in L : l[1] = d => l[2] = Whole \/ l[2] \in DOMAIN q.parts
  BY DEF Readings
<1>7. L \subseteq Lines(truth)
  BY DEF Readings
<1> HIDE DEF q, V
<1>8. /\ Shaped(m, Use) /\ m.table = q.table /\ DOMAIN m.parts = DOMAIN q.parts
      /\ Alike(q, t) => Alike(m, t) /\ SameMounts(d, m, t, left)
  <2> HIDE DEF t, m, left
  <2>1. Shaped(q, Use) /\ Possible(t)
    BY <1>2, <1>3 DEF Apt
  <2>2. /\ Shaped(Mounted(q, t, V), Use) /\ Mounted(q, t, V).table = q.table
        /\ DOMAIN Mounted(q, t, V).parts = DOMAIN q.parts
        /\ Alike(q, t) => Alike(Mounted(q, t, V), t) /\ SameMounts(d, Mounted(q, t, V), t, left)
    BY <1>4, <1>5, <2>1, MountedFacts
  <2> QED
    BY <2>2 DEF m
<1> HIDE DEF m
<1>9. ASSUME m.table = "gone" PROVE MountsOf(d, t) \subseteq left
  <2> SUFFICES ASSUME NEW l \in MountsOf(d, t), l \notin left PROVE FALSE
    OBVIOUS
  <2>1. l = <<d, l[2]>> /\ l[2] \in {Whole} \cup DOMAIN t.parts
    BY <1>2, MountsAre
  <2>2. l \in L
    BY <2>1, LinesAre
  <2>3. DOMAIN q.parts = {}
    BY <1>3, <1>8, <1>9 DEF Apt
  <2>4. l = <<d, Whole>>
    BY <1>6, <2>1, <2>2, <2>3
  <2>5. View(t).table = "gone" /\ View(t).table = t.table
    BY <1>2, <1>8, <1>9, <2>2, <2>4, ViewFacts DEF Alike
  <2>6. Loose(t.whole)
    BY <1>2, <2>5, GoneShaped DEF Possible, Loose
  <2> QED
    BY <1>2, <2>4, <2>6, MountsAre
<1>10. Apt(t, m, told) /\ (told /\ m.table # "gone" => SameMounts(d, m, t, left))
  BY <1>3, <1>8 DEF Apt
<1> QED
  BY <1>1, <1>9, <1>10 DEF Good

VolumesInv ==
  /\ disk = [d \in Dev |-> disk[d]] /\ rec = [d \in Dev |-> rec[d]]
  /\ \A d \in Dev : Good(d, disk[d], rec[d], d \notin uevents, "mounts" \notin proc, unread)

\* Where all mounts have been read again.
LEMMA ParseKeeps ==
  ASSUME NEW records, NEW truth, Parse(records, truth), disk' = truth,
         truth = [x \in Dev |-> truth[x]],
         \A x \in Dev : Apt(truth[x], records[x], x \notin uevents')
  PROVE  VolumesInv'
<1>1. PICK L \in Readings(records, truth) :
        rec' = Reparsed(records, truth, L) /\ unread' = Lines(truth) \ L
  BY DEF Parse
<1>2. ASSUME NEW x \in Dev
      PROVE  Good(x, disk'[x], rec'[x], x \notin uevents', "mounts" \notin proc', unread')
  <2>1. Good(x, truth[x], Reparsed(records, truth, L)[x], x \notin uevents', TRUE, Lines(truth) \ L)
    BY <1>1, <1>2, GoodParsed
  <2>2. Good(x, truth[x], rec'[x], x \notin uevents', TRUE, unread')
    BY <1>1, <2>1
  <2> QED
    BY <2>2 DEF Good
<1>3. rec' = [x \in Dev |-> rec'[x]]
  BY <1>1 DEF Reparsed
<1> QED
  BY <1>2, <1>3 DEF VolumesInv

\* Where a disk is dropped.
LEMMA DropKeeps ==
  ASSUME VolumesInv, NEW d, Drop(d), disk' = [x \in Dev |-> disk'[x]],
         \A x \in Dev : x # d => disk'[x] = disk[x],
         d \in Dev => Possible(disk'[d]),
         uevents \subseteq uevents' \cup {d}, proc \subseteq proc'
  PROVE  VolumesInv'
<1>1. /\ rec' = [x \in Dev |-> rec'[x]] /\ unread \subseteq unread'
      /\ d \in Dev => rec'[d] = Gone /\ MountsOf(d, disk'[d]) \subseteq unread'
      /\ \A x \in Dev : x # d => rec'[x] = rec[x]
  BY DEF Drop, VolumesInv
<1>2. ASSUME NEW x \in Dev
      PROVE  Good(x, disk'[x], rec'[x], x \notin uevents', "mounts" \notin proc', unread')
  <2>1. CASE x = d
    BY <1>1, <2>1, GoneShaped DEF Good, Apt
  <2>2. CASE x # d
    <3>1. Good(x, disk'[x], rec'[x], x \notin uevents, "mounts" \notin proc, unread)
      BY <1>1, <2>2 DEF VolumesInv
    <3> QED
      BY <1>1, <2>2, <3>1, SameMore DEF Good, Apt
  <2> QED
    BY <2>1, <2>2
<1> QED
  BY <1>1, <1>2 DEF VolumesInv

\* Where a disk has not been read, but will be.
LEMMA ToldKeeps ==
  ASSUME VolumesInv, NEW d,
         disk' = [x \in Dev |-> disk'[x]], rec' = [x \in Dev |-> rec'[x]],
         \A x \in Dev : x # d => disk'[x] = disk[x] /\ rec'[x] = rec[x],
         d \in Dev => /\ Possible(disk'[d]) /\ Shaped(rec'[d], Use)
                      /\ rec'[d].table = rec[d].table
                      /\ rec[d].table = "gone" =>
                           DOMAIN rec'[d].parts = DOMAIN rec[d].parts /\ Fewer(disk[d], disk'[d]),
         unread' = unread, d \in uevents', uevents \subseteq uevents', proc \subseteq proc'
  PROVE  VolumesInv'
<1>1. ASSUME NEW x \in Dev
      PROVE  Good(x, disk'[x], rec'[x], x \notin uevents', "mounts" \notin proc', unread)
  <2>1. Good(x, disk[x], rec[x], x \notin uevents, "mounts" \notin proc, unread)
    BY DEF VolumesInv
  <2>2. CASE x = d
    <3>1. rec[x].table = "gone" => MountsOf(x, disk'[x]) \subseteq MountsOf(x, disk[x])
      BY <2>1, <2>2, FewerMounts DEF Good, Apt
    <3> QED
      BY <2>1, <2>2, <3>1 DEF Good, Apt
  <2>3. CASE x # d
    BY <2>1, <2>3 DEF Good, Apt
  <2> QED
    BY <2>2, <2>3
<1> QED
  BY <1>1 DEF VolumesInv

\* Where a disk may have been read again, what was done to it need only leave it possible.
LEMMA RescanKeeps ==
  ASSUME VolumesInv, NEW d, Rescan(d), disk' = [x \in Dev |-> disk'[x]],
         \A x \in Dev : x # d => disk'[x] = disk[x],
         d \in Dev => Possible(disk'[d]) /\ (rec[d].table = "gone" => Fewer(disk[d], disk'[d])),
         uevents \subseteq uevents', proc \subseteq proc', d \in uevents' \/ disk' = disk
  PROVE  VolumesInv'
<1>1. CASE UNCHANGED <<rec, unread>>
  <2>1. CASE d \in uevents'
    BY <1>1, <2>1, ToldKeeps DEF VolumesInv, Good, Apt
  <2>2. CASE disk' = disk
    BY <1>1, <2>2 DEF VolumesInv, Good, Apt
  <2> QED
    BY <2>1, <2>2
<1>2. CASE Drop(d)
  BY <1>2, DropKeeps
<1>3. CASE Parse([rec EXCEPT ![d] = View(disk'[d])], disk')
  <2> DEFINE q == [rec EXCEPT ![d] = View(disk'[d])]
  <2>1. \A x \in Dev : q[x] = IF x = d THEN View(disk'[x]) ELSE rec[x]
    BY DEF VolumesInv
  <2>2. ASSUME NEW x \in Dev PROVE Apt(disk'[x], q[x], x \notin uevents')
    <3>1. Apt(disk[x], rec[x], x \notin uevents)
      BY DEF VolumesInv, Good
    <3>2. CASE x = d
      BY <2>1, <3>2, ViewFacts DEF Apt
    <3>3. CASE x # d
      BY <2>1, <3>1, <3>3 DEF Apt
    <3> QED
      BY <3>2, <3>3
  <2> HIDE DEF q
  <2>3. Parse(q, disk')
    BY <1>3 DEF q
  <2> QED
    BY <2>2, <2>3, ParseKeeps
<1> QED
  BY <1>1, <1>2, <1>3 DEF Rescan

\* Where only what is mounted has changed, or a priority.
LEMMA UsedKeeps ==
  ASSUME VolumesInv, NEW d,
         disk' = [x \in Dev |-> disk'[x]], rec' = [x \in Dev |-> rec'[x]],
         \A x \in Dev : x # d => disk'[x] = disk[x] /\ rec'[x] = rec[x],
         d \in Dev => Good(d, disk'[d], rec'[d], d \notin uevents', "mounts" \notin proc', unread),
         unread' = unread, uevents' = uevents, proc \subseteq proc'
  PROVE  VolumesInv'
<1>1. ASSUME NEW x \in Dev
      PROVE  Good(x, disk'[x], rec'[x], x \notin uevents', "mounts" \notin proc', unread)
  <2>1. CASE x # d
    BY <2>1 DEF Good, Apt, VolumesInv
  <2> QED
    BY <2>1
<1> QED
  BY <1>1 DEF VolumesInv
-----------------------------------------------------------------------------
\* What becomes of a disk that is there, whatever is done to it.
LEMMA TableFacts ==
  ASSUME NEW t, Possible(t), t.table # "gone", NEW table \in {"none", "gpt", "dos", "mac"},
         NEW kept \in {t.parts, <<>>}
  PROVE  Possible([t EXCEPT !.table = table, !.parts = kept])
<1> DEFINE q == [t EXCEPT !.table = table]
           s == [q EXCEPT !.parts = kept]
<1>1. /\ q.table = table /\ q.parts = t.parts /\ q.whole = t.whole
      /\ q = [table |-> q.table, parts |-> q.parts, whole |-> q.whole]
  BY DEF Possible, Shaped
<1>2. /\ s.table = table /\ s.parts = kept /\ s.whole = t.whole
      /\ s = [table |-> s.table, parts |-> s.parts, whole |-> s.whole]
  <2> HIDE DEF q
  <2> QED
    BY <1>1
<1>3. /\ kept = [e \in DOMAIN kept |-> kept[e]]
      /\ \A e \in DOMAIN kept : e # Whole /\ e[1] <= e[2] /\ kept[e] \in RealUse
  <2>1. CASE kept = t.parts
    BY <2>1 DEF Possible, Shaped
  <2>2. CASE kept = <<>>
    BY <2>2
  <2> QED
    BY <2>1, <2>2
<1>4. s = [t EXCEPT !.table = table, !.parts = kept]
  OBVIOUS
<1> HIDE DEF s
<1>5. Possible(s)
  BY <1>2, <1>3 DEF Possible, Shaped, Tables
<1> QED
  BY <1>4, <1>5

\* A use changes of one volume.
LEMMA UseWhole ==
  ASSUME NEW t, NEW U, Shaped(t, U), NEW u \in U
  PROVE  /\ Shaped(WithUse(t, Whole, u), U)
         /\ WithUse(t, Whole, u).table = t.table
         /\ WithUse(t, Whole, u).parts = t.parts
         /\ WithUse(t, Whole, u).whole = u
<1> DEFINE q == WithUse(t, Whole, u)
<1>1. /\ q.table = t.table /\ q.parts = t.parts /\ q.whole = u
      /\ q = [table |-> q.table, parts |-> q.parts, whole |-> q.whole]
  BY DEF WithUse, Shaped
<1> HIDE DEF q
<1>2. Shaped(q, U)
  BY <1>1 DEF Shaped
<1> QED
  BY <1>1, <1>2 DEF q

LEMMA UsePart ==
  ASSUME NEW t, NEW U, Shaped(t, U), NEW v \in DOMAIN t.parts, NEW u \in U
  PROVE  /\ Shaped(WithUse(t, v, u), U)
         /\ WithUse(t, v, u).table = t.table
         /\ DOMAIN WithUse(t, v, u).parts = DOMAIN t.parts
         /\ WithUse(t, v, u).whole = t.whole
<1> DEFINE q == WithUse(t, v, u)
<1>1. /\ q.table = t.table /\ q.parts = [t.parts EXCEPT ![v] = u] /\ q.whole = t.whole
      /\ q = [table |-> q.table, parts |-> q.parts, whole |-> q.whole]
  BY DEF WithUse, Shaped
<1> HIDE DEF q
<1>2. /\ DOMAIN q.parts = DOMAIN t.parts
      /\ \A e \in DOMAIN t.parts : q.parts[e] = IF e = v THEN u ELSE t.parts[e]
      /\ q.parts = [e \in DOMAIN q.parts |-> q.parts[e]]
  BY <1>1
<1>3. Shaped(q, U)
  BY <1>1, <1>2 DEF Shaped
<1> QED
  BY <1>1, <1>2, <1>3 DEF q

LEMMA UsePartOf ==
  ASSUME NEW t, NEW U, Shaped(t, U), NEW v \in DOMAIN t.parts, NEW u, NEW e \in DOMAIN t.parts
  PROVE  WithUse(t, v, u).parts[e] = (IF e = v THEN u ELSE t.parts[e])
<1>1. WithUse(t, v, u).parts = [t.parts EXCEPT ![v] = u]
  BY DEF WithUse, Shaped
<1> QED
  BY <1>1

LEMMA PartsFacts ==
  ASSUME NEW t, Possible(t), t.table # "gone", NEW ps,
         ps = [e \in DOMAIN ps |-> ps[e]],
         \A e \in DOMAIN ps : e # Whole /\ e[1] <= e[2] /\ ps[e] \in RealUse
  PROVE  Possible([t EXCEPT !.parts = ps])
<1> DEFINE q == [t EXCEPT !.parts = ps]
<1>1. /\ q.table = t.table /\ q.parts = ps /\ q.whole = t.whole
      /\ q = [table |-> q.table, parts |-> q.parts, whole |-> q.whole]
  BY DEF Possible, Shaped
<1> HIDE DEF q
<1>2. Possible(q)
  BY <1>1 DEF Possible, Shaped
<1> QED
  BY <1>2 DEF q

LEMMA WithFacts ==
  ASSUME NEW t, Possible(t), t.table # "gone", NEW f, NEW l, f <= l, NEW u \in RealUse
  PROVE  Possible([t EXCEPT !.parts = With(@, <<f, l>>, u)])
<1> DEFINE e0 == <<f, l>>
           ps == With(t.parts, e0, u)
<1>1. e0 # Whole /\ e0[1] <= e0[2]
  BY DEF Whole
<1> HIDE DEF e0
<1>2. /\ ps = [e \in DOMAIN ps |-> ps[e]]
      /\ \A e \in DOMAIN ps : e # Whole /\ e[1] <= e[2] /\ ps[e] \in RealUse
  BY <1>1 DEF With, Possible, Shaped
<1>3. Possible([t EXCEPT !.parts = ps])
  <2> HIDE DEF ps
  <2> QED
    BY <1>2, PartsFacts
<1> QED
  BY <1>3 DEF e0

LEMMA LessFacts ==
  ASSUME NEW t, Possible(t), t.table # "gone", NEW v
  PROVE  Possible([t EXCEPT !.parts = Less(@, v)])
<1> DEFINE ps == Less(t.parts, v)
<1>1. /\ ps = [e \in DOMAIN ps |-> ps[e]]
      /\ \A e \in DOMAIN ps : e # Whole /\ e[1] <= e[2] /\ ps[e] \in RealUse
  BY DEF Less, Possible, Shaped
<1>2. Possible([t EXCEPT !.parts = ps])
  <2> HIDE DEF ps
  <2> QED
    BY <1>1, PartsFacts
<1> QED
  BY <1>2
-----------------------------------------------------------------------------
(***************************************************************************)
(* Commands after which the disk is read again.                            *)
(***************************************************************************)
LEMMA EditFacts ==
  ASSUME VolumesInv, NEW d, NEW t, disk' = [disk EXCEPT ![d] = t]
  PROVE  /\ disk' = [x \in Dev |-> disk'[x]]
         /\ \A x \in Dev : x # d => disk'[x] = disk[x]
         /\ d \in Dev => disk'[d] = t /\ Possible(disk[d])
BY DEF VolumesInv, Good, Apt

LEMMA ReadAgainKeeps ==
  ASSUME VolumesInv, NEW d, NEW t, disk' = [disk EXCEPT ![d] = t], Rescan(d),
         d \in Dev => Possible(t) /\ (rec[d].table = "gone" => Fewer(disk[d], t)),
         uevents' = uevents \cup {d}, proc' = proc
  PROVE  VolumesInv'
BY EditFacts, RescanKeeps

LEMMA MakePartitionTableKeeps ==
  ASSUME VolumesInv, NEW d, NEW pty \in Creatable \cup {"mdp"}, MakePartitionTable(d, pty)
  PROVE  VolumesInv'
<1>1. CASE pty = "mdp"
  BY <1>1 DEF MakePartitionTable, VolumesInv
<1>2. CASE pty # "mdp"
  <2>1. PICK kept \in Reread(disk[d]) :
          disk' = [disk EXCEPT ![d] = [@ EXCEPT !.table = Detected(pty), !.parts = kept]]
    BY <1>2 DEF MakePartitionTable
  <2> DEFINE t == [disk[d] EXCEPT !.table = Detected(pty), !.parts = kept]
  <2>2. /\ Present(d) /\ Rescan(d) /\ Tell(d) /\ proc' = proc /\ rec[d].table # "gone"
        /\ disk' = [disk EXCEPT ![d] = t]
    BY <1>2, <2>1 DEF MakePartitionTable
  <2>3. Detected(pty) \in {"none", "gpt", "dos", "mac"}
    BY <1>2 DEF Detected, Creatable
  <2>4. kept \in {disk[d].parts, <<>>}
    BY <2>1 DEF Reread
  <2>5. d \in Dev => Possible(t)
    BY <2>2, <2>3, <2>4, TableFacts DEF VolumesInv, Good, Apt, Present
  <2> HIDE DEF t
  <2> QED
    BY <2>2, <2>5, ReadAgainKeeps DEF Tell
<1> QED
  BY <1>1, <1>2

\* What is left of a disk whose table was zapped.
LEMMA ZappedFacts ==
  ASSUME NEW t, Possible(t), t.table # "gone", NEW pty, NEW s \in Zapped(pty, t)
  PROVE  /\ Possible(s) /\ s.parts \in {t.parts, <<>>} /\ s.table # "gone"
         /\ s.whole = t.whole \/ (s.whole = Blank /\ ~InUse(t))
<1>1. CASE s = t
  BY <1>1
<1>2. CASE s # t
  <2>1. PICK kept \in Reread(t) :
          s = [table |-> "none", parts |-> kept,
               whole |-> IF pty = "gpt" /\ ~InUse(t) THEN Blank ELSE t.whole]
    BY <1>2 DEF Zapped
  <2>2. kept \in {t.parts, <<>>}
    BY <2>1 DEF Reread
  <2>3. /\ kept = [e \in DOMAIN kept |-> kept[e]]
        /\ \A e \in DOMAIN kept : e # Whole /\ e[1] <= e[2] /\ kept[e] \in RealUse
    <3>1. CASE kept = t.parts
      BY <3>1 DEF Possible, Shaped
    <3>2. CASE kept = <<>>
      BY <3>2
    <3> QED
      BY <2>2, <3>1, <3>2
  <2>4. /\ s.table = "none" /\ s.parts = kept
        /\ s.whole = t.whole \/ (s.whole = Blank /\ ~InUse(t))
        /\ s = [table |-> s.table, parts |-> s.parts, whole |-> s.whole]
    BY <2>1
  <2>5. s.whole \in RealUse
    BY <2>4, BlankUse DEF Possible, Shaped
  <2>6. Possible(s)
    BY <2>3, <2>4, <2>5 DEF Possible, Shaped, Tables
  <2> QED
    BY <2>2, <2>4, <2>6
<1> QED
  BY <1>1, <1>2

LEMMA WipePtableKeeps ==
  ASSUME VolumesInv, NEW d, WipePtable(d)
  PROVE  VolumesInv'
<1>1. PICK t \in Zapped(rec[d].table, disk[d]) : disk' = [disk EXCEPT ![d] = t]
  BY DEF WipePtable
<1>2. /\ Present(d) /\ Rescan(d) /\ Tell(d) /\ proc' = proc /\ rec[d].table # "gone"
  BY DEF WipePtable, Supported
<1>3. d \in Dev => Possible(t)
  BY <1>2, ZappedFacts DEF VolumesInv, Good, Apt, Present
<1> QED
  BY <1>1, <1>2, <1>3, ReadAgainKeeps DEF Tell

LEMMA WipeDosmbrKeeps ==
  ASSUME VolumesInv, NEW d, WipeDosmbr(d)
  PROVE  VolumesInv'
<1> DEFINE t == [disk[d] EXCEPT !.table = "none"]
<1>1. /\ Present(d) /\ Rescan(d) /\ Tell(d) /\ proc' = proc
      /\ disk' = [disk EXCEPT ![d] = t]
  BY DEF WipeDosmbr
<1>2. ASSUME d \in Dev PROVE Possible(t) /\ Fewer(disk[d], t)
  <2>1. Possible(disk[d])
    BY <1>2 DEF VolumesInv, Good, Apt
  <2>2. /\ t.table = "none" /\ t.parts = disk[d].parts /\ t.whole = disk[d].whole
        /\ t = [table |-> t.table, parts |-> t.parts, whole |-> t.whole]
    BY <2>1 DEF Possible, Shaped
  <2> HIDE DEF t
  <2>3. Possible(t)
    BY <2>1, <2>2 DEF Possible, Shaped, Tables
  <2> QED
    BY <2>2, <2>3 DEF Fewer
<1> HIDE DEF t
<1> QED
  BY <1>1, <1>2, ReadAgainKeeps DEF Tell

LEMMA AddPartitionKeeps ==
  ASSUME VolumesInv, NEW d, NEW named, NEW f, NEW l, AddPartition(d, named, f, l)
  PROVE  VolumesInv'
<1>1. PICK u \in {Blank, Fresh("ext4", "invalid")} :
        disk' = [disk EXCEPT ![d].parts = With(@, <<f, l>>, u)]
  BY DEF AddPartition
<1> DEFINE t == [disk[d] EXCEPT !.parts = With(@, <<f, l>>, u)]
<1>2. /\ f <= l /\ Present(d) /\ Rescan(d) /\ Tell(d) /\ proc' = proc
      /\ rec[d].table # "gone" /\ disk' = [disk EXCEPT ![d] = t]
  BY <1>1 DEF AddPartition, Offered, Supported
<1>3. u \in RealUse
  BY BlankUse, NewUses
<1>4. d \in Dev => Possible(t)
  BY <1>2, <1>3, WithFacts DEF VolumesInv, Good, Apt, Present
<1> HIDE DEF t
<1> QED
  BY <1>2, <1>4, ReadAgainKeeps DEF Tell

LEMMA RescannedKeeps ==
  ASSUME VolumesInv, NEW d, Rescanned(d)
  PROVE  VolumesInv'
<1>1. Rescan(d) /\ disk' = disk /\ uevents' = uevents /\ proc' = proc
  BY DEF Rescanned
<1>2. \A x \in Dev : Possible(disk[x]) /\ Fewer(disk[x], disk[x])
  BY DEF VolumesInv, Good, Apt, Fewer
<1>3. disk = [x \in Dev |-> disk[x]]
  BY DEF VolumesInv
<1> QED
  BY <1>1, <1>2, <1>3, RescanKeeps
-----------------------------------------------------------------------------
(***************************************************************************)
(* Commands and events after which the disk will be read again.            *)
(***************************************************************************)
LEMMA WipePartitionKeeps ==
  ASSUME VolumesInv, NEW d, NEW v, WipePartition(d, v)
  PROVE  VolumesInv'
<1>1. CASE v = Whole
  BY <1>1 DEF WipePartition, VolumesInv
<1>2. CASE v # Whole
  <2> DEFINE t == [disk[d] EXCEPT !.parts = Less(@, v)]
  <2>1. /\ Present(d) /\ Tell(d) /\ proc' = proc /\ rec[d].table # "gone"
        /\ rec' = rec /\ unread' = unread /\ disk' = [disk EXCEPT ![d] = t]
    BY <1>2 DEF WipePartition, There, Supported
  <2>2. d \in Dev => Possible(t) /\ Shaped(rec[d], Use)
    BY <2>1, LessFacts DEF VolumesInv, Good, Apt, Present
  <2>3. rec = [x \in Dev |-> rec[x]]
    BY DEF VolumesInv
  <2> HIDE DEF t
  <2> QED
    BY <2>1, <2>2, <2>3, EditFacts, ToldKeeps DEF Tell
<1> QED
  BY <1>1, <1>2

LEMMA MadeFacts ==
  ASSUME NEW base, Here(base), NEW v, v \in {Whole} \cup DOMAIN base.parts,
         NEW u \in RealUse
  PROVE  /\ Here(WithUse(base, v, u))
         /\ DOMAIN WithUse(base, v, u).parts = DOMAIN base.parts
         /\ WithUse(base, v, u).whole \in {u, base.whole}
         /\ Loose(u) => Fewer(base, WithUse(base, v, u))
<1> DEFINE q == WithUse(base, v, u)
<1>1. Shaped(base, RealUse)
  BY DEF Here
<1>2. CASE v = Whole
  <2>1. /\ Shaped(q, RealUse) /\ q.table = base.table
        /\ q.parts = base.parts /\ q.whole = u
    BY <1>1, <1>2, UseWhole
  <2>2. Loose(u) => Fewer(base, q)
    <3> HIDE DEF q
    <3> QED
      BY <2>1 DEF Fewer
  <2> QED
    BY <2>1, <2>2 DEF Here
<1>3. CASE v # Whole
  <2>1. v \in DOMAIN base.parts
    BY <1>3
  <2>2. /\ Shaped(q, RealUse) /\ q.table = base.table
        /\ DOMAIN q.parts = DOMAIN base.parts
        /\ q.whole = base.whole
    BY <1>1, <2>1, UsePart
  <2>3. \A e \in DOMAIN base.parts : q.parts[e] = IF e = v THEN u ELSE base.parts[e]
    BY <1>1, <2>1, UsePartOf
  <2>4. Loose(u) => Fewer(base, q)
    <3> HIDE DEF q
    <3> QED
      BY <2>2, <2>3 DEF Fewer
  <2> QED
    BY <2>2, <2>4 DEF Here
<1> QED
  BY <1>2, <1>3

LEMMA FormattedFacts ==
  ASSUME VolumesInv, NEW d, NEW v, NEW type \in {"none", "ext4", "swap"},
         There(d, v), Formatted(d, v, type)
  PROVE  /\ disk' = [x \in Dev |-> disk'[x]]
         /\ \A x \in Dev : x # d => disk'[x] = disk[x]
         /\ d \in Dev => Possible(disk'[d]) /\ Fewer(disk[d], disk'[d])
<1> DEFINE base == IF v = Whole THEN [disk[d] EXCEPT !.table = "none", !.parts = <<>>] ELSE disk[d]
           made == WithUse(base, v, Signed(type))
<1>1. disk' = [disk EXCEPT ![d] = made]
  BY DEF Formatted
<1>2. ASSUME d \in Dev
      PROVE  Possible(made) /\ Fewer(disk[d], made)
  <2>1. Here(disk[d]) /\ v \in {Whole} \cup DOMAIN disk[d].parts
    BY <1>2 DEF VolumesInv, Good, Apt, There, Present, Here, Possible
  <2>2. /\ Here(base) /\ v \in {Whole} \cup DOMAIN base.parts /\ base.whole = disk[d].whole
        /\ base.parts = <<>> \/ base.parts = disk[d].parts
    <3>1. CASE v = Whole
      <4>1. base = [disk[d] EXCEPT !.table = "none", !.parts = <<>>]
        BY <3>1
      <4>2. Possible(base)
        BY <2>1, <4>1, TableFacts, HerePossible DEF Here
      <4>3. base.table = "none" /\ base.parts = <<>> /\ base.whole = disk[d].whole
        BY <2>1, <4>1 DEF Here, Shaped
      <4> HIDE DEF base
      <4> QED
        BY <3>1, <4>2, <4>3 DEF Possible, Here
    <3>2. CASE v # Whole
      BY <2>1, <3>2
    <3> QED
      BY <3>1, <3>2
  <2>3. Signed(type) \in RealUse /\ Loose(Signed(type))
    BY NewUses DEF Loose
  <2> HIDE DEF base
  <2>4. Here(made) /\ Fewer(base, made) /\ DOMAIN made.parts = DOMAIN base.parts
    BY <2>2, <2>3, MadeFacts
  <2> HIDE DEF made
  <2>5. Fewer(disk[d], made)
    BY <2>2, <2>4 DEF Fewer
  <2> QED
    BY <2>4, <2>5, HerePossible
<1> HIDE DEF made
<1> QED
  BY <1>1, <1>2, EditFacts

\* A record that is edited keeps its shape and its table.
LEMMA RecordFacts ==
  ASSUME VolumesInv, NEW d, NEW v, NEW u,
         v = Whole \/ v \in DOMAIN rec[d].parts => u \in Use,
         rec' = [rec EXCEPT ![d] = WithUse(@, v, u)]
  PROVE  /\ rec' = [x \in Dev |-> rec'[x]]
         /\ \A x \in Dev : x # d => rec'[x] = rec[x]
         /\ d \in Dev => /\ Shaped(rec'[d], Use) /\ rec'[d].table = rec[d].table
                         /\ DOMAIN rec'[d].parts = DOMAIN rec[d].parts
<1>1. /\ rec' = [x \in Dev |-> rec'[x]]
      /\ \A x \in Dev : x # d => rec'[x] = rec[x]
      /\ d \in Dev => rec'[d] = WithUse(rec[d], v, u)
  BY DEF VolumesInv
<1>2. ASSUME d \in Dev
      PROVE  /\ Shaped(rec'[d], Use) /\ rec'[d].table = rec[d].table
             /\ DOMAIN rec'[d].parts = DOMAIN rec[d].parts
  <2>1. Shaped(rec[d], Use)
    BY <1>2 DEF VolumesInv, Good, Apt
  <2>2. CASE v = Whole \/ v \in DOMAIN rec[d].parts
    <3>1. u \in Use
      BY <2>2
    <3>2. CASE v = Whole
      BY <1>1, <1>2, <2>1, <3>1, <3>2, UseWhole
    <3>3. CASE v \in DOMAIN rec[d].parts
      BY <1>1, <1>2, <2>1, <3>1, <3>3, UsePart
    <3> QED
      BY <2>2, <3>2, <3>3
  <2>3. CASE ~(v = Whole \/ v \in DOMAIN rec[d].parts)
    <3> DEFINE q == rec'[d]
    <3>1. q = [rec[d] EXCEPT !.parts = [rec[d].parts EXCEPT ![v] = u]]
      BY <1>1, <1>2, <2>1, <2>3 DEF WithUse
    <3>2. [rec[d].parts EXCEPT ![v] = u] = rec[d].parts
      BY <2>1, <2>3 DEF Shaped
    <3>3. /\ q.table = rec[d].table /\ q.parts = rec[d].parts /\ q.whole = rec[d].whole
          /\ q = [table |-> q.table, parts |-> q.parts, whole |-> q.whole]
      BY <2>1, <3>1, <3>2 DEF Shaped
    <3> HIDE DEF q
    <3>4. Shaped(q, Use) /\ q.table = rec[d].table /\ DOMAIN q.parts = DOMAIN rec[d].parts
      BY <2>1, <3>3 DEF Shaped
    <3> QED
      BY <3>4 DEF q
  <2> QED
    BY <2>2, <2>3
<1> QED
  BY <1>1, <1>2

LEMMA FormattedKeeps ==
  ASSUME VolumesInv, NEW d, NEW v, NEW type \in {"none", "ext4", "swap"},
         There(d, v), Formatted(d, v, type),
         rec' = [x \in Dev |-> rec'[x]], \A x \in Dev : x # d => rec'[x] = rec[x],
         d \in Dev => /\ Shaped(rec'[d], Use) /\ rec'[d].table = rec[d].table
                      /\ rec[d].table = "gone" => DOMAIN rec'[d].parts = DOMAIN rec[d].parts,
         unread' = unread, uevents' = uevents \cup {d}, proc' = proc
  PROVE  VolumesInv'
BY FormattedFacts, ToldKeeps

LEMMA MakeFilesystemKeeps ==
  ASSUME VolumesInv, NEW d, NEW v, NEW type \in {"ext4", "swap"}, MakeFilesystem(d, v, type)
  PROVE  VolumesInv'
<1> DEFINE u == UseOf(rec[d], v)
<1>1. /\ There(d, v) /\ Formatted(d, v, type) /\ uevents' = uevents \cup {d} /\ proc' = proc
      /\ unread' = unread
      /\ rec' = [rec EXCEPT ![d] = WithUse(@, v, [u EXCEPT !.fs = type])]
  BY DEF MakeFilesystem, Tell
<1>2. ASSUME d \in Dev, v = Whole \/ v \in DOMAIN rec[d].parts
      PROVE  [u EXCEPT !.fs = type] \in Use
  <2>1. u \in Use
    BY <1>2 DEF VolumesInv, Good, Apt, Shaped, UseOf
  <2> QED
    BY <2>1 DEF Use
<1> HIDE DEF u
<1>3. /\ rec' = [x \in Dev |-> rec'[x]] /\ \A x \in Dev : x # d => rec'[x] = rec[x]
      /\ d \in Dev => /\ Shaped(rec'[d], Use) /\ rec'[d].table = rec[d].table
                      /\ DOMAIN rec'[d].parts = DOMAIN rec[d].parts
  <2>1. CASE d \in Dev
    BY <1>1, <1>2, <2>1, RecordFacts
  <2>2. CASE d \notin Dev
    BY <1>1, <2>2 DEF VolumesInv
  <2> QED
    BY <2>1, <2>2
<1> QED
  BY <1>1, <1>3, FormattedKeeps

LEMMA WipeFilesystemKeeps ==
  ASSUME VolumesInv, NEW d, NEW v, WipeFilesystem(d, v)
  PROVE  VolumesInv'
<1>1. /\ There(d, v) /\ Formatted(d, v, "none") /\ uevents' = uevents \cup {d} /\ proc' = proc
      /\ IF v = Whole THEN Rescan(d) ELSE rec' = rec /\ unread' = unread
  BY DEF WipeFilesystem, Tell
<1>2. CASE v = Whole
  BY <1>1, <1>2, FormattedFacts, RescanKeeps
<1>3. CASE v # Whole
  BY <1>1, <1>3, FormattedKeeps DEF VolumesInv, Good, Apt
<1> QED
  BY <1>2, <1>3

LEMMA OthersFormatKeeps ==
  ASSUME VolumesInv, NEW d, NEW v \in TruthVolumes(d), OthersFormat(d, v)
  PROVE  VolumesInv'
<1>1. /\ There(d, v) /\ Formatted(d, v, "ext4") /\ uevents' = uevents \cup {d} /\ proc' = proc
      /\ rec' = rec /\ unread' = unread
  BY DEF OthersFormat, Tell, There, TruthVolumes
<1> QED
  BY <1>1, FormattedKeeps DEF VolumesInv, Good, Apt

LEMMA OthersDeleteKeeps ==
  ASSUME VolumesInv, NEW d, NEW v \in TruthVolumes(d), OthersDelete(d, v)
  PROVE  VolumesInv'
<1> DEFINE made == [disk[d] EXCEPT !.parts = Less(@, v)]
<1>1. /\ v \in DOMAIN disk[d].parts /\ disk' = [disk EXCEPT ![d] = made]
      /\ uevents' = uevents \cup {d} /\ proc' = proc /\ rec' = rec /\ unread' = unread
  BY DEF OthersDelete, Tell, TruthVolumes
<1>2. ASSUME d \in Dev
      PROVE  Possible(made) /\ Fewer(disk[d], made)
  <2>1. disk[d].table # "gone" /\ Possible(disk[d])
    BY <1>1, <1>2, GoneShaped DEF VolumesInv, Good, Apt, Possible
  <2>2. made.parts = Less(disk[d].parts, v) /\ made.whole = disk[d].whole
    BY <2>1 DEF Possible, Shaped
  <2>3. /\ DOMAIN made.parts \subseteq DOMAIN disk[d].parts
        /\ \A e \in DOMAIN made.parts : made.parts[e] = disk[d].parts[e]
    BY <2>2 DEF Less
  <2>4. Possible(made)
    BY <2>1, LessFacts
  <2> HIDE DEF made
  <2> QED
    BY <2>2, <2>3, <2>4 DEF Fewer
<1> HIDE DEF made
<1>3. d \in Dev => Shaped(rec[d], Use)
  BY DEF VolumesInv, Good, Apt
<1>4. rec = [x \in Dev |-> rec[x]]
  BY DEF VolumesInv
<1> QED
  BY <1>1, <1>2, <1>3, <1>4, EditFacts, ToldKeeps

LEMMA OthersPlugKeeps ==
  ASSUME VolumesInv, NEW d, OthersPlug(d)
  PROVE  VolumesInv'
<1> DEFINE made == [Gone EXCEPT !.table = Replugged(disk[d])]
<1>1. /\ disk' = [disk EXCEPT ![d] = made]
      /\ uevents' = uevents \cup {d} /\ proc \subseteq proc' /\ rec' = rec /\ unread' = unread
  BY DEF OthersPlug, Tell
<1>2. /\ made.table \in {"gone", "none", "unloaded"} /\ made.parts = Gone.parts
      /\ made.whole = Gone.whole
      /\ made = [table |-> made.table, parts |-> made.parts, whole |-> made.whole]
      /\ Gone = [table |-> "gone", parts |-> Gone.parts, whole |-> Gone.whole]
  BY DEF Gone, Replugged
<1> HIDE DEF made
<1>3. Possible(made) /\ Fewer(disk[d], made)
  <2>1. Shaped(Gone, RealUse)
    BY GoneShaped DEF Possible
  <2>2. Shaped(made, RealUse)
    BY <1>2, <2>1 DEF Shaped, Tables
  <2>3. Loose(made.whole) /\ DOMAIN made.parts = {}
    BY <1>2, GoneShaped DEF Loose
  <2>4. Fewer(disk[d], made)
    BY <2>3 DEF Fewer
  <2> QED
    BY <1>2, <2>2, <2>4, GoneShaped DEF Possible
<1>4. rec = [x \in Dev |-> rec[x]] /\ (d \in Dev => Shaped(rec[d], Use))
  BY DEF VolumesInv, Good, Apt
<1> QED
  BY <1>1, <1>3, <1>4, EditFacts, ToldKeeps

LEMMA SwapondevKeeps ==
  ASSUME VolumesInv, NEW d, NEW v, Swapondev(d, v)
  PROVE  VolumesInv'
<1>1. PICK prio \in {"inactive", "on"} :
        /\ disk' = [disk EXCEPT ![d] = Prioritised(@, v, prio)]
        /\ rec' = IF prio = "on" THEN [rec EXCEPT ![d] = Prioritised(@, v, "on")] ELSE rec
  BY DEF Swapondev
<1>2. There(d, v) /\ uevents' = uevents \cup {d} /\ proc \subseteq proc' /\ unread' = unread
  BY DEF Swapondev, Tell
<1> DEFINE u == Fresh("swap", prio)
<1>3. u \in RealUse /\ u \in Use /\ Loose(u)
  BY NewUses DEF Loose
<1>4. /\ disk' = [disk EXCEPT ![d] = WithUse(disk[d], v, u)]
      /\ rec' = rec \/ rec' = [rec EXCEPT ![d] = WithUse(@, v, u)]
  BY <1>1 DEF Prioritised
<1> HIDE DEF u
<1>5. ASSUME d \in Dev
      PROVE  Possible(WithUse(disk[d], v, u)) /\ Fewer(disk[d], WithUse(disk[d], v, u))
  <2>1. Here(disk[d]) /\ v \in {Whole} \cup DOMAIN disk[d].parts
    BY <1>2, <1>5 DEF VolumesInv, Good, Apt, There, Present, Here, Possible
  <2> QED
    BY <1>3, <2>1, MadeFacts, HerePossible
<1>6. /\ rec' = [x \in Dev |-> rec'[x]] /\ \A x \in Dev : x # d => rec'[x] = rec[x]
      /\ d \in Dev => /\ Shaped(rec'[d], Use) /\ rec'[d].table = rec[d].table
                      /\ DOMAIN rec'[d].parts = DOMAIN rec[d].parts
  <2>1. CASE rec' = rec
    BY <2>1 DEF VolumesInv, Good, Apt
  <2>2. CASE rec' = [rec EXCEPT ![d] = WithUse(@, v, u)]
    BY <1>3, <2>2, RecordFacts
  <2> QED
    BY <1>4, <2>1, <2>2
<1>7. /\ disk' = [x \in Dev |-> disk'[x]]
      /\ \A x \in Dev : x # d => disk'[x] = disk[x]
      /\ d \in Dev => disk'[d] = WithUse(disk[d], v, u)
  BY <1>4, EditFacts
<1> QED
  BY <1>2, <1>5, <1>6, <1>7, ToldKeeps
-----------------------------------------------------------------------------
(***************************************************************************)
(* What only changes where a volume is mounted, or its priority.           *)
(***************************************************************************)
SameFs(r, q) ==
  /\ q.table = r.table /\ DOMAIN q.parts = DOMAIN r.parts /\ q.whole.fs = r.whole.fs
  /\ \A e \in DOMAIN r.parts : q.parts[e].fs = r.parts[e].fs

SameAt(r, q) ==
  OfAt(q.whole, r.whole) /\ \A e \in DOMAIN r.parts : OfAt(q.parts[e], r.parts[e])

LEMMA UseSame ==
  ASSUME NEW t, NEW U, Shaped(t, U), NEW v \in {Whole} \cup DOMAIN t.parts, NEW u \in U
  PROVE  /\ Shaped(WithUse(t, v, u), U)
         /\ OfFs(u, UseOf(t, v)) => SameFs(t, WithUse(t, v, u))
         /\ OfAt(u, UseOf(t, v)) => SameAt(t, WithUse(t, v, u))
<1>1. CASE v = Whole
  <2>1. /\ Shaped(WithUse(t, v, u), U) /\ WithUse(t, v, u).table = t.table
        /\ WithUse(t, v, u).parts = t.parts /\ WithUse(t, v, u).whole = u
    BY <1>1, UseWhole
  <2>2. UseOf(t, v) = t.whole
    BY <1>1 DEF UseOf
  <2> QED
    BY <2>1, <2>2 DEF SameFs, SameAt, OfFs, OfAt
<1>2. CASE v # Whole
  <2>1. v \in DOMAIN t.parts /\ UseOf(t, v) = t.parts[v]
    BY <1>2 DEF UseOf
  <2>2. /\ Shaped(WithUse(t, v, u), U) /\ WithUse(t, v, u).table = t.table
        /\ DOMAIN WithUse(t, v, u).parts = DOMAIN t.parts
        /\ WithUse(t, v, u).whole = t.whole
    BY <2>1, UsePart
  <2>3. \A e \in DOMAIN t.parts :
          WithUse(t, v, u).parts[e] = (IF e = v THEN u ELSE t.parts[e])
    BY <2>1, UsePartOf
  <2>4. OfFs(u, UseOf(t, v)) => \A e \in DOMAIN t.parts :
          WithUse(t, v, u).parts[e].fs = t.parts[e].fs
    BY <2>1, <2>3 DEF OfFs
  <2>5. OfAt(u, UseOf(t, v)) => \A e \in DOMAIN t.parts :
          WithUse(t, v, u).parts[e].at = t.parts[e].at
    BY <2>1, <2>3 DEF OfAt
  <2> QED
    BY <2>2, <2>4, <2>5 DEF SameFs, SameAt, OfAt
<1> QED
  BY <1>1, <1>2

LEMMA SameLoose ==
  ASSUME NEW t, NEW t1, SameAt(t, t1), DOMAIN t1.parts = DOMAIN t.parts
  PROVE  Fewer(t, t1)
<1>1. \A u, w : OfAt(u, w) /\ Loose(w) => Loose(u)
  BY DEF OfAt, Loose
<1>2. \A u, w : OfAt(u, w) /\ Loose(u) => Loose(w)
  BY DEF OfAt, Loose
<1>3. Loose(t.whole) => Loose(t1.whole)
  BY <1>1 DEF SameAt
<1>4. \A e \in DOMAIN t1.parts : Loose(t.parts[e]) => Loose(t1.parts[e])
  BY <1>1 DEF SameAt
<1> QED
  BY <1>3, <1>4 DEF Fewer

LEMMA GoodSame ==
  ASSUME NEW d, NEW t, NEW r, NEW told \in BOOLEAN, NEW heard \in BOOLEAN, NEW left,
         Good(d, t, r, told, heard, left),
         NEW t1, Possible(t1), SameFs(t, t1), heard => SameAt(t, t1),
         NEW r1, Shaped(r1, Use), SameFs(r, r1), heard => SameAt(r, r1)
  PROVE  Good(d, t1, r1, told, heard, left)
<1>1. Apt(t, r, told) /\ Possible(t)
  BY DEF Good, Apt
<1>2. r1.table = r.table /\ DOMAIN r1.parts = DOMAIN r.parts /\ DOMAIN t1.parts = DOMAIN t.parts
  BY DEF SameFs
<1>3. Alike(r, t) => Alike(r1, t1)
  BY DEF Alike, SameFs, Kept
<1>4. Apt(t1, r1, told)
  BY <1>1, <1>2, <1>3 DEF Apt
<1>5. ASSUME heard, r1.table = "gone" PROVE MountsOf(d, t1) \subseteq left
  <2>1. MountsOf(d, t) \subseteq left
    BY <1>2, <1>5 DEF Good
  <2>2. MountsOf(d, t1) \subseteq MountsOf(d, t)
    BY <1>1, <1>2, <1>5, SameLoose, FewerMounts
  <2> QED
    BY <2>1, <2>2
<1>6. ASSUME heard, told, r1.table # "gone" PROVE SameMounts(d, r1, t1, left)
  <2>1. SameMounts(d, r, t, left) /\ Alike(r, t)
    BY <1>1, <1>2, <1>6 DEF Good, Apt
  <2>2. SameAt(t, t1) /\ SameAt(r, r1)
    BY <1>6
  <2>3. \A u, u1, w, w1 : OfAt(u1, u) /\ OfAt(w1, w) /\ OfAt(u, w) => OfAt(u1, w1)
    BY DEF OfAt
  <2>4. \A u, u1 : OfAt(u1, u) /\ Loose(u) => Loose(u1)
    BY DEF OfAt, Loose
  <2>5. OfAt(r1.whole, t1.whole) \/ (Loose(r1.whole) /\ <<d, Whole>> \in left)
    <3>1. OfAt(r1.whole, r.whole) /\ OfAt(t1.whole, t.whole)
      BY <2>2 DEF SameAt
    <3>2. OfAt(r.whole, t.whole) \/ (Loose(r.whole) /\ <<d, Whole>> \in left)
      BY <2>1 DEF SameMounts
    <3> QED
      BY <2>3, <2>4, <3>1, <3>2
  <2>6. ASSUME NEW e \in DOMAIN r1.parts
        PROVE  OfAt(r1.parts[e], t1.parts[e]) \/ (Loose(r1.parts[e]) /\ <<d, e>> \in left)
    <3>1. e \in DOMAIN r.parts /\ e \in DOMAIN t.parts
      BY <1>2, <2>1 DEF Alike, Kept
    <3>2. OfAt(r1.parts[e], r.parts[e]) /\ OfAt(t1.parts[e], t.parts[e])
      BY <2>2, <3>1 DEF SameAt
    <3>3. OfAt(r.parts[e], t.parts[e]) \/ (Loose(r.parts[e]) /\ <<d, e>> \in left)
      BY <2>1, <3>1 DEF SameMounts
    <3> QED
      BY <2>3, <2>4, <3>2, <3>3
  <2> QED
    BY <2>5, <2>6 DEF SameMounts
<1> QED
  BY <1>4, <1>5, <1>6 DEF Good

\* A use of a volume that is there is one the kernel lets be.
LEMMA UseThere ==
  ASSUME VolumesInv, NEW d \in Dev, NEW v, There(d, v)
  PROVE  /\ Here(disk[d]) /\ Shaped(disk[d], RealUse) /\ v \in {Whole} \cup DOMAIN disk[d].parts
         /\ UseOf(disk[d], v) \in RealUse
<1>1. Possible(disk[d]) /\ v \in {Whole} \cup DOMAIN disk[d].parts
  BY DEF VolumesInv, Good, Apt, There
<1> QED
  BY <1>1 DEF Possible, Here, Shaped, UseOf, There, Present

LEMMA AttachedKeeps ==
  ASSUME VolumesInv, NEW d, NEW v, NEW path \in {"", "/", "/t"}, Attached(d, v, path),
         There(d, v), UseOf(disk[d], v).fs = "ext4",
         rec' = rec, unread' = unread, uevents' = uevents, proc' = proc \cup {"mounts"}
  PROVE  VolumesInv'
<1> DEFINE w == UseOf(disk[d], v)
           u == [w EXCEPT !.at = path]
           t1 == WithUse(disk[d], v, u)
<1>1. disk' = [disk EXCEPT ![d] = t1]
  BY DEF Attached
<1>2. ASSUME d \in Dev PROVE Good(d, t1, rec[d], d \notin uevents, FALSE, unread)
  <2>1. w \in RealUse
    BY <1>2, UseThere
  <2>2. u \in RealUse /\ OfFs(u, w)
    BY <2>1 DEF RealUse, Use, OfFs
  <2> HIDE DEF u
  <2>3. Shaped(t1, RealUse) /\ SameFs(disk[d], t1)
    BY <1>2, <2>2, UseThere, UseSame
  <2>4. Possible(t1)
    BY <1>2, <2>3, UseThere DEF Possible, Here, SameFs
  <2> HIDE DEF t1, w
  <2>5. /\ Good(d, disk[d], rec[d], d \notin uevents, FALSE, unread)
        /\ Shaped(rec[d], Use) /\ SameFs(rec[d], rec[d])
    BY <1>2 DEF VolumesInv, Good, Apt, SameFs
  <2> QED
    BY <2>3, <2>4, <2>5, GoodSame
<1> HIDE DEF t1
<1>3. rec = [x \in Dev |-> rec[x]] /\ "mounts" \in proc'
  BY DEF VolumesInv
<1> QED
  BY <1>1, <1>2, <1>3, EditFacts, UsedKeeps

LEMMA MmountKeeps ==
  ASSUME VolumesInv, NEW d, NEW v, NEW path \in {"/", "/t"}, Mmount(d, v, path)
  PROVE  VolumesInv'
BY AttachedKeeps DEF Mmount

LEMMA UnmountKeeps ==
  ASSUME VolumesInv, NEW d, NEW v, Unmount(d, v)
  PROVE  VolumesInv'
<1>1. CASE d \in Dev
  <2>1. UseOf(disk[d], v).fs = "ext4"
    BY <1>1, UseThere DEF Unmount, RealUse
  <2> QED
    BY <2>1, AttachedKeeps DEF Unmount
<1>2. CASE d \notin Dev
  BY <1>2, UsedKeeps DEF VolumesInv, Unmount, Attached
<1> QED
  BY <1>1, <1>2

LEMMA PrioritisedKeeps ==
  ASSUME VolumesInv, NEW d \in Dev, NEW v, NEW prio \in {"inactive", "on"}, There(d, v),
         UseOf(disk[d], v).fs = "swap",
         disk' = [disk EXCEPT ![d] = Prioritised(disk[d], v, prio)],
         rec' = [x \in Dev |-> rec'[x]], \A x \in Dev : x # d => rec'[x] = rec[x],
         Shaped(rec'[d], Use), SameFs(rec[d], rec'[d]), SameAt(rec[d], rec'[d]),
         unread' = unread, uevents' = uevents, proc' = proc \cup {"swaps"}
  PROVE  VolumesInv'
<1> DEFINE w == UseOf(disk[d], v)
           u == Fresh("swap", prio)
           t1 == WithUse(disk[d], v, u)
<1>1. disk' = [disk EXCEPT ![d] = t1]
  BY DEF Prioritised
<1>2. w \in RealUse
  BY UseThere
<1>3. u \in RealUse /\ OfFs(u, w) /\ OfAt(u, w)
  <2>1. w.at = ""
    BY <1>2 DEF RealUse
  <2> QED
    BY <2>1, NewUses DEF OfFs, OfAt
<1> HIDE DEF u
<1>4. Shaped(t1, RealUse) /\ SameFs(disk[d], t1) /\ SameAt(disk[d], t1)
  BY <1>3, UseThere, UseSame
<1>5. Possible(t1)
  BY <1>4, UseThere DEF Possible, Here, SameFs
<1> HIDE DEF t1, w
<1>6. Good(d, t1, rec'[d], d \notin uevents, "mounts" \notin proc, unread)
  <2>1. Good(d, disk[d], rec[d], d \notin uevents, "mounts" \notin proc, unread)
    BY DEF VolumesInv
  <2> QED
    BY <1>4, <1>5, <2>1, GoodSame
<1>7. /\ disk' = [x \in Dev |-> disk'[x]]
      /\ \A x \in Dev : x # d => disk'[x] = disk[x]
      /\ disk'[d] = t1
  BY <1>1, EditFacts
<1>8. proc \subseteq proc' /\ ("mounts" \notin proc' <=> "mounts" \notin proc)
  OBVIOUS
<1>9. Good(d, disk'[d], rec'[d], d \notin uevents', "mounts" \notin proc', unread)
  <2>1. CASE "mounts" \notin proc
    BY <1>6, <1>7, <1>8, <2>1 DEF Good
  <2>2. CASE "mounts" \in proc
    BY <1>6, <1>7, <1>8, <2>2 DEF Good
  <2> QED
    BY <2>1, <2>2
<1> QED
  BY <1>7, <1>8, <1>9, UsedKeeps

LEMMA SwapoffdevKeeps ==
  ASSUME VolumesInv, NEW d \in Dev, NEW v, Swapoffdev(d, v)
  PROVE  VolumesInv'
<1> DEFINE u == [UseOf(rec[d], v) EXCEPT !.prio = "inactive"]
<1>1. /\ There(d, v) /\ UseOf(disk[d], v).prio = "on"
      /\ disk' = [disk EXCEPT ![d] = Prioritised(disk[d], v, "inactive")]
      /\ rec' = [rec EXCEPT ![d] = WithUse(@, v, u)]
      /\ unread' = unread /\ uevents' = uevents /\ proc' = proc \cup {"swaps"}
  BY DEF Swapoffdev
<1>2. UseOf(disk[d], v).fs = "swap"
  BY <1>1, UseThere DEF RealUse
<1>3. Shaped(rec[d], Use) /\ rec = [x \in Dev |-> rec[x]]
  BY DEF VolumesInv, Good, Apt
<1>4. /\ rec' = [x \in Dev |-> rec'[x]] /\ \A x \in Dev : x # d => rec'[x] = rec[x]
      /\ rec'[d] = WithUse(rec[d], v, u)
  BY <1>1, <1>3
<1>5. Shaped(rec'[d], Use) /\ SameFs(rec[d], rec'[d]) /\ SameAt(rec[d], rec'[d])
  <2>1. CASE v \in {Whole} \cup DOMAIN rec[d].parts
    <3>1. UseOf(rec[d], v) \in Use
      BY <1>3, <2>1 DEF Shaped, UseOf
    <3>2. u \in Use /\ OfFs(u, UseOf(rec[d], v)) /\ OfAt(u, UseOf(rec[d], v))
      BY <3>1 DEF Use, OfFs, OfAt
    <3> HIDE DEF u
    <3> QED
      BY <1>3, <1>4, <2>1, <3>2, UseSame
  <2>2. CASE v \notin {Whole} \cup DOMAIN rec[d].parts
    <3> DEFINE q == rec'[d]
    <3>1. q = [rec[d] EXCEPT !.parts = [rec[d].parts EXCEPT ![v] = u]]
      BY <1>4, <2>2 DEF WithUse
    <3>2. [rec[d].parts EXCEPT ![v] = u] = rec[d].parts
      BY <1>3, <2>2 DEF Shaped
    <3>3. /\ q.table = rec[d].table /\ q.parts = rec[d].parts /\ q.whole = rec[d].whole
          /\ q = [table |-> q.table, parts |-> q.parts, whole |-> q.whole]
      BY <1>3, <3>1, <3>2 DEF Shaped
    <3> HIDE DEF q
    <3>4. Shaped(q, Use) /\ SameFs(rec[d], q) /\ SameAt(rec[d], q)
      BY <1>3, <3>3 DEF Shaped, SameFs, SameAt, OfAt
    <3> QED
      BY <3>4 DEF q
  <2> QED
    BY <2>1, <2>2
<1> HIDE DEF u
<1> QED
  BY <1>1, <1>2, <1>4, <1>5, PrioritisedKeeps

LEMMA OthersUseKeeps ==
  ASSUME VolumesInv, NEW d \in Dev, NEW v \in TruthVolumes(d), OthersUse(d, v)
  PROVE  VolumesInv'
<1> DEFINE w == UseOf(disk[d], v)
<1>1. w.fs # "none" /\ w \in RealUse /\ There(d, v)
  <2>1. w.fs # "none" /\ Possible(disk[d])
    BY DEF OthersUse, VolumesInv, Good, Apt
  <2>2. disk[d].table # "gone"
    BY <2>1, GoneShaped DEF Possible, UseOf, TruthVolumes
  <2> QED
    BY <2>1, <2>2, UseThere DEF There, TruthVolumes, Present
<1>2. rec' = rec /\ unread' = unread /\ uevents' = uevents
  BY DEF OthersUse
<1>3. CASE w.fs = "ext4"
  <2>1. Attached(d, v, IF w.at = "" THEN "/" ELSE "") /\ proc' = proc \cup {"mounts"}
    BY <1>3 DEF OthersUse
  <2> QED
    BY <1>1, <1>2, <1>3, <2>1, AttachedKeeps
<1>4. CASE w.fs # "ext4"
  <2>1. PICK prio \in {"inactive", "on"} :
          disk' = [disk EXCEPT ![d] = Prioritised(disk[d], v, prio)]
    BY <1>4 DEF OthersUse
  <2>2. proc' = proc \cup {"swaps"} /\ w.fs = "swap"
    BY <1>1, <1>4 DEF OthersUse, RealUse, Use
  <2>3. rec = [x \in Dev |-> rec[x]] /\ Shaped(rec[d], Use)
          /\ SameFs(rec[d], rec[d]) /\ SameAt(rec[d], rec[d])
    BY DEF VolumesInv, Good, Apt, SameFs, SameAt, OfAt
  <2> QED
    BY <1>1, <1>2, <2>1, <2>2, <2>3, PrioritisedKeeps
<1> QED
  BY <1>3, <1>4
-----------------------------------------------------------------------------
(***************************************************************************)
(* The event thread.                                                       *)
(***************************************************************************)
LEMMA GoodFound ==
  ASSUME NEW d, NEW t, NEW r, NEW told \in BOOLEAN, NEW heard \in BOOLEAN, NEW left,
         Good(d, t, r, told, heard, left), r.table = "gone"
  PROVE  Good(d, t, View(t), TRUE, heard, left)
<1>1. Possible(t) /\ (heard => MountsOf(d, t) \subseteq left)
  BY DEF Good, Apt
<1>2. /\ Shaped(View(t), Use) /\ Alike(View(t), t) /\ Bare(View(t))
      /\ View(t).table = "gone" => DOMAIN View(t).parts = {}
  BY <1>1, ViewFacts
<1>3. heard => SameMounts(d, View(t), t, left)
  BY <1>1, <1>2, BareMounts
<1> QED
  BY <1>1, <1>2, <1>3 DEF Good, Apt

LEMMA GoodDiscovered ==
  ASSUME NEW d, NEW t, NEW r, NEW told \in BOOLEAN, NEW heard \in BOOLEAN, NEW left,
         Good(d, t, r, told, heard, left)
  PROVE  Good(d, t, Discovered(r, t), told, heard, left)
<1>1. CASE r.table = "gone"
  <2>1. Good(d, t, View(t), TRUE, heard, left)
    BY <1>1, GoodFound
  <2> QED
    BY <1>1, <2>1 DEF Discovered, Good, Apt
<1>2. CASE r.table # "gone"
  BY <1>2 DEF Discovered
<1> QED
  BY <1>1, <1>2

\* Swaps that are raised have a swap's signature.
LEMMA GoodRaised ==
  ASSUME NEW d, NEW t, NEW r, NEW told \in BOOLEAN, NEW heard \in BOOLEAN, NEW left,
         Good(d, t, r, told, heard, left), NEW V \in SUBSET Swapping(t)
  PROVE  Good(d, t, Raised(r, V), told, heard, left)
<1> DEFINE q == Raised(r, V)
           of == [e \in DOMAIN r.parts |-> IF e \in V THEN RaisedUse(r.parts[e]) ELSE r.parts[e]]
<1>1. Possible(t) /\ Shaped(r, Use)
  BY DEF Good, Apt
<1>2. /\ q.table = r.table /\ q.parts = of
      /\ q.whole = IF Whole \in V THEN RaisedUse(r.whole) ELSE r.whole
      /\ q = [table |-> q.table, parts |-> q.parts, whole |-> q.whole]
  BY DEF Raised
<1>3. \A u \in Use : /\ RaisedUse(u) \in Use /\ RaisedUse(u).at = u.at
                     /\ RaisedUse(u).fs \in {u.fs, "swap"}
  BY DEF RaisedUse, Use
<1>4. r.whole \in Use /\ \A e \in DOMAIN r.parts : e # Whole /\ e[1] <= e[2] /\ r.parts[e] \in Use
  BY <1>1 DEF Shaped
<1>5. /\ Whole \in V => t.whole.fs = "swap"
      /\ \A e \in DOMAIN t.parts : e \in V => t.parts[e].fs = "swap"
  <2>1. \A v \in V : UseOf(t, v).prio = "on"
    BY DEF Swapping
  <2>2. \A u \in RealUse : u.prio = "on" => u.fs = "swap"
    BY DEF RealUse
  <2>3. t.whole \in RealUse /\ \A e \in DOMAIN t.parts : e # Whole /\ t.parts[e] \in RealUse
    BY <1>1 DEF Possible, Shaped
  <2> QED
    BY <2>1, <2>2, <2>3 DEF UseOf
<1> HIDE DEF q, RaisedUse
<1>6. /\ DOMAIN q.parts = DOMAIN r.parts /\ q.parts = [e \in DOMAIN q.parts |-> q.parts[e]]
      /\ \A e \in DOMAIN r.parts : /\ q.parts[e] \in Use /\ q.parts[e].at = r.parts[e].at
                                   /\ q.parts[e].fs = r.parts[e].fs
                                        \/ (e \in V /\ q.parts[e].fs = "swap")
  <2>1. \A e \in DOMAIN r.parts : q.parts[e] = IF e \in V THEN RaisedUse(r.parts[e]) ELSE r.parts[e]
    BY <1>2
  <2>2. DOMAIN q.parts = DOMAIN r.parts /\ q.parts = [e \in DOMAIN q.parts |-> q.parts[e]]
    BY <1>2
  <2> QED
    BY <1>3, <1>4, <2>1, <2>2
<1>7. /\ q.whole \in Use /\ q.whole.at = r.whole.at
      /\ q.whole.fs = r.whole.fs \/ (Whole \in V /\ q.whole.fs = "swap")
  BY <1>2, <1>3, <1>4
<1> HIDE DEF of
<1>8. Shaped(q, Use)
  BY <1>1, <1>2, <1>4, <1>6, <1>7 DEF Shaped
<1>9. ASSUME Alike(r, t) PROVE Alike(q, t)
  <2>1. /\ q.table = t.table /\ DOMAIN q.parts = Kept(t)
        /\ \A e \in DOMAIN r.parts : e \in DOMAIN t.parts /\ r.parts[e].fs = t.parts[e].fs
        /\ r.whole.fs = t.whole.fs
    BY <1>2, <1>6, <1>9 DEF Alike, Kept
  <2>2. \A e \in DOMAIN q.parts : q.parts[e].fs = t.parts[e].fs
    BY <1>5, <1>6, <2>1
  <2>3. q.whole.fs = t.whole.fs
    BY <1>5, <1>7, <2>1
  <2> QED
    BY <2>1, <2>2, <2>3 DEF Alike
<1>10. SameMounts(d, r, t, left) => SameMounts(d, q, t, left)
  <2>1. OfAt(q.whole, r.whole) /\ \A e \in DOMAIN r.parts : OfAt(q.parts[e], r.parts[e])
    BY <1>6, <1>7 DEF OfAt
  <2>2. \A u, w, x : OfAt(u, w) => (OfAt(w, x) => OfAt(u, x)) /\ (Loose(w) => Loose(u))
    BY DEF OfAt, Loose
  <2>3. DOMAIN q.parts = DOMAIN r.parts
    BY <1>6
  <2> QED
    BY <2>1, <2>2, <2>3 DEF SameMounts
<1>11. Apt(t, q, told)
  BY <1>2, <1>6, <1>8, <1>9 DEF Good, Apt
<1>12. Good(d, t, q, told, heard, left)
  BY <1>2, <1>10, <1>11 DEF Good
<1> QED
  BY <1>12 DEF q

LEMMA MountsEventKeeps ==
  ASSUME VolumesInv, MountsEvent
  PROVE  VolumesInv'
<1>1. Parse(rec, disk) /\ disk' = disk /\ uevents' = uevents
  BY DEF MountsEvent
<1>2. /\ disk = [x \in Dev |-> disk[x]]
      /\ \A x \in Dev : Apt(disk[x], rec[x], x \notin uevents')
  BY <1>1 DEF VolumesInv, Good
<1> QED
  BY <1>1, <1>2, ParseKeeps

LEMMA SwapsEventKeeps ==
  ASSUME VolumesInv, SwapsEvent
  PROVE  VolumesInv'
<1> DEFINE lines == UNION {{<<d, v>> : v \in Swapping(disk[d])} : d \in Dev}
           V(read, x) == {l[2] : l \in {y \in read : y[1] = x}}
<1>1. PICK read \in SUBSET lines :
        rec' = [x \in Dev |-> Raised(IF V(read, x) = {} THEN rec[x]
                                      ELSE Discovered(rec[x], disk[x]), V(read, x))]
  BY DEF SwapsEvent
<1>2. \A x \in Dev : V(read, x) \subseteq Swapping(disk[x])
  OBVIOUS
<1> HIDE DEF V, lines
<1>3. ASSUME NEW x \in Dev
      PROVE  Good(x, disk[x], rec'[x], x \notin uevents, "mounts" \notin proc, unread)
  <2> DEFINE q == IF V(read, x) = {} THEN rec[x] ELSE Discovered(rec[x], disk[x])
  <2>1. Good(x, disk[x], q, x \notin uevents, "mounts" \notin proc, unread)
    <3>1. Good(x, disk[x], rec[x], x \notin uevents, "mounts" \notin proc, unread)
      BY DEF VolumesInv
    <3>2. Good(x, disk[x], Discovered(rec[x], disk[x]), x \notin uevents, "mounts" \notin proc, unread)
      BY <3>1, GoodDiscovered
    <3> QED
      BY <3>1, <3>2
  <2>2. rec'[x] = Raised(q, V(read, x))
    BY <1>1
  <2> HIDE DEF q
  <2>3. V(read, x) \in SUBSET Swapping(disk[x])
    BY <1>2
  <2> QED
    BY <2>1, <2>2, <2>3, GoodRaised
<1>4. rec' = [x \in Dev |-> rec'[x]]
  BY <1>1
<1>5. disk' = disk /\ unread' = unread /\ uevents' = uevents /\ ("mounts" \in proc' <=> "mounts" \in proc)
  BY DEF SwapsEvent
<1> QED
  BY <1>3, <1>4, <1>5 DEF VolumesInv

LEMMA UeventKeeps ==
  ASSUME VolumesInv, NEW d \in Dev, Uevent(d)
  PROVE  VolumesInv'
<1> DEFINE read == [rec EXCEPT ![d] = View(disk[d])]
<1>1. /\ disk' = disk /\ uevents' = uevents \ {d} /\ proc' = proc
      /\ \/ Drop(d)
         \/ Parse(read, disk)
         \/ ~Known(d) /\ rec' = read /\ unread' = unread
  BY DEF Uevent
<1>2. \A x \in Dev : read[x] = IF x = d THEN View(disk[x]) ELSE rec[x]
  BY DEF VolumesInv
<1>3. read = [x \in Dev |-> read[x]]
  BY DEF VolumesInv
<1> HIDE DEF read
<1>4. \A x \in Dev : Good(x, disk[x], rec[x], x \notin uevents, "mounts" \notin proc, unread)
  BY DEF VolumesInv
<1>5. disk = [x \in Dev |-> disk[x]] /\ \A x \in Dev : Possible(disk[x])
  BY <1>4 DEF VolumesInv, Good, Apt
<1>6. CASE Drop(d)
  BY <1>1, <1>5, <1>6, DropKeeps
<1>7. CASE Parse(read, disk)
  <2>1. ASSUME NEW x \in Dev PROVE Apt(disk[x], read[x], x \notin uevents')
    <3>1. CASE x = d
      BY <1>2, <1>5, <3>1, ViewFacts DEF Apt
    <3>2. CASE x # d
      BY <1>1, <1>2, <1>4, <3>2 DEF Good, Apt
    <3> QED
      BY <3>1, <3>2
  <2> QED
    BY <1>1, <1>5, <1>7, <2>1, ParseKeeps
<1>8. CASE ~Known(d) /\ rec' = read /\ unread' = unread
  <2>1. ASSUME NEW x \in Dev
        PROVE  Good(x, disk[x], rec'[x], x \notin uevents', "mounts" \notin proc, unread)
    <3>1. CASE x = d
      <4>1. Good(x, disk[x], rec'[x], TRUE, "mounts" \notin proc, unread)
        BY <1>2, <1>4, <1>8, <3>1, GoodFound DEF Known
      <4> QED
        BY <4>1 DEF Good, Apt
    <3>2. CASE x # d
      BY <1>1, <1>2, <1>4, <1>8, <3>2 DEF Good, Apt
    <3> QED
      BY <3>1, <3>2
  <2> QED
    BY <1>1, <1>3, <1>5, <1>8, <2>1 DEF VolumesInv
<1> QED
  BY <1>1, <1>6, <1>7, <1>8

LEMMA EventsKeep ==
  ASSUME VolumesInv, Events
  PROVE  VolumesInv'
<1>1. CASE MountsEvent
  BY <1>1, MountsEventKeeps
<1>2. CASE SwapsEvent
  BY <1>2, SwapsEventKeeps
<1>3. ASSUME NEW d \in Dev, Uevent(d) \/ OthersPlug(d) PROVE VolumesInv'
  BY <1>3, UeventKeeps, OthersPlugKeeps
<1>4. ASSUME NEW d \in Dev, NEW v \in TruthVolumes(d),
             OthersFormat(d, v) \/ OthersDelete(d, v) \/ OthersUse(d, v)
      PROVE  VolumesInv'
  BY <1>4, OthersFormatKeeps, OthersDeleteKeeps, OthersUseKeeps
<1> QED
  BY <1>1, <1>2, <1>3, <1>4 DEF Events
-----------------------------------------------------------------------------
(***************************************************************************)
(* The two interfaces.                                                     *)
(***************************************************************************)
LEMMA LineKeeps ==
  ASSUME VolumesInv, LineNext
  PROVE  VolumesInv'
<1>1. CASE Events
  BY <1>1, EventsKeep
<1>2. CASE Quit
  BY <1>2 DEF Quit, VolumesInv
<1>3. ASSUME NEW d \in Dev, Blockdev(d) PROVE VolumesInv'
  BY <1>3, RescannedKeeps, WipePtableKeeps, WipeDosmbrKeeps, MakePartitionTableKeeps DEF Blockdev
<1>4. ASSUME NEW d \in Dev, PartitionCommand(d) PROVE VolumesInv'
  BY <1>4, AddPartitionKeeps, WipePartitionKeeps DEF PartitionCommand
<1>5. ASSUME NEW d \in Dev, Fs(d) PROVE VolumesInv'
  BY <1>5, MakeFilesystemKeeps, WipeFilesystemKeeps, MmountKeeps, UnmountKeeps DEF Fs
<1>6. ASSUME NEW d \in Dev, Swap(d) PROVE VolumesInv'
  BY <1>6, SwapondevKeeps, SwapoffdevKeeps DEF Swap
<1> QED
  BY <1>1, <1>2, <1>3, <1>4, <1>5, <1>6 DEF LineNext, Command

LEMMA SameVolumes ==
  ASSUME VolumesInv, UNCHANGED <<disk, rec, unread, uevents, proc>>
  PROVE  VolumesInv'
BY DEF VolumesInv

\* A disk that is selected is one there is, or has no name.
LEMMA SwapoffSelected ==
  ASSUME VolumesInv, NEW d, NEW v, Swapoffdev(d, v)
  PROVE  VolumesInv'
<1>1. CASE d \in Dev
  BY <1>1, SwapoffdevKeeps
<1>2. CASE d \notin Dev
  BY <1>2, UsedKeeps DEF VolumesInv, Swapoffdev
<1> QED
  BY <1>1, <1>2

LEMMA KeyKeeps ==
  ASSUME VolumesInv, Key
  PROVE  VolumesInv'
<1>1. ASSUME NEW kind, RaiseForm(kind) PROVE VolumesInv'
  BY <1>1, SameVolumes DEF RaiseForm, volumeVars
<1>2. CASE KeyUnmount \/ KeyUnmountTarget
  BY <1>2, SwapoffSelected, UnmountKeeps DEF KeyUnmount, KeyUnmountTarget, Straight
<1>3. CASE KeyUnsetTarget \/ KeyBoot
  BY <1>3, SameVolumes DEF KeyUnsetTarget, KeyBoot, volumeVars
<1>4. CASE KeyQuit
  BY <1>1, <1>4, SameVolumes DEF KeyQuit
<1>5. CASE \/ KeyMakePtable \/ KeyRemovePtable \/ KeyWipeMbr \/ KeyNewPartition
           \/ KeyDeletePartition \/ KeyFlags \/ KeyNewFilesystem \/ KeyKillFilesystem
           \/ KeyMount \/ KeyMountTarget \/ KeySetTarget
  BY <1>1, <1>5 DEF KeyMakePtable, KeyRemovePtable, KeyWipeMbr, KeyNewPartition,
     KeyDeletePartition, KeyFlags, KeyNewFilesystem, KeyKillFilesystem, KeyMount,
     KeyMountTarget, KeySetTarget
<1> QED
  BY <1>2, <1>3, <1>4, <1>5 DEF Key

LEMMA AnswerKeeps ==
  ASSUME VolumesInv, Answer
  PROVE  VolumesInv'
<1> USE DEF Confirmed, Do
<1>1. CASE Dismiss \/ UNCHANGED <<Lists, volumeVars>>
  BY <1>1, SameVolumes DEF Dismiss, volumeVars
<1>2. ASSUME NEW kind, NEW pending, RaiseNext(kind, pending) PROVE VolumesInv'
  BY <1>2, SameVolumes DEF RaiseNext, volumeVars
<1>3. ASSUME NEW kind, Reraise(kind) PROVE VolumesInv'
  BY <1>2, <1>3 DEF Reraise
<1>5. CASE Escape
  BY <1>1, <1>3, <1>5 DEF Escape
<1>6. CASE PttypeCallback
  BY <1>1, <1>6, MakePartitionTableKeeps DEF PttypeCallback
<1>7. CASE RemovePtableConfirm
  BY <1>1, <1>7, WipePtableKeeps DEF RemovePtableConfirm
<1>8. CASE WipeMbrConfirm
  BY <1>1, <1>8, WipeDosmbrKeeps DEF WipeMbrConfirm
<1>9. CASE KillFilesystemConfirm
  BY <1>1, <1>9, WipeFilesystemKeeps DEF KillFilesystemConfirm
<1>10. CASE FlagsCallback
  BY <1>1, <1>10 DEF FlagsCallback
<1>11. CASE DeletePartitionConfirm
  BY <1>1, <1>11, WipePartitionKeeps DEF DeletePartitionConfirm
<1>12. CASE PtypeCallback
  BY <1>3, <1>12 DEF PtypeCallback
<1>13. CASE PsectorsCallback
  BY <1>1, <1>2, <1>13, AddPartitionKeeps DEF PsectorsCallback
<1>14. CASE PnameCallback
  BY <1>1, <1>14, AddPartitionKeeps DEF PnameCallback
<1>15. ASSUME NEW type \in {"ext4", "swap"}, FsDo(type) PROVE VolumesInv'
  BY <1>1, <1>15, MakeFilesystemKeeps DEF FsDo
<1>16. CASE FsCallback \/ FsNamedCallback
  BY <1>3, <1>15, <1>16 DEF FsCallback, FsNamedCallback
<1>17. CASE MountpointCallback
  BY <1>1, <1>17, MmountKeeps DEF MountpointCallback
<1>18. CASE TargpointCallback
  BY <1>1, <1>3, <1>18 DEF TargpointCallback
<1>19. CASE MountopCallback
  BY <1>1, <1>19, MmountKeeps DEF MountopCallback
<1>20. CASE TargetCallback
  BY <1>1, <1>20 DEF TargetCallback
<1>21. CASE ExitConfirm
  BY <1>21, SameVolumes DEF ExitConfirm
<1> QED
  BY <1>5, <1>6, <1>7, <1>8, <1>9, <1>10, <1>11, <1>12, <1>13, <1>14, <1>16, <1>17, <1>18,
     <1>19, <1>20, <1>21 DEF Answer

LEMMA VolumesStep ==
  ASSUME VolumesInv, [Next]_vars
  PROVE  VolumesInv'
<1>1. CASE UNCHANGED vars
  BY <1>1, SameVolumes DEF vars, volumeVars
<1>2. CASE Navigate
  BY <1>2, SameVolumes DEF Navigate, volumeVars
<1>3. CASE Underneath
  BY <1>3, EventsKeep DEF Underneath
<1> QED
  BY <1>1, <1>2, <1>3, LineKeeps, KeyKeeps, AnswerKeeps DEF Next, Done, ScreenNext

LEMMA VolumesStart ==
  ASSUME Init
  PROVE  VolumesInv
<1>1. disk \in Start /\ uevents = {} /\ proc = {}
  BY DEF Init, VolumesInit
<1>2. PICK scanned \in SUBSET Dev :
        LET records == [d \in Dev |-> IF d \in scanned THEN View(disk[d]) ELSE Gone]
        IN  \E L \in Readings(records, disk) :
              rec = Reparsed(records, disk, L) /\ unread = Lines(disk) \ L
  BY DEF Init, VolumesInit
<1> DEFINE records == [d \in Dev |-> IF d \in scanned THEN View(disk[d]) ELSE Gone]
<1>3. PICK L \in Readings(records, disk) :
        rec = Reparsed(records, disk, L) /\ unread = Lines(disk) \ L
  BY <1>2
<1>4. disk = [d \in Dev |-> disk[d]] /\ \A d \in Dev : Possible(disk[d])
  BY <1>1, StartAssumption
<1>5. ASSUME NEW d \in Dev PROVE Apt(disk[d], records[d], d \notin uevents)
  <2>1. CASE d \in scanned
    BY <1>4, <2>1, ViewFacts DEF Apt
  <2>2. CASE d \notin scanned
    BY <1>4, <2>2, GoneShaped DEF Apt
  <2> QED
    BY <2>1, <2>2
<1> HIDE DEF records
<1>6. ASSUME NEW d \in Dev
      PROVE  Good(d, disk[d], rec[d], d \notin uevents, "mounts" \notin proc, unread)
  <2>1. Good(d, disk[d], rec[d], d \notin uevents, TRUE, unread)
    BY <1>3, <1>5, GoodParsed
  <2> QED
    BY <2>1 DEF Good
<1>7. rec = [d \in Dev |-> rec[d]]
  BY <1>3 DEF Reparsed
<1> QED
  BY <1>4, <1>6, <1>7 DEF VolumesInv

LEMMA VolumesInvariant == Spec => []VolumesInv
<1>1. Init => VolumesInv
  BY VolumesStart
<1>2. VolumesInv /\ [Next]_vars => VolumesInv'
  BY VolumesStep
<1> QED
  BY <1>1, <1>2, PTL DEF Spec

\* Whatever is done to a disk, by either interface and by others, and whatever scan fails,
\* while udev and the mount table tell of it later: RecordCurrent, of every disk that is
\* known, for any disks and changes; only mounts that were left out when /proc/mounts was
\* last read may be missing.
THEOREM RecordStaysCurrent == Spec => []RecordCurrent
<1>1. ASSUME VolumesInv PROVE RecordCurrent
  <2> SUFFICES ASSUME NEW d \in Dev, Settled(d), Known(d)
               PROVE  /\ Present(d)
                      /\ rec[d].table = disk[d].table
                      /\ DOMAIN rec[d].parts = DOMAIN View(disk[d]).parts
                      /\ \A v \in Volumes(d) :
                           /\ UseOf(rec[d], v).fs = UseOf(disk[d], v).fs
                           /\ \/ UseOf(rec[d], v).at = UseOf(disk[d], v).at
                              \/ UseOf(rec[d], v).at = "" /\ <<d, v>> \in unread
    BY DEF RecordCurrent
  <2>1. Good(d, disk[d], rec[d], TRUE, TRUE, unread)
    BY <1>1 DEF VolumesInv, Settled
  <2>2. /\ Alike(rec[d], disk[d]) /\ SameMounts(d, rec[d], disk[d], unread)
        /\ Shaped(rec[d], Use) /\ Possible(disk[d])
    BY <2>1 DEF Good, Apt, Known
  <2>3. DOMAIN View(disk[d]).parts = Kept(disk[d])
    BY <2>2, ViewFacts DEF Alike
  <2>4. \A e \in DOMAIN rec[d].parts : e # Whole
    BY <2>2 DEF Shaped
  <2>5. ASSUME NEW v \in Volumes(d)
        PROVE  /\ UseOf(rec[d], v).fs = UseOf(disk[d], v).fs
               /\ OfAt(UseOf(rec[d], v), UseOf(disk[d], v))
                    \/ (Loose(UseOf(rec[d], v)) /\ <<d, v>> \in unread)
    <3>1. CASE v = Whole
      BY <2>2, <3>1 DEF UseOf, Alike, SameMounts
    <3>2. CASE v # Whole
      <4>1. v \in DOMAIN rec[d].parts
        BY <3>2 DEF Volumes
      <4> QED
        BY <2>2, <3>2, <4>1 DEF UseOf, Alike, SameMounts
    <3> QED
      BY <3>1, <3>2
  <2>6. ASSUME NEW v \in Volumes(d)
        PROVE  \/ UseOf(rec[d], v).at = UseOf(disk[d], v).at
               \/ UseOf(rec[d], v).at = "" /\ <<d, v>> \in unread
    BY <2>5 DEF OfAt, Loose
  <2>7. Present(d)
    BY <2>2 DEF Alike, Known, Present
  <2> QED
    BY <2>2, <2>3, <2>5, <2>6, <2>7 DEF Alike
<1> QED
  BY <1>1, VolumesInvariant, PTL

-----------------------------------------------------------------------------
(***************************************************************************)
(* What becomes of a table under a form.                                   *)
(***************************************************************************)
\* Only the full-screen interface has forms.
FormUp == Idle \/ front = "screen"

LEMMA FormUpInvariant == Spec => []FormUp
<1>1. Init => FormUp
  BY DEF Init, ScreenInit, NoForm, FormUp, Idle
<1>2. FormUp /\ [Next]_vars => FormUp'
  BY DEF FormUp, Idle, Next, Done, vars, screenVars
<1> QED
  BY <1>1, <1>2, PTL DEF Spec

Spared ==
  \A d \in Dev :
    Settled(d) /\ disk[d].table \in Supported /\ disk'[d].table = "none"
      => \A v \in TruthVolumes(d) : Loose(UseOf(disk[d], v)) \/ <<d, v>> \in unread

LEMMA UnusedBare ==
  ASSUME NEW t, ~InUse(t)
  PROVE  Bare(t)
BY DEF InUse, Busy, Bare, Loose

LEMMA SparedSame ==
  ASSUME disk' = disk
  PROVE  Spared
BY DEF Spared, Supported

\* The table stays, or becomes another, or nothing was in use.
LEMMA SparedOne ==
  ASSUME VolumesInv, NEW d, NEW made, disk' = [disk EXCEPT ![d] = made],
         d \in Dev => \/ made.table \in {disk[d].table, "gone", "unloaded", "gpt", "dos", "mac"}
                     \/ ~InUse(disk[d]) \/ disk[d].table \notin Supported \/ ~Settled(d)
  PROVE  Spared
<1> SUFFICES ASSUME NEW x \in Dev, Settled(x), disk[x].table \in Supported,
                    disk'[x].table = "none", NEW v \in TruthVolumes(x)
             PROVE  Loose(UseOf(disk[x], v))
  BY DEF Spared
<1>1. CASE x # d
  BY <1>1, EditFacts DEF Supported
<1>2. CASE x = d
  <2>1. ~InUse(disk[x])
    BY <1>2, EditFacts DEF Supported
  <2> QED
    BY <2>1, UnusedBare DEF Bare, UseOf, TruthVolumes
<1> QED
  BY <1>1, <1>2

LEMMA TableKept ==
  ASSUME NEW t, Possible(t), NEW v, NEW u, NEW ps, NEW table
  PROVE  /\ WithUse(t, v, u).table = t.table
         /\ [t EXCEPT !.parts = ps].table = t.table
         /\ [t EXCEPT !.table = table, !.parts = ps].table = table
<1>1. t = [table |-> t.table, parts |-> t.parts, whole |-> t.whole]
  BY DEF Possible, Shaped
<1>2. [t EXCEPT !.parts = ps].table = t.table
  BY <1>1
<1>3. [t EXCEPT !.table = table, !.parts = ps].table = table
  BY <1>1
<1>4. CASE v = Whole
  <2>1. [t EXCEPT !.whole = u].table = t.table
    BY <1>1
  <2> QED
    BY <1>2, <1>3, <1>4, <2>1 DEF WithUse
<1>5. CASE v # Whole
  <2>1. [t EXCEPT !.parts[v] = u].table = t.table
    BY <1>1
  <2> QED
    BY <1>2, <1>3, <1>5, <2>1 DEF WithUse
<1> QED
  BY <1>4, <1>5

LEMMA UseTable ==
  ASSUME VolumesInv, NEW d \in Dev, NEW v, NEW u
  PROVE  WithUse(disk[d], v, u).table = disk[d].table
<1>1. Possible(disk[d])
  BY DEF VolumesInv, Good, Apt
<1>2. \A t : Possible(t) => WithUse(t, v, u).table = t.table
  BY TableKept
<1> QED
  BY <1>1, <1>2

LEMMA FormattedSpared ==
  ASSUME VolumesInv, NEW d, NEW v, NEW type, Formatted(d, v, type), Fits(d, v, UseOf(disk[d], v))
  PROVE  Spared
<1> DEFINE made == WithUse(IF v = Whole THEN [disk[d] EXCEPT !.table = "none", !.parts = <<>>]
                           ELSE disk[d], v, Signed(type))
<1>1. disk' = [disk EXCEPT ![d] = made]
  BY DEF Formatted
<1>2. v = Whole => ~InUse(disk[d])
  BY DEF Fits
<1>3. d \in Dev /\ v # Whole => made.table = disk[d].table
  BY UseTable
<1> HIDE DEF made
<1> QED
  BY <1>1, <1>2, <1>3, SparedOne

LEMMA PartsSpared ==
  ASSUME VolumesInv, NEW d, NEW ps, disk' = [disk EXCEPT ![d] = [disk[d] EXCEPT !.parts = ps]]
  PROVE  Spared
<1> DEFINE made == [disk[d] EXCEPT !.parts = ps]
<1>1. d \in Dev => made.table = disk[d].table
  BY TableKept DEF VolumesInv, Good, Apt
<1>2. disk' = [disk EXCEPT ![d] = made]
  OBVIOUS
<1> HIDE DEF made
<1> QED
  BY <1>1, <1>2, SparedOne

LEMMA UseSpared ==
  ASSUME VolumesInv, NEW d, NEW v, NEW u, disk' = [disk EXCEPT ![d] = WithUse(disk[d], v, u)]
  PROVE  Spared
BY UseTable, SparedOne

\* What growlight has heard of a mount, it looks at.
LEMMA WipePtableSpared ==
  ASSUME VolumesInv, NEW d, WipePtable(d)
  PROVE  Spared
<1> SUFFICES ASSUME NEW x \in Dev, Settled(x), disk[x].table \in Supported,
                    disk'[x].table = "none", NEW v \in TruthVolumes(x)
             PROVE  Loose(UseOf(disk[x], v)) \/ <<x, v>> \in unread
  BY DEF Spared
<1>1. PICK made : disk' = [disk EXCEPT ![d] = made]
  BY DEF WipePtable
<1>2. CASE x # d
  BY <1>1, <1>2, EditFacts DEF Supported
<1>3. CASE x = d
  <2>1. Good(x, disk[x], rec[x], TRUE, TRUE, unread) /\ rec[x].table # "gone"
    BY <1>3 DEF VolumesInv, Settled, WipePtable, Supported
  <2>2. Alike(rec[x], disk[x]) /\ SameMounts(x, rec[x], disk[x], unread)
    BY <2>1 DEF Good, Apt
  <2>3. Bare(rec[x])
    BY <1>3 DEF WipePtable, MountsUnder, Bare, Loose
  <2>4. DOMAIN rec[x].parts = DOMAIN disk[x].parts
    BY <2>2 DEF Alike, Kept, Supported
  <2>5. \A u, w : OfAt(u, w) /\ Loose(u) => Loose(w)
    BY DEF OfAt, Loose
  <2>6. /\ Loose(disk[x].whole) \/ <<x, Whole>> \in unread
        /\ \A e \in DOMAIN disk[x].parts : Loose(disk[x].parts[e]) \/ <<x, e>> \in unread
    BY <2>2, <2>3, <2>4, <2>5 DEF SameMounts, Bare
  <2> QED
    BY <2>6 DEF UseOf, TruthVolumes
<1> QED
  BY <1>2, <1>3

LEMMA MakePartitionTableSpared ==
  ASSUME VolumesInv, NEW d, NEW pty \in Creatable, MakePartitionTable(d, pty)
  PROVE  Spared
<1>1. pty # "mdp" /\ Detected(pty) \in {"gpt", "dos", "mac"}
  BY DEF Creatable, Detected
<1>2. PICK kept \in Reread(disk[d]) :
        disk' = [disk EXCEPT ![d] = [@ EXCEPT !.table = Detected(pty), !.parts = kept]]
  BY <1>1 DEF MakePartitionTable
<1> DEFINE made == [disk[d] EXCEPT !.table = Detected(pty), !.parts = kept]
<1>3. disk' = [disk EXCEPT ![d] = made]
  BY <1>2
<1>4. d \in Dev => made.table = Detected(pty)
  <2>1. d \in Dev => Possible(disk[d])
    BY DEF VolumesInv, Good, Apt
  <2>2. \A t, table : Possible(t) => [t EXCEPT !.table = table, !.parts = kept].table = table
    BY TableKept
  <2> QED
    BY <2>1, <2>2
<1> HIDE DEF made
<1> QED
  BY <1>1, <1>3, <1>4, SparedOne

LEMMA MountSpared ==
  ASSUME VolumesInv, NEW d, NEW v, NEW path, Mmount(d, v, path) \/ Unmount(d, v)
  PROVE  Spared
BY UseSpared DEF Mmount, Unmount, Attached

LEMMA PartitionSpared ==
  ASSUME VolumesInv, NEW d, NEW v, NEW named, NEW f, NEW l,
         AddPartition(d, named, f, l) \/ WipePartition(d, v)
  PROVE  Spared
<1>1. CASE AddPartition(d, named, f, l)
  <2>1. PICK u : disk' = [disk EXCEPT ![d] = [disk[d] EXCEPT !.parts = With(@, <<f, l>>, u)]]
    BY <1>1 DEF AddPartition
  <2> DEFINE ps == With(disk[d].parts, <<f, l>>, u)
  <2>2. disk' = [disk EXCEPT ![d] = [disk[d] EXCEPT !.parts = ps]]
    BY <2>1
  <2> HIDE DEF ps
  <2> QED
    BY <2>2, PartsSpared
<1>2. CASE WipePartition(d, v)
  <2> DEFINE ps == Less(disk[d].parts, v)
  <2>1. disk' = disk \/ disk' = [disk EXCEPT ![d] = [disk[d] EXCEPT !.parts = ps]]
    BY <1>2 DEF WipePartition
  <2> HIDE DEF ps
  <2> QED
    BY <2>1, PartsSpared, SparedSame
<1> QED
  BY <1>1, <1>2

LEMMA FilesystemSpared ==
  ASSUME VolumesInv, NEW d, NEW v, NEW type, MakeFilesystem(d, v, type) \/ WipeFilesystem(d, v)
  PROVE  Spared
BY FormattedSpared DEF MakeFilesystem, WipeFilesystem

LEMMA EventsSpared ==
  ASSUME VolumesInv, Events
  PROVE  Spared
<1>1. CASE MountsEvent \/ SwapsEvent
  BY <1>1, SparedSame DEF MountsEvent, SwapsEvent
<1>2. ASSUME NEW d \in Dev, Uevent(d) PROVE Spared
  BY <1>2, SparedSame DEF Uevent
<1>3. ASSUME NEW d \in Dev, OthersPlug(d) PROVE Spared
  <2> DEFINE made == [Gone EXCEPT !.table = Replugged(disk[d])]
  <2>1. disk' = [disk EXCEPT ![d] = made]
    BY <1>3 DEF OthersPlug
  <2>2. made.table \in {"gone", "unloaded"} \/ disk[d].table = "gone"
    BY DEF Gone, Replugged
  <2> HIDE DEF made
  <2> QED
    BY <2>1, <2>2, SparedOne DEF Supported
<1>4. ASSUME NEW d \in Dev, NEW v, OthersFormat(d, v) PROVE Spared
  BY <1>4, FormattedSpared DEF OthersFormat
<1>5. ASSUME NEW d \in Dev, NEW v, OthersDelete(d, v) PROVE Spared
  <2> DEFINE ps == Less(disk[d].parts, v)
  <2>1. disk' = [disk EXCEPT ![d] = [disk[d] EXCEPT !.parts = ps]]
    BY <1>5 DEF OthersDelete
  <2> HIDE DEF ps
  <2> QED
    BY <2>1, PartsSpared
<1>6. ASSUME NEW d \in Dev, NEW v, OthersUse(d, v) PROVE Spared
  BY <1>6, UseSpared DEF OthersUse, Attached, Prioritised
<1> QED
  BY <1>1, <1>2, <1>3, <1>4, <1>5, <1>6 DEF Events

LEMMA AnswerSpared ==
  ASSUME VolumesInv, Answer, form.kind # "mbr"
  PROVE  Spared
<1> USE DEF Confirmed, Do
<1>1. CASE Dismiss \/ UNCHANGED <<Lists, volumeVars>>
  BY <1>1, SparedSame DEF Dismiss, volumeVars
<1>2. ASSUME NEW kind, NEW pending, RaiseNext(kind, pending) PROVE Spared
  BY <1>2, SparedSame DEF RaiseNext, volumeVars
<1>3. ASSUME NEW kind, Reraise(kind) PROVE Spared
  BY <1>2, <1>3 DEF Reraise
<1>5. CASE Escape
  BY <1>1, <1>3, <1>5 DEF Escape
<1>6. CASE PttypeCallback
  BY <1>1, <1>6, MakePartitionTableSpared DEF PttypeCallback
<1>7. CASE RemovePtableConfirm
  BY <1>1, <1>7, WipePtableSpared DEF RemovePtableConfirm
<1>8. CASE WipeMbrConfirm
  BY <1>8 DEF WipeMbrConfirm, Up
<1>9. CASE KillFilesystemConfirm
  BY <1>1, <1>9, FilesystemSpared DEF KillFilesystemConfirm
<1>10. CASE FlagsCallback
  BY <1>1, <1>10 DEF FlagsCallback
<1>11. CASE DeletePartitionConfirm
  BY <1>1, <1>11, PartitionSpared DEF DeletePartitionConfirm
<1>12. CASE PtypeCallback
  BY <1>3, <1>12 DEF PtypeCallback
<1>13. CASE PsectorsCallback
  BY <1>1, <1>2, <1>13, PartitionSpared DEF PsectorsCallback
<1>14. CASE PnameCallback
  BY <1>1, <1>14, PartitionSpared DEF PnameCallback
<1>15. ASSUME NEW type, FsDo(type) PROVE Spared
  BY <1>1, <1>15, FilesystemSpared DEF FsDo
<1>16. CASE FsCallback \/ FsNamedCallback
  BY <1>3, <1>15, <1>16 DEF FsCallback, FsNamedCallback
<1>17. CASE MountpointCallback
  BY <1>1, <1>17, MountSpared DEF MountpointCallback
<1>18. CASE TargpointCallback
  BY <1>1, <1>3, <1>18 DEF TargpointCallback
<1>19. CASE MountopCallback
  BY <1>1, <1>19, MountSpared DEF MountopCallback
<1>20. CASE TargetCallback
  BY <1>1, <1>20 DEF TargetCallback
<1>21. CASE ExitConfirm
  BY <1>21, SparedSame DEF ExitConfirm
<1> QED
  BY <1>5, <1>6, <1>7, <1>8, <1>9, <1>10, <1>11, <1>12, <1>13, <1>14, <1>16, <1>17, <1>18,
     <1>19, <1>20, <1>21 DEF Answer

\* No key but Escape and 'q' is taken while a form is up.
LEMMA KeySpared ==
  ASSUME Key, ~Idle
  PROVE  Spared
<1>1. KeyQuit
  BY DEF Key, Idle, RaiseForm, Straight, KeyMakePtable, KeyRemovePtable, KeyWipeMbr,
     KeyNewPartition, KeyDeletePartition, KeyFlags, KeyNewFilesystem, KeyKillFilesystem,
     KeyMount, KeyMountTarget, KeySetTarget, KeyUnmount, KeyUnmountTarget, KeyUnsetTarget,
     KeyBoot
<1> QED
  BY <1>1, SparedSame DEF KeyQuit, RaiseForm, volumeVars

\* TablesKept, for any disks and changes: the answer to a form looks at all mounts
\* that growlight has heard of and has not left out, wherever they are on the disk.
THEOREM TablesStayKept == Spec => TablesKept
<1>1. ASSUME VolumesInv, FormUp, Next, form.kind \notin {None, "mbr"} PROVE Spared
  <2>1. front = "screen" /\ ~Idle
    BY <1>1 DEF FormUp, Idle
  <2>2. CASE Done
    BY <2>2, SparedSame DEF Done, vars, volumeVars
  <2>3. CASE ScreenNext
    BY <1>1, <2>1, <2>3, AnswerSpared, KeySpared, EventsSpared
       DEF ScreenNext, Navigate, Underneath
  <2> QED
    BY <1>1, <2>1, <2>2, <2>3 DEF Next
<1>2. ASSUME Spared
      PROVE  \A d \in Dev : Settled(d) /\ disk[d].table \in Supported /\ disk'[d].table = "none"
               => \A v \in TruthVolumes(d) : UseOf(disk[d], v).at = "" \/ <<d, v>> \in unread
  BY <1>2 DEF Spared, Loose
<1>3. VolumesInv /\ FormUp /\ [Next]_vars =>
        [\A d \in Dev :
           /\ form.kind \notin {None, "mbr"} /\ Settled(d)
           /\ disk[d].table \in Supported /\ disk'[d].table = "none"
           => \A v \in TruthVolumes(d) : UseOf(disk[d], v).at = "" \/ <<d, v>> \in unread]_<<
          screenVars, volumeVars>>
  BY <1>1, <1>2 DEF vars
<1> QED
  BY <1>3, VolumesInvariant, FormUpInvariant, PTL DEF Spec, TablesKept
-----------------------------------------------------------------------------
(***************************************************************************)
(* Where the partitions are.  A step leaves a record's table and           *)
(* partitions as they were, or has them as the disk has them, or drops it; *)
(* and if a disk goes from the records, nothing else changes in them.      *)
(***************************************************************************)
Tableless == {"none", "unloaded", "gone"}

LaidInv ==
  \A d \in Dev : /\ Laid(d, DOMAIN disk[d].parts) /\ Laid(d, DOMAIN rec[d].parts)
                 /\ rec[d].table \in Tableless => DOMAIN rec[d].parts = {}

\* What is left out are mounts of the disks.
LeftInv == \A l \in unread : l[1] \in Dev

Stays(x) == rec'[x].table = rec[x].table /\ DOMAIN rec'[x].parts = DOMAIN rec[x].parts
IsRead(x) == rec'[x].table = disk'[x].table /\ DOMAIN rec'[x].parts = Kept(disk'[x])

\* What is on the disks is laid out.
DisksLaid == \A x \in Dev : Laid(x, DOMAIN disk'[x].parts)

Moves ==
  /\ \A x \in Dev : Stays(x) \/ IsRead(x) \/ rec'[x] = Gone
  /\ \A l \in unread' : l \in unread \/ l[1] \in Dev
  /\ \A x, y \in Dev :
       rec[x].table # "gone" /\ rec'[x].table = "gone" /\ y # x => rec'[y] = rec[y]

LEMMA LaidLess ==
  ASSUME NEW d, NEW P, NEW Q, Laid(d, P), Q \subseteq P
  PROVE  Laid(d, Q)
BY DEF Laid

LEMMA LaidNone == \A d : Laid(d, {})
BY DEF Laid

LEMMA MovesLaid ==
  ASSUME VolumesInv, VolumesInv', LaidInv, Moves, DisksLaid
  PROVE  LaidInv'
<1> SUFFICES ASSUME NEW d \in Dev
             PROVE  /\ Laid(d, DOMAIN disk'[d].parts) /\ Laid(d, DOMAIN rec'[d].parts)
                    /\ rec'[d].table \in Tableless => DOMAIN rec'[d].parts = {}
  BY DEF LaidInv, Laid
<1>1. Laid(d, DOMAIN disk'[d].parts)
  BY DEF DisksLaid
<1>2. CASE Stays(d)
  BY <1>1, <1>2 DEF Stays, LaidInv
<1>3. CASE IsRead(d)
  <2>1. Kept(disk'[d]) \subseteq DOMAIN disk'[d].parts
    BY DEF Kept
  <2>2. Possible(disk'[d])
    BY DEF VolumesInv, Good, Apt
  <2>3. disk'[d].table = "gone" => DOMAIN disk'[d].parts = {}
    BY <2>2, GoneShaped DEF Possible
  <2>4. disk'[d].table \in Tableless => Kept(disk'[d]) = {}
    BY <2>1, <2>3 DEF Kept, Tableless
  <2> QED
    BY <1>1, <1>3, <2>1, <2>4, LaidLess DEF IsRead
<1>4. CASE rec'[d] = Gone
  BY <1>1, <1>4, LaidNone, GoneShaped
<1> QED
  BY <1>1, <1>2, <1>3, <1>4 DEF Moves

LEMMA MovesLeft ==
  ASSUME LeftInv, Moves
  PROVE  LeftInv'
BY DEF LeftInv, Moves

\* Nothing of a record but the uses in it.
LEMMA StillMoves ==
  ASSUME \A x \in Dev : Stays(x), unread' = unread
  PROVE  Moves
BY DEF Moves, Stays

LEMMA MountNamed ==
  ASSUME NEW d, NEW t, NEW l \in MountsOf(d, t)
  PROVE  l[1] = d
<1>1. PICK v : l = <<d, v>>
  BY DEF MountsOf
<1> QED
  BY <1>1

\* The mounts are read again, and disks found.
LEMMA ParseMoves ==
  ASSUME VolumesInv', NEW q, Parse(q, disk'),
         \A x \in Dev : \/ q[x].table = rec[x].table /\ DOMAIN q[x].parts = DOMAIN rec[x].parts
                        \/ /\ q[x].table = disk'[x].table /\ q[x].table # "gone"
                           /\ DOMAIN q[x].parts = Kept(disk'[x])
  PROVE  Moves
<1>1. PICK L : rec' = Reparsed(q, disk', L) /\ unread' = Lines(disk') \ L
  BY DEF Parse
<1>2. ASSUME NEW x \in Dev
      PROVE  (Stays(x) \/ IsRead(x)) /\ (rec[x].table # "gone" => rec'[x].table # "gone")
  <2> DEFINE found == FoundIn(q, disk', x, L)
             V == {v \in {Whole} \cup DOMAIN disk'[x].parts : <<x, v>> \in L}
  <2>1. rec'[x] = Mounted(found, disk'[x], V)
    BY <1>1 DEF Reparsed
  <2>2. found \in {q[x], View(disk'[x])} /\ (q[x].table # "gone" => found = q[x])
    BY DEF FoundIn, Discovered
  <2> HIDE DEF found, V
  <2>3. rec'[x].table = found.table /\ DOMAIN rec'[x].parts = DOMAIN found.parts
    BY <2>1 DEF Mounted
  <2>4. View(disk'[x]).table = disk'[x].table /\ DOMAIN View(disk'[x]).parts = Kept(disk'[x])
    BY ViewFacts DEF VolumesInv, Good, Apt, Alike
  <2> QED
    BY <2>2, <2>3, <2>4 DEF Stays, IsRead
<1>3. \A l \in unread' : l[1] \in Dev
  <2> TAKE l \in unread'
  <2>1. PICK x \in Dev : l \in MountsOf(x, disk'[x])
    BY <1>1 DEF Lines
  <2> QED
    BY <2>1, MountNamed
<1> QED
  BY <1>2, <1>3 DEF Moves

LEMMA DropMoves ==
  ASSUME VolumesInv, NEW d \in Dev, Drop(d)
  PROVE  Moves
<1>1. rec'[d] = Gone /\ \A x \in Dev : x # d => rec'[x] = rec[x]
  BY DEF Drop, VolumesInv
<1>2. \A l \in unread' : l \in unread \/ l[1] \in Dev
  <2> TAKE l \in unread'
  <2>1. l \in unread \/ l \in MountsOf(d, disk'[d])
    BY DEF Drop
  <2> QED
    BY <2>1, MountNamed
<1> QED
  BY <1>1, <1>2 DEF Moves, Stays

LEMMA RescanMoves ==
  ASSUME VolumesInv, VolumesInv', NEW d \in Dev, Rescan(d), disk'[d].table # "gone"
  PROVE  Moves
<1>1. CASE UNCHANGED <<rec, unread>>
  BY <1>1, StillMoves DEF Stays
<1>2. CASE Drop(d)
  BY <1>2, DropMoves
<1>3. CASE Parse([rec EXCEPT ![d] = View(disk'[d])], disk')
  <2> DEFINE q == [rec EXCEPT ![d] = View(disk'[d])]
  <2>1. \A x \in Dev : q[x] = IF x = d THEN View(disk'[x]) ELSE rec[x]
    BY DEF VolumesInv
  <2>2. View(disk'[d]).table = disk'[d].table /\ DOMAIN View(disk'[d]).parts = Kept(disk'[d])
    BY ViewFacts DEF VolumesInv, Good, Apt, Alike
  <2> HIDE DEF q
  <2>3. Parse(q, disk')
    BY <1>3 DEF q
  <2>4. \A x \in Dev : \/ q[x].table = rec[x].table /\ DOMAIN q[x].parts = DOMAIN rec[x].parts
                       \/ /\ q[x].table = disk'[x].table /\ q[x].table # "gone"
                          /\ DOMAIN q[x].parts = Kept(disk'[x])
    BY <2>1, <2>2
  <2> QED
    BY <2>3, <2>4, ParseMoves
<1> QED
  BY <1>1, <1>2, <1>3 DEF Rescan

LEMMA EditLaid ==
  ASSUME VolumesInv, LaidInv, NEW d, NEW t, disk' = [disk EXCEPT ![d] = t],
         d \in Dev => Laid(d, DOMAIN t.parts)
  PROVE  DisksLaid
BY EditFacts DEF DisksLaid, LaidInv

\* A disk is edited and read again.
LEMMA ReadAgainMoves ==
  ASSUME VolumesInv, VolumesInv', LaidInv, NEW d \in Dev, NEW t, disk' = [disk EXCEPT ![d] = t],
         Rescan(d), t.table # "gone", Laid(d, DOMAIN t.parts)
  PROVE  DisksLaid /\ Moves
BY EditFacts, EditLaid, RescanMoves

LEMMA PartsOf ==
  ASSUME NEW t, Possible(t), NEW ps, NEW table
  PROVE  /\ [t EXCEPT !.parts = ps].parts = ps /\ [t EXCEPT !.parts = ps].table = t.table
         /\ [t EXCEPT !.table = table, !.parts = ps].parts = ps
         /\ [t EXCEPT !.table = table, !.parts = ps].table = table
         /\ [t EXCEPT !.table = table].parts = t.parts
         /\ [t EXCEPT !.table = table].table = table
<1> t = [table |-> t.table, parts |-> t.parts, whole |-> t.whole]
  BY DEF Possible, Shaped
<1>1. /\ [t EXCEPT !.parts = ps].parts = ps /\ [t EXCEPT !.parts = ps].table = t.table
      /\ [t EXCEPT !.table = table].parts = t.parts
      /\ [t EXCEPT !.table = table].table = table
  OBVIOUS
<1>2. /\ [t EXCEPT !.table = table, !.parts = ps].parts = ps
      /\ [t EXCEPT !.table = table, !.parts = ps].table = table
  OBVIOUS
<1> QED
  BY <1>1, <1>2

LEMMA MakePartitionTableMoves ==
  ASSUME VolumesInv, VolumesInv', LaidInv, NEW d \in Dev, NEW pty \in Creatable \cup {"mdp"},
         MakePartitionTable(d, pty)
  PROVE  DisksLaid /\ Moves
<1>1. CASE pty = "mdp"
  BY <1>1, StillMoves DEF MakePartitionTable, DisksLaid, LaidInv, Stays
<1>2. CASE pty # "mdp"
  <2>1. PICK kept \in Reread(disk[d]) :
          disk' = [disk EXCEPT ![d] = [@ EXCEPT !.table = Detected(pty), !.parts = kept]]
    BY <1>2 DEF MakePartitionTable
  <2> DEFINE t == [disk[d] EXCEPT !.table = Detected(pty), !.parts = kept]
  <2>2. Rescan(d) /\ disk' = [disk EXCEPT ![d] = t]
    BY <1>2, <2>1 DEF MakePartitionTable
  <2>3. Possible(disk[d]) /\ Detected(pty) # "gone"
    BY <1>2 DEF Detected, Creatable, VolumesInv, Good, Apt
  <2>4. Laid(d, DOMAIN kept)
    BY <2>1, LaidNone DEF LaidInv, Reread
  <2>5. t.parts = kept /\ t.table = Detected(pty)
    BY <2>3, PartsOf
  <2> HIDE DEF t
  <2> QED
    BY <2>2, <2>3, <2>4, <2>5, ReadAgainMoves
<1> QED
  BY <1>1, <1>2

LEMMA WipePtableMoves ==
  ASSUME VolumesInv, VolumesInv', LaidInv, NEW d \in Dev, WipePtable(d)
  PROVE  DisksLaid /\ Moves
<1>1. PICK t \in Zapped(rec[d].table, disk[d]) : disk' = [disk EXCEPT ![d] = t]
  BY DEF WipePtable
<1>2. Rescan(d) /\ Possible(disk[d]) /\ disk[d].table # "gone"
  BY DEF WipePtable, Present, VolumesInv, Good, Apt
<1>3. t.table # "gone" /\ t.parts \in {disk[d].parts, <<>>}
  BY <1>1, <1>2, ZappedFacts
<1>4. Laid(d, DOMAIN t.parts)
  BY <1>3, LaidNone DEF LaidInv
<1> QED
  BY <1>1, <1>2, <1>3, <1>4, ReadAgainMoves

LEMMA WipeDosmbrMoves ==
  ASSUME VolumesInv, VolumesInv', LaidInv, NEW d \in Dev, WipeDosmbr(d)
  PROVE  DisksLaid /\ Moves
<1> DEFINE t == [disk[d] EXCEPT !.table = "none"]
<1>1. Rescan(d) /\ disk' = [disk EXCEPT ![d] = t]
  BY DEF WipeDosmbr
<1>2. Possible(disk[d]) /\ Laid(d, DOMAIN disk[d].parts)
  BY DEF VolumesInv, Good, Apt, LaidInv
<1>3. t.parts = disk[d].parts /\ t.table = "none"
  BY <1>2, PartsOf
<1> HIDE DEF t
<1> QED
  BY <1>1, <1>2, <1>3, ReadAgainMoves

\* A new partition is on the disk, and over none.
LEMMA AddPartitionMoves ==
  ASSUME VolumesInv, VolumesInv', LaidInv, NEW d \in Dev, NEW named, NEW f \in Int, NEW l \in Int,
         AddPartition(d, named, f, l)
  PROVE  DisksLaid /\ Moves
<1>1. PICK u \in {Blank, Fresh("ext4", "invalid")} :
        disk' = [disk EXCEPT ![d].parts = With(@, <<f, l>>, u)]
  BY DEF AddPartition
<1> DEFINE ps == With(disk[d].parts, <<f, l>>, u)
           t == [disk[d] EXCEPT !.parts = ps]
<1>2. /\ Offered(d, f, l) /\ Present(d) /\ Rescan(d)
      /\ \A e \in DOMAIN disk[d].parts : l < e[1] \/ e[2] < f
      /\ disk' = [disk EXCEPT ![d] = t]
  BY <1>1 DEF AddPartition
<1>3. Possible(disk[d]) /\ Laid(d, DOMAIN disk[d].parts) /\ Shaped(rec[d], Use)
  BY DEF VolumesInv, Good, Apt, LaidInv
<1>4. f \in 0 .. Size[d] - 1 /\ l \in 0 .. Size[d] - 1 /\ f <= l
  <2>1. First[rec[d].table] \in Nat /\ Size[d] \in Nat
    BY <1>3, DisksAssumption DEF Shaped
  <2> QED
    BY <1>2, <2>1 DEF Offered, FirstUsable, LastUsable
<1>5. DOMAIN ps = DOMAIN disk[d].parts \cup {<<f, l>>}
  BY DEF With
<1>6. Laid(d, DOMAIN ps)
  <2> DEFINE e0 == <<f, l>>
  <2>1. e0 \in (0 .. Size[d] - 1) \X (0 .. Size[d] - 1) /\ e0[1] = f /\ e0[2] = l
    BY <1>4
  <2>2. \A e \in DOMAIN disk[d].parts : l < e[1] \/ e[2] < f
    BY <1>2
  <2> HIDE DEF e0, ps
  <2> QED
    BY <1>3, <1>4, <1>5, <2>1, <2>2 DEF Laid, e0
<1> HIDE DEF ps
<1>7. t.parts = ps /\ t.table # "gone"
  BY <1>2, <1>3, PartsOf DEF Present
<1> HIDE DEF t
<1> QED
  BY <1>2, <1>6, <1>7, ReadAgainMoves

LEMMA LessLaid ==
  ASSUME VolumesInv, LaidInv, NEW d \in Dev, NEW v
  PROVE  LET t == [disk[d] EXCEPT !.parts = Less(@, v)]
         IN  Laid(d, DOMAIN t.parts) /\ t.table = disk[d].table
<1> DEFINE ps == Less(disk[d].parts, v)
<1>1. DOMAIN ps \subseteq DOMAIN disk[d].parts
  BY DEF Less
<1> HIDE DEF ps
<1>2. [disk[d] EXCEPT !.parts = ps].parts = ps /\ [disk[d] EXCEPT !.parts = ps].table = disk[d].table
  <2>1. Possible(disk[d])
    BY DEF VolumesInv, Good, Apt
  <2>2. \A t : Possible(t) =>
          [t EXCEPT !.parts = ps].parts = ps /\ [t EXCEPT !.parts = ps].table = t.table
    BY PartsOf
  <2> QED
    BY <2>1, <2>2
<1> QED
  BY <1>1, <1>2, LaidLess DEF LaidInv, ps

LEMMA WipePartitionMoves ==
  ASSUME VolumesInv, VolumesInv', LaidInv, NEW d \in Dev, NEW v, WipePartition(d, v)
  PROVE  DisksLaid /\ Moves
<1>1. CASE v = Whole
  BY <1>1, StillMoves DEF WipePartition, DisksLaid, LaidInv, Stays
<1>2. CASE v # Whole
  <2> DEFINE t == [disk[d] EXCEPT !.parts = Less(@, v)]
  <2>1. disk' = [disk EXCEPT ![d] = t] /\ rec' = rec /\ unread' = unread
    BY <1>2 DEF WipePartition
  <2>2. Laid(d, DOMAIN t.parts)
    BY LessLaid
  <2> HIDE DEF t
  <2> QED
    BY <2>1, <2>2, EditLaid, StillMoves DEF Stays
<1> QED
  BY <1>1, <1>2

LEMMA RescannedMoves ==
  ASSUME VolumesInv, VolumesInv', LaidInv, NEW d \in Dev, Rescanned(d)
  PROVE  DisksLaid /\ Moves
BY RescanMoves DEF Rescanned, Present, DisksLaid, LaidInv
-----------------------------------------------------------------------------
\* Where the use of a volume changes, no partition does.
LEMMA UseStays ==
  ASSUME NEW t, NEW U, Shaped(t, U), NEW v, NEW u
  PROVE  WithUse(t, v, u).table = t.table /\ DOMAIN WithUse(t, v, u).parts = DOMAIN t.parts
<1> t = [table |-> t.table, parts |-> t.parts, whole |-> t.whole]
  BY DEF Shaped
<1>1. CASE v = Whole
  BY <1>1 DEF WithUse
<1>2. CASE v # Whole
  <2> DEFINE ps == [t.parts EXCEPT ![v] = u]
  <2>1. WithUse(t, v, u) = [t EXCEPT !.parts = ps] /\ DOMAIN ps = DOMAIN t.parts
    BY <1>2 DEF WithUse
  <2> HIDE DEF ps
  <2> QED
    BY <2>1
<1> QED
  BY <1>1, <1>2

LEMMA RecordStays ==
  ASSUME VolumesInv, NEW d, NEW v, NEW u,
         rec' = rec \/ rec' = [rec EXCEPT ![d] = WithUse(@, v, u)], unread' = unread
  PROVE  Moves
<1>1. ASSUME rec' = [rec EXCEPT ![d] = WithUse(@, v, u)], NEW x \in Dev PROVE Stays(x)
  <2>1. rec'[x] \in {rec[x], WithUse(rec[x], v, u)} /\ Shaped(rec[x], Use)
    BY <1>1 DEF VolumesInv, Good, Apt
  <2> QED
    BY <2>1, UseStays DEF Stays
<1> QED
  BY <1>1, StillMoves DEF Stays

LEMMA DiskStays ==
  ASSUME VolumesInv, LaidInv, NEW d, NEW v, NEW u, disk' = [disk EXCEPT ![d] = WithUse(disk[d], v, u)]
  PROVE  DisksLaid
<1>1. d \in Dev => DOMAIN WithUse(disk[d], v, u).parts = DOMAIN disk[d].parts
  <2>1. d \in Dev => Shaped(disk[d], RealUse)
    BY DEF VolumesInv, Good, Apt, Possible
  <2>2. \A t : Shaped(t, RealUse) => DOMAIN WithUse(t, v, u).parts = DOMAIN t.parts
    BY UseStays
  <2> QED
    BY <2>1, <2>2
<1> QED
  BY <1>1, EditLaid DEF LaidInv

\* A file system on the whole disk takes the table's place.
LEMMA FormattedBase ==
  ASSUME VolumesInv, NEW d \in Dev, NEW v, There(d, v)
  PROVE  LET base == IF v = Whole THEN [disk[d] EXCEPT !.table = "none", !.parts = <<>>] ELSE disk[d]
         IN  /\ Shaped(base, RealUse) /\ base.table # "gone"
             /\ base.parts \in {<<>>, disk[d].parts}
<1> DEFINE base == IF v = Whole THEN [disk[d] EXCEPT !.table = "none", !.parts = <<>>] ELSE disk[d]
<1>1. Here(disk[d])
  BY UseThere
<1>2. v # Whole => base = disk[d]
  OBVIOUS
<1>3. v = Whole => base = [disk[d] EXCEPT !.table = "none", !.parts = <<>>]
  OBVIOUS
<1>4. Possible([disk[d] EXCEPT !.table = "none", !.parts = <<>>])
  BY <1>1, TableFacts, HerePossible DEF Here
<1>5. /\ [disk[d] EXCEPT !.table = "none", !.parts = <<>>].table = "none"
      /\ [disk[d] EXCEPT !.table = "none", !.parts = <<>>].parts = <<>>
  BY <1>1, PartsOf, HerePossible
<1>6. Shaped(base, RealUse) /\ base.table # "gone" /\ base.parts \in {<<>>, disk[d].parts}
  <2> HIDE DEF base
  <2> QED
    BY <1>1, <1>2, <1>3, <1>4, <1>5 DEF Possible, Here
<1> QED
  BY <1>6

LEMMA FormattedLaid ==
  ASSUME VolumesInv, LaidInv, NEW d, NEW v, NEW type \in {"none", "ext4", "swap"},
         There(d, v), Formatted(d, v, type)
  PROVE  DisksLaid
<1>1. /\ \A x \in Dev : x # d => disk'[x] = disk[x]
      /\ d \in Dev => Possible(disk'[d]) /\ Fewer(disk[d], disk'[d])
  BY FormattedFacts
<1> DEFINE base == IF v = Whole THEN [disk[d] EXCEPT !.table = "none", !.parts = <<>>] ELSE disk[d]
<1>2. ASSUME d \in Dev PROVE DOMAIN disk'[d].parts \subseteq DOMAIN disk[d].parts
  <2>1. disk' = [disk EXCEPT ![d] = WithUse(base, v, Signed(type))]
    BY DEF Formatted
  <2>2. disk'[d] = WithUse(base, v, Signed(type))
    BY <1>2, <2>1, EditFacts
  <2>3. Shaped(base, RealUse) /\ base.parts \in {<<>>, disk[d].parts}
    BY <1>2, FormattedBase
  <2> HIDE DEF base
  <2>4. DOMAIN disk'[d].parts = DOMAIN base.parts
    BY <2>2, <2>3, UseStays
  <2> QED
    BY <2>3, <2>4
<1>3. \A x \in Dev : DOMAIN disk'[x].parts \subseteq DOMAIN disk[x].parts
  BY <1>1, <1>2
<1> QED
  BY <1>3, LaidLess DEF DisksLaid, LaidInv

LEMMA MakeFilesystemMoves ==
  ASSUME VolumesInv, LaidInv, NEW d, NEW v, NEW type \in {"ext4", "swap"}, MakeFilesystem(d, v, type)
  PROVE  DisksLaid /\ Moves
BY FormattedLaid, RecordStays DEF MakeFilesystem

LEMMA FormattedThere ==
  ASSUME VolumesInv, NEW d \in Dev, NEW v, NEW type \in {"none", "ext4", "swap"},
         There(d, v), Formatted(d, v, type)
  PROVE  disk'[d].table # "gone"
<1> DEFINE base == IF v = Whole THEN [disk[d] EXCEPT !.table = "none", !.parts = <<>>] ELSE disk[d]
<1>1. disk' = [disk EXCEPT ![d] = WithUse(base, v, Signed(type))]
  BY DEF Formatted
<1>2. base.table # "gone" /\ Shaped(base, RealUse)
  BY FormattedBase
<1> HIDE DEF base
<1>3. disk'[d] = WithUse(base, v, Signed(type))
  BY <1>1, EditFacts
<1> QED
  BY <1>2, <1>3, UseStays

LEMMA WipeFilesystemMoves ==
  ASSUME VolumesInv, VolumesInv', LaidInv, NEW d \in Dev, NEW v, WipeFilesystem(d, v)
  PROVE  DisksLaid /\ Moves
<1>1. There(d, v) /\ Formatted(d, v, "none") /\ (Rescan(d) \/ UNCHANGED <<rec, unread>>)
  BY DEF WipeFilesystem
<1>2. disk'[d].table # "gone"
  BY <1>1, FormattedThere
<1> QED
  BY <1>1, <1>2, FormattedLaid, RescanMoves, RecordStays

LEMMA MountMoves ==
  ASSUME VolumesInv, LaidInv, NEW d, NEW v, NEW path, Mmount(d, v, path) \/ Unmount(d, v)
  PROVE  DisksLaid /\ Moves
<1>1. rec' = rec /\ unread' = unread /\ \E u : disk' = [disk EXCEPT ![d] = WithUse(disk[d], v, u)]
  BY DEF Mmount, Unmount, Attached
<1> QED
  BY <1>1, DiskStays, StillMoves DEF Stays

LEMMA SwapMoves ==
  ASSUME VolumesInv, LaidInv, NEW d, NEW v, Swapondev(d, v) \/ Swapoffdev(d, v)
  PROVE  DisksLaid /\ Moves
<1>1. \E u : disk' = [disk EXCEPT ![d] = WithUse(disk[d], v, u)]
  BY DEF Swapondev, Swapoffdev, Prioritised
<1>2. /\ rec' = rec \/ \E u : rec' = [rec EXCEPT ![d] = WithUse(rec[d], v, u)]
      /\ unread' = unread
  BY DEF Swapondev, Swapoffdev, Prioritised
<1>3. DisksLaid
  BY <1>1, DiskStays
<1>4. Moves
  BY <1>2, RecordStays
<1> QED
  BY <1>3, <1>4
-----------------------------------------------------------------------------
LEMMA OthersMove ==
  ASSUME VolumesInv, LaidInv, NEW d \in Dev, NEW v \in TruthVolumes(d),
         OthersFormat(d, v) \/ OthersDelete(d, v) \/ OthersUse(d, v)
  PROVE  DisksLaid /\ Moves
<1>1. Moves
  BY StillMoves DEF OthersFormat, OthersDelete, OthersUse, Stays
<1>2. CASE OthersFormat(d, v)
  BY <1>1, <1>2, FormattedLaid DEF OthersFormat, There, TruthVolumes
<1>3. CASE OthersDelete(d, v)
  <2> DEFINE t == [disk[d] EXCEPT !.parts = Less(@, v)]
  <2>1. disk' = [disk EXCEPT ![d] = t]
    BY <1>3 DEF OthersDelete
  <2>2. Laid(d, DOMAIN t.parts)
    BY LessLaid
  <2> HIDE DEF t
  <2> QED
    BY <1>1, <2>1, <2>2, EditLaid
<1>4. CASE OthersUse(d, v)
  <2>1. \E u : disk' = [disk EXCEPT ![d] = WithUse(disk[d], v, u)]
    BY <1>4 DEF OthersUse, Attached, Prioritised
  <2> QED
    BY <1>1, <2>1, DiskStays
<1> QED
  BY <1>2, <1>3, <1>4

LEMMA OthersPlugMoves ==
  ASSUME VolumesInv, LaidInv, NEW d \in Dev, OthersPlug(d)
  PROVE  DisksLaid /\ Moves
<1> DEFINE t == [Gone EXCEPT !.table = Replugged(disk[d])]
<1>1. disk' = [disk EXCEPT ![d] = t] /\ rec' = rec /\ unread' = unread
  BY DEF OthersPlug
<1>2. t.parts = <<>>
  BY DEF Gone
<1> HIDE DEF t
<1>3. DisksLaid
  <2>1. DOMAIN t.parts = {}
    BY <1>2
  <2> QED
    BY <1>1, <2>1, EditLaid, LaidNone
<1> QED
  BY <1>1, <1>3, StillMoves DEF Stays

LEMMA MountsEventMoves ==
  ASSUME VolumesInv', LaidInv, MountsEvent
  PROVE  DisksLaid /\ Moves
<1>1. Parse(rec, disk') /\ disk' = disk
  BY DEF MountsEvent
<1> QED
  BY <1>1, ParseMoves DEF DisksLaid, LaidInv

LEMMA SwapsEventMoves ==
  ASSUME VolumesInv, LaidInv, SwapsEvent
  PROVE  DisksLaid /\ Moves
<1> DEFINE V(read, x) == {l[2] : l \in {y \in read : y[1] = x}}
<1>1. disk' = disk /\ unread' = unread
  BY DEF SwapsEvent
<1>2. PICK read : rec' = [x \in Dev |-> Raised(IF V(read, x) = {} THEN rec[x]
                                                ELSE Discovered(rec[x], disk[x]), V(read, x))]
  BY DEF SwapsEvent
<1> HIDE DEF V
<1>3. ASSUME NEW x \in Dev
      PROVE  (Stays(x) \/ IsRead(x)) /\ (rec[x].table # "gone" => rec'[x].table # "gone")
  <2> DEFINE q == IF V(read, x) = {} THEN rec[x] ELSE Discovered(rec[x], disk[x])
  <2>1. rec'[x] = Raised(q, V(read, x))
    BY <1>2
  <2>2. q \in {rec[x], View(disk[x])} /\ (rec[x].table # "gone" => q = rec[x])
    BY DEF Discovered
  <2>3. View(disk[x]).table = disk[x].table /\ DOMAIN View(disk[x]).parts = Kept(disk[x])
    BY ViewFacts DEF VolumesInv, Good, Apt, Alike
  <2> HIDE DEF q
  <2>4. rec'[x].table = q.table /\ DOMAIN rec'[x].parts = DOMAIN q.parts
    BY <2>1 DEF Raised
  <2> QED
    BY <1>1, <2>2, <2>3, <2>4 DEF Stays, IsRead
<1> QED
  BY <1>1, <1>3 DEF Moves, DisksLaid, LaidInv

LEMMA UeventMoves ==
  ASSUME VolumesInv, VolumesInv', LaidInv, NEW d \in Dev, Uevent(d)
  PROVE  DisksLaid /\ Moves
<1> DEFINE read == [rec EXCEPT ![d] = View(disk'[d])]
<1>1. /\ disk' = disk
      /\ \/ Drop(d)
         \/ Present(d) /\ Parse(read, disk')
         \/ Present(d) /\ rec' = read /\ unread' = unread
  BY DEF Uevent
<1>2. \A x \in Dev : read[x] = IF x = d THEN View(disk'[x]) ELSE rec[x]
  BY DEF VolumesInv
<1>3. View(disk'[d]).table = disk'[d].table /\ DOMAIN View(disk'[d]).parts = Kept(disk'[d])
  BY ViewFacts DEF VolumesInv, Good, Apt, Alike
<1>4. DisksLaid
  BY <1>1 DEF DisksLaid, LaidInv
<1> HIDE DEF read
<1>5. CASE Drop(d)
  BY <1>4, <1>5, DropMoves
<1>6. CASE Present(d) /\ Parse(read, disk')
  BY <1>1, <1>2, <1>3, <1>4, <1>6, ParseMoves DEF Present
<1>7. CASE Present(d) /\ rec' = read /\ unread' = unread
  BY <1>1, <1>2, <1>3, <1>4, <1>7 DEF Moves, Stays, IsRead, Present
<1> QED
  BY <1>1, <1>5, <1>6, <1>7

LEMMA EventsMove ==
  ASSUME VolumesInv, LaidInv, Events
  PROVE  DisksLaid /\ Moves
<1>1. VolumesInv'
  BY EventsKeep
<1>2. CASE MountsEvent \/ SwapsEvent
  BY <1>1, <1>2, MountsEventMoves, SwapsEventMoves
<1>3. ASSUME NEW d \in Dev, Uevent(d) \/ OthersPlug(d) PROVE DisksLaid /\ Moves
  BY <1>1, <1>3, UeventMoves, OthersPlugMoves
<1> QED
  BY <1>2, <1>3, OthersMove DEF Events
-----------------------------------------------------------------------------
(***************************************************************************)
(* The zones of a disk.                                                    *)
(***************************************************************************)
Zoned == [first : Int, last : Int, kind : {"metadata", "empty", "partition"}]
Within(z, x) == z.first <= x /\ x <= z.last

\* The partitions among some zones.
Shown(s) == {<<s[k].first, s[k].last>> : k \in {x \in DOMAIN s : s[x].kind = "partition"}}

\* Zones that follow each other, with every sector from a up to b in one of them.
Tiles(s, a, b) ==
  /\ s = <<>> => a = b
  /\ s # <<>> => s[1].first = a /\ s[Len(s)].last + 1 = b
  /\ \A k \in DOMAIN s : a <= s[k].first /\ s[k].first <= s[k].last /\ s[k].last < b
  /\ \A k \in DOMAIN s : k > 1 => s[k].first = s[k - 1].last + 1
  /\ \A x \in Int : a <= x /\ x < b => \E k \in DOMAIN s : Within(s[k], x)
  /\ \A x \in Int : \A k, l \in DOMAIN s : Within(s[k], x) /\ Within(s[l], x) => k = l

LEMMA ZoneTypes ==
  ASSUME NEW f \in Int, NEW l \in Int
  PROVE  /\ Meta(f, l) \in Zoned /\ Empty(f, l) \in Zoned
         /\ Meta(f, l).kind # "partition" /\ Empty(f, l).kind # "partition"
         /\ Meta(f, l).first = f /\ Meta(f, l).last = l
         /\ Empty(f, l).first = f /\ Empty(f, l).last = l
BY DEF Meta, Empty, Zoned

LEMMA PartitionType ==
  ASSUME NEW e, e[1] \in Int, e[2] \in Int
  PROVE  /\ Part(e) \in Zoned /\ Part(e).kind = "partition"
         /\ Part(e).first = e[1] /\ Part(e).last = e[2]
BY DEF Part, Zoned

\* What a sequence joined of two has where.
LEMMA JoinedAt ==
  ASSUME NEW M, NEW s \in Seq(M), NEW t \in Seq(M)
  PROVE  /\ s \o t \in Seq(M) /\ Len(s \o t) = Len(s) + Len(t)
         /\ Len(s) \in Nat /\ Len(t) \in Nat
         /\ DOMAIN s = 1 .. Len(s) /\ DOMAIN t = 1 .. Len(t)
         /\ DOMAIN (s \o t) = 1 .. Len(s) + Len(t)
         /\ \A k \in DOMAIN s : (s \o t)[k] = s[k] /\ s[k] \in M
         /\ \A k \in DOMAIN t : (s \o t)[Len(s) + k] = t[k] /\ t[k] \in M
         /\ \A k \in DOMAIN (s \o t) : k \in DOMAIN s \/ (k - Len(s) \in DOMAIN t /\ k \in Int)
OBVIOUS

LEMMA TwoJoined ==
  ASSUME NEW M, NEW s \in Seq(M), NEW e \in M, NEW m \in M
  PROVE  s \o <<e, m>> = (s \o <<e>>) \o <<m>>
<1> DEFINE n == Len(s)
           a == s \o <<e, m>>
           b == (s \o <<e>>) \o <<m>>
<1>1. n \in Nat /\ s \o <<e>> \in Seq(M) /\ Len(s \o <<e>>) = n + 1
  OBVIOUS
<1>2. a \in Seq(M) /\ b \in Seq(M) /\ Len(a) = n + 2 /\ Len(b) = n + 2
  BY <1>1
<1>3. ASSUME NEW i \in 1 .. n + 2 PROVE a[i] = b[i]
  <2>1. CASE i \in 1 .. n
    BY <1>1, <2>1
  <2>2. CASE i = n + 1
    BY <1>1, <2>2
  <2>3. CASE i = n + 2
    BY <1>1, <2>3
  <2> QED
    BY <1>1, <2>1, <2>2, <2>3
<1> HIDE DEF a, b, n
<1>4. a = b
  BY <1>1, <1>2, <1>3, SeqEqual
<1> QED
  BY <1>4 DEF a, b

LEMMA ShownJoined ==
  ASSUME NEW s \in Seq(Zoned), NEW t \in Seq(Zoned)
  PROVE  s \o t \in Seq(Zoned) /\ Shown(s \o t) = Shown(s) \cup Shown(t)
<1> DEFINE j == s \o t
           n == Len(s)
<1>1. /\ n \in Nat
      /\ \A k \in DOMAIN s : k \in DOMAIN j /\ j[k] = s[k]
      /\ \A k \in DOMAIN t : n + k \in DOMAIN j /\ j[n + k] = t[k]
      /\ \A k \in DOMAIN j : k \in DOMAIN s \/ (k - n \in DOMAIN t /\ k = n + (k - n))
  BY JoinedAt
<1> HIDE DEF j, n
<1>2. ASSUME NEW p \in Shown(j) PROVE p \in Shown(s) \cup Shown(t)
  <2>1. PICK k \in DOMAIN j : j[k].kind = "partition" /\ p = <<j[k].first, j[k].last>>
    BY DEF Shown
  <2>2. CASE k \in DOMAIN s
    BY <1>1, <2>1, <2>2 DEF Shown
  <2>3. CASE k \notin DOMAIN s
    <3>1. k - n \in DOMAIN t /\ j[k] = t[k - n]
      BY <1>1, <2>1, <2>3
    <3> QED
      BY <2>1, <3>1 DEF Shown
  <2> QED
    BY <2>2, <2>3
<1>3. ASSUME NEW p \in Shown(s) PROVE p \in Shown(j)
  <2>1. PICK k \in DOMAIN s : s[k].kind = "partition" /\ p = <<s[k].first, s[k].last>>
    BY DEF Shown
  <2> QED
    BY <1>1, <2>1 DEF Shown
<1>4. ASSUME NEW p \in Shown(t) PROVE p \in Shown(j)
  <2>1. PICK k \in DOMAIN t : t[k].kind = "partition" /\ p = <<t[k].first, t[k].last>>
    BY DEF Shown
  <2> QED
    BY <1>1, <2>1 DEF Shown
<1>5. Shown(j) = Shown(s) \cup Shown(t)
  BY <1>2, <1>3, <1>4
<1> QED
  BY <1>5, JoinedAt DEF j

LEMMA TilesJoined ==
  ASSUME NEW s \in Seq(Zoned), NEW t \in Seq(Zoned), NEW a \in Int, NEW b \in Int, NEW c \in Int,
         Tiles(s, a, b), Tiles(t, b, c)
  PROVE  Tiles(s \o t, a, c)
<1> DEFINE j == s \o t
           n == Len(s)
           m == Len(t)
<1>1. /\ n \in Nat /\ m \in Nat /\ j \in Seq(Zoned) /\ Len(j) = n + m
      /\ DOMAIN s = 1 .. n /\ DOMAIN t = 1 .. m /\ DOMAIN j = 1 .. n + m
      /\ \A k \in DOMAIN s : j[k] = s[k] /\ s[k] \in Zoned
      /\ \A k \in DOMAIN t : j[n + k] = t[k] /\ t[k] \in Zoned
      /\ (s = <<>> <=> n = 0) /\ (t = <<>> <=> m = 0) /\ (j = <<>> <=> n + m = 0)
  BY JoinedAt
<1>2. \A k \in DOMAIN j : \/ k \in DOMAIN s /\ j[k] = s[k]
                          \/ k - n \in DOMAIN t /\ j[k] = t[k - n]
  BY JoinedAt, <1>1
<1>3. \A z \in Zoned : z.first \in Int /\ z.last \in Int
  BY DEF Zoned
<1> HIDE DEF j, n, m
<1>4. a <= b /\ b <= c
  <2>1. a <= b
    <3>1. CASE n = 0
      BY <1>1, <3>1 DEF Tiles
    <3>2. CASE n # 0
      <4>1. 1 \in DOMAIN s
        BY <1>1, <3>2
      <4>2. a <= s[1].first /\ s[1].first <= s[1].last /\ s[1].last < b /\ s[1] \in Zoned
        BY <1>1, <4>1 DEF Tiles
      <4> QED
        BY <1>3, <4>2
    <3> QED
      BY <3>1, <3>2
  <2>2. b <= c
    <3>1. CASE m = 0
      BY <1>1, <3>1 DEF Tiles
    <3>2. CASE m # 0
      <4>1. 1 \in DOMAIN t
        BY <1>1, <3>2
      <4>2. b <= t[1].first /\ t[1].first <= t[1].last /\ t[1].last < c /\ t[1] \in Zoned
        BY <1>1, <4>1 DEF Tiles
      <4> QED
        BY <1>3, <4>2
    <3> QED
      BY <3>1, <3>2
  <2> QED
    BY <2>1, <2>2
<1>5. j = <<>> => a = c
  BY <1>1 DEF Tiles
<1>6. ASSUME j # <<>> PROVE j[1].first = a /\ j[Len(j)].last + 1 = c
  <2>1. j[1].first = a
    <3>1. CASE n = 0
      <4>1. 1 \in DOMAIN t /\ j[1] = t[1] /\ t # <<>> /\ a = b
        BY <1>1, <1>6, <3>1 DEF Tiles
      <4> QED
        BY <4>1 DEF Tiles
    <3>2. CASE n # 0
      <4>1. 1 \in DOMAIN s /\ j[1] = s[1] /\ s # <<>>
        BY <1>1, <3>2
      <4> QED
        BY <4>1 DEF Tiles
    <3> QED
      BY <3>1, <3>2
  <2>2. j[Len(j)].last + 1 = c
    <3>1. CASE m = 0
      <4>1. n \in DOMAIN s /\ j[Len(j)] = s[n] /\ s # <<>> /\ b = c
        BY <1>1, <1>6, <3>1 DEF Tiles
      <4> QED
        BY <4>1 DEF Tiles, n
    <3>2. CASE m # 0
      <4>1. m \in DOMAIN t /\ j[Len(j)] = t[m] /\ t # <<>>
        <5>1. m \in 1 .. m
          BY <1>1, <3>2
        <5> QED
          BY <1>1, <3>2, <5>1
      <4> QED
        BY <4>1 DEF Tiles, m
    <3> QED
      BY <3>1, <3>2
  <2> QED
    BY <2>1, <2>2
<1>7. \A k \in DOMAIN j : a <= j[k].first /\ j[k].first <= j[k].last /\ j[k].last < c
  <2> SUFFICES ASSUME NEW k \in DOMAIN j
               PROVE  a <= j[k].first /\ j[k].first <= j[k].last /\ j[k].last < c
    OBVIOUS
  <2>1. CASE k \in DOMAIN s /\ j[k] = s[k]
    <3>1. a <= s[k].first /\ s[k].first <= s[k].last /\ s[k].last < b /\ s[k] \in Zoned
      BY <1>1, <2>1 DEF Tiles
    <3> QED
      BY <1>3, <1>4, <2>1, <3>1
  <2>2. CASE k - n \in DOMAIN t /\ j[k] = t[k - n]
    <3>1. /\ b <= t[k - n].first /\ t[k - n].first <= t[k - n].last /\ t[k - n].last < c
          /\ t[k - n] \in Zoned
      BY <1>1, <2>2 DEF Tiles
    <3> QED
      BY <1>3, <1>4, <2>2, <3>1
  <2> QED
    BY <1>2, <2>1, <2>2
<1>8. \A k \in DOMAIN j : k > 1 => j[k].first = j[k - 1].last + 1
  <2> SUFFICES ASSUME NEW k \in DOMAIN j, k > 1
               PROVE  j[k].first = j[k - 1].last + 1
    OBVIOUS
  <2>1. CASE k \in DOMAIN s
    <3>1. k - 1 \in DOMAIN s /\ j[k] = s[k] /\ j[k - 1] = s[k - 1]
      BY <1>1, <2>1
    <3> QED
      BY <2>1, <3>1 DEF Tiles
  <2>2. CASE k = n + 1
    <3>1. /\ j[k] = t[1] /\ t # <<>> /\ n \in DOMAIN s /\ n = k - 1 /\ j[k - 1] = s[n] /\ s # <<>>
      <4>1. n \in 1 .. n /\ 1 \in 1 .. m /\ k = n + 1 /\ n = k - 1 /\ n # 0 /\ m # 0
        BY <1>1, <2>2
      <4> QED
        BY <1>1, <4>1
    <3>2. t[1].first = b /\ s[n].last + 1 = b
      BY <3>1 DEF Tiles, n
    <3> QED
      BY <3>1, <3>2
  <2>3. CASE k > n + 1
    <3> DEFINE i == k - n
    <3>1. /\ i \in DOMAIN t /\ i - 1 \in DOMAIN t /\ i > 1
          /\ j[k] = t[i] /\ j[k - 1] = t[i - 1]
      <4>1. i \in 1 .. m /\ i - 1 \in 1 .. m /\ k = n + i /\ k - 1 = n + (i - 1) /\ i > 1
        BY <1>1, <2>3
      <4> QED
        BY <1>1, <4>1
    <3> QED
      BY <3>1 DEF Tiles
  <2> QED
    BY <1>1, <2>1, <2>2, <2>3
<1>9. ASSUME NEW x \in Int, a <= x, x < c
      PROVE  \E k \in DOMAIN j : Within(j[k], x)
  <2>1. CASE x < b
    <3>1. PICK k \in DOMAIN s : Within(s[k], x)
      BY <1>9, <2>1 DEF Tiles
    <3>2. k \in DOMAIN j /\ j[k] = s[k]
      BY <1>1
    <3> QED
      BY <3>1, <3>2
  <2>2. CASE ~(x < b)
    <3>1. PICK k \in DOMAIN t : Within(t[k], x)
      BY <1>9, <2>2 DEF Tiles
    <3>2. n + k \in DOMAIN j /\ j[n + k] = t[k]
      BY <1>1
    <3> QED
      BY <3>1, <3>2
  <2> QED
    BY <2>1, <2>2
<1>10. ASSUME NEW x \in Int, NEW k \in DOMAIN j, NEW l \in DOMAIN j,
              Within(j[k], x), Within(j[l], x)
       PROVE  k = l
  <2>1. ASSUME NEW i \in DOMAIN j, Within(j[i], x)
        PROVE  \/ i \in DOMAIN s /\ j[i] = s[i] /\ x < b
               \/ i - n \in DOMAIN t /\ j[i] = t[i - n] /\ ~(x < b)
    <3>1. CASE i \in DOMAIN s /\ j[i] = s[i]
      <4>1. s[i].last < b /\ s[i] \in Zoned
        BY <1>1, <3>1 DEF Tiles
      <4> QED
        BY <1>3, <2>1, <3>1, <4>1 DEF Within
    <3>2. CASE i - n \in DOMAIN t /\ j[i] = t[i - n]
      <4>1. b <= t[i - n].first /\ t[i - n] \in Zoned
        BY <1>1, <3>2 DEF Tiles
      <4> QED
        BY <1>3, <2>1, <3>2, <4>1 DEF Within
    <3> QED
      BY <1>2, <3>1, <3>2
  <2>2. CASE x < b
    <3>1. k \in DOMAIN s /\ j[k] = s[k] /\ l \in DOMAIN s /\ j[l] = s[l]
      BY <1>10, <2>1, <2>2
    <3> QED
      BY <1>10, <3>1 DEF Tiles
  <2>3. CASE ~(x < b)
    <3>1. k - n \in DOMAIN t /\ j[k] = t[k - n] /\ l - n \in DOMAIN t /\ j[l] = t[l - n]
      BY <1>10, <2>1, <2>3
    <3>2. k - n = l - n
      BY <1>10, <3>1 DEF Tiles
    <3> QED
      BY <1>1, <3>2
  <2> QED
    BY <2>2, <2>3
<1>11. Tiles(j, a, c)
  BY <1>5, <1>6, <1>7, <1>8, <1>9, <1>10 DEF Tiles
<1> QED
  BY <1>11 DEF j

LEMMA TilesNone == \A a \in Int : Tiles(<<>>, a, a)
BY DEF Tiles

LEMMA NoZone == <<>> \in Seq(Zoned) /\ Shown(<<>>) = {}
BY DEF Shown

LEMMA OneZone ==
  ASSUME NEW z \in Zoned
  PROVE  /\ <<z>> \in Seq(Zoned)
         /\ Shown(<<z>>) = IF z.kind = "partition" THEN {<<z.first, z.last>>} ELSE {}
         /\ z.first <= z.last => Tiles(<<z>>, z.first, z.last + 1)
<1>1. /\ <<z>> # <<>> /\ Len(<<z>>) = 1 /\ DOMAIN <<z>> = {1} /\ <<z>>[1] = z
      /\ <<z>> \in Seq(Zoned)
  OBVIOUS
<1>2. z.first \in Int /\ z.last \in Int
  BY DEF Zoned
<1> DEFINE s == <<z>>
<1> HIDE DEF s
<1>3. Shown(s) = IF z.kind = "partition" THEN {<<z.first, z.last>>} ELSE {}
  BY <1>1 DEF Shown, s
<1>4. z.first <= z.last => Tiles(s, z.first, z.last + 1)
  BY <1>1, <1>2 DEF Tiles, Within, s
<1> QED
  BY <1>1, <1>3, <1>4 DEF s

\* A record whose partitions are laid out on the disk, as every record's are.
Charted(d, r) ==
  /\ Laid(d, DOMAIN r.parts) /\ r.table \in Tables
  /\ r.table \in Tableless => DOMAIN r.parts = {}

\* The partitions in the order of their sectors, each of them once.
LEMMA SortedFacts ==
  ASSUME NEW d \in Dev, NEW ps, Laid(d, DOMAIN ps)
  PROVE  /\ Sorted(ps) \in Seq(DOMAIN ps)
         /\ \A e \in DOMAIN ps : \E k \in 1 .. Len(Sorted(ps)) : Sorted(ps)[k] = e
         /\ \A k, l \in 1 .. Len(Sorted(ps)) : k < l => Sorted(ps)[k][2] < Sorted(ps)[l][1]
<1> DEFINE P == DOMAIN ps
           starts == {e[1] : e \in P}
           n == Cardinality(starts)
           At(k) == CHOOSE e \in P : e[1] = Nth(starts, k)
<1>1. Size[d] \in Nat
  BY DisksAssumption
<1>2. \A e \in P : /\ e[1] \in 0 .. Size[d] - 1 /\ e[2] \in 0 .. Size[d] - 1 /\ e[1] <= e[2]
                   /\ e[1] \in Nat /\ e[2] \in Nat
  BY <1>1 DEF Laid
<1>3. \A e, x \in P : e = x \/ e[2] < x[1] \/ x[2] < e[1]
  BY DEF Laid
<1>4. starts \subseteq 0 .. Size[d] - 1 /\ starts \subseteq Nat
  BY <1>2
<1>5. IsFiniteSet(starts)
  <2>1. IsFiniteSet(0 .. Size[d] - 1)
    BY <1>1, FS_Interval
  <2> QED
    BY <1>4, <2>1, FS_Subset
<1>6. n \in Nat
  BY <1>5, FS_CardinalityType
<1>7. Sorted(ps) = [k \in 1 .. n |-> At(k)]
  BY DEF Sorted
<1> HIDE DEF P, starts, n
<1>8. /\ \A k \in 1 .. n : Nth(starts, k) \in starts
      /\ \A k, l \in 1 .. n : k < l => Nth(starts, k) < Nth(starts, l)
      /\ \A i \in starts : \E k \in 1 .. n : Nth(starts, k) = i
  BY <1>4, <1>5, NthFacts DEF n
<1>9. \A k \in 1 .. n : At(k) \in P /\ At(k)[1] = Nth(starts, k)
  BY <1>8 DEF starts
<1> HIDE DEF At
<1>10. Sorted(ps) \in Seq(P) /\ Len(Sorted(ps)) = n /\ \A k \in 1 .. n : Sorted(ps)[k] = At(k)
  BY <1>6, <1>7, <1>9
<1>11. ASSUME NEW e \in P PROVE \E k \in 1 .. n : At(k) = e
  <2>1. PICK k \in 1 .. n : Nth(starts, k) = e[1]
    BY <1>8 DEF starts
  <2>2. At(k) \in P /\ At(k)[1] = e[1]
    BY <1>9, <2>1
  <2>3. At(k) = e
    BY <1>2, <1>3, <2>2
  <2> QED
    BY <2>3
<1>12. ASSUME NEW k \in 1 .. n, NEW l \in 1 .. n, k < l PROVE At(k)[2] < At(l)[1]
  <2>1. At(k) \in P /\ At(l) \in P /\ At(k)[1] < At(l)[1]
    BY <1>8, <1>9, <1>12
  <2> QED
    BY <1>2, <1>3, <2>1
<1> QED
  BY <1>10, <1>11, <1>12 DEF P

\* What is shown of a disk.
LEMMA ZonesFacts ==
  ASSUME NEW d \in Dev, NEW r, Charted(d, r)
  PROVE  /\ ZonesOf(d, r) \in Seq(Zoned) /\ Shown(ZonesOf(d, r)) = DOMAIN r.parts
         /\ Usable(r) /\ ZonesOf(d, r) # <<>> =>
              \/ \E b \in Int : b >= Size[d] /\ Tiles(ZonesOf(d, r), 0, b)
              \/ \E t \in Seq(Zoned) : /\ Tiles(t, 0, Size[d]) /\ t # <<>>
                                       /\ ZonesOf(d, r) = t \o <<Meta(Size[d] - 1, Size[d] - 1)>>
<1> DEFINE p == Sorted(r.parts)
           n == Len(p)
           lead == FirstUsable(r)
           size == Size[d]
           From(i) == IF i = 1 THEN lead ELSE p[i - 1][2] + 1
           Run(i) == (IF From(i) = p[i][1] THEN <<>> ELSE <<Empty(From(i), p[i][1] - 1)>>)
                       \o <<Part(p[i])>>
           q == [i \in 1 .. n |-> Run(i)]
           head == IF lead = 0 THEN <<>> ELSE <<Meta(0, lead - 1)>>
<1>1. CASE r.table \in Tableless
  <2>1. ZonesOf(d, r) = <<>> /\ DOMAIN r.parts = {}
    BY <1>1 DEF ZonesOf, Tableless, Charted
  <2> QED
    BY <2>1, NoZone
<1>2. CASE r.table \notin Tableless
  <2>1. ZonesOf(d, r) = head \o FlattenSeq(q) \o Behind(From(n + 1), size)
    BY <1>2 DEF ZonesOf, Tableless
  <2>2. lead \in Nat /\ size \in Nat
    BY DisksAssumption DEF FirstUsable, Charted
  <2>3. /\ p \in Seq(DOMAIN r.parts) /\ n \in Nat
        /\ \A e \in DOMAIN r.parts : \E k \in 1 .. n : p[k] = e
        /\ \A k, l \in 1 .. n : k < l => p[k][2] < p[l][1]
    <3>1. /\ p \in Seq(DOMAIN r.parts)
          /\ \A e \in DOMAIN r.parts : \E k \in 1 .. Len(p) : p[k] = e
          /\ \A k, l \in 1 .. Len(p) : k < l => p[k][2] < p[l][1]
      BY SortedFacts DEF Charted
    <3> HIDE DEF p
    <3>2. Len(p) \in Nat
      BY <3>1
    <3> QED
      BY <3>1, <3>2
  <2>4. \A k \in 1 .. n : /\ p[k] \in DOMAIN r.parts /\ p[k][1] \in 0 .. size - 1
                          /\ p[k][2] \in 0 .. size - 1 /\ p[k][1] <= p[k][2]
                          /\ p[k] = <<p[k][1], p[k][2]>>
                          /\ p[k][1] \in Int /\ p[k][2] \in Int
    <3>1. \A k \in 1 .. n : p[k] \in DOMAIN r.parts
      BY <2>3
    <3>2. \A e \in DOMAIN r.parts :
            /\ e \in (0 .. size - 1) \X (0 .. size - 1) /\ e[1] <= e[2]
            /\ e[1] \in 0 .. size - 1 /\ e[2] \in 0 .. size - 1 /\ e = <<e[1], e[2]>>
      BY DEF Charted, Laid
    <3> HIDE DEF p, size
    <3>3. \A k \in 0 .. size - 1 : k \in Int
      BY <2>2
    <3> QED
      BY <3>1, <3>2, <3>3
  <2> HIDE DEF p, n, lead, size
  <2>5. /\ \A i \in 1 .. n : From(i) \in Int /\ From(i + 1) = p[i][2] + 1
        /\ From(1) = lead /\ From(n + 1) \in Int
    <3>1. From(1) = lead
      OBVIOUS
    <3>2. \A i \in 1 .. n : From(i + 1) = p[i][2] + 1
      BY <2>3
    <3>3. \A i \in 1 .. n + 1 : From(i) \in Int
      <4> TAKE i \in 1 .. n + 1
      <4>1. i \in Int /\ n + 1 \in Int /\ (i = 1 \/ i - 1 \in 1 .. n)
        BY <2>3
      <4> QED
        BY <2>2, <2>4, <4>1
    <3>4. n + 1 \in 1 .. n + 1 /\ \A i \in 1 .. n : i \in 1 .. n + 1
      BY <2>3
    <3> HIDE DEF From
    <3> QED
      BY <3>1, <3>2, <3>3, <3>4
  <2>6. Usable(r) => \A i \in 1 .. n : From(i) <= p[i][1]
    <3> SUFFICES ASSUME Usable(r), NEW i \in 1 .. n PROVE From(i) <= p[i][1]
      OBVIOUS
    <3>1. CASE i = 1
      BY <2>4, <3>1 DEF Usable, lead
    <3>2. CASE i # 1
      <4>1. i - 1 \in 1 .. n /\ i - 1 < i
        BY <2>3, <3>2
      <4>2. p[i - 1][2] < p[i][1] /\ p[i - 1][2] \in Int /\ p[i][1] \in Int
        BY <2>3, <2>4, <4>1
      <4> QED
        BY <3>2, <4>2
    <3> QED
      BY <3>1, <3>2
  <2> HIDE DEF From
  <2>7. ASSUME NEW i \in 1 .. n
        PROVE  /\ Run(i) \in Seq(Zoned) /\ Shown(Run(i)) = {p[i]}
               /\ Usable(r) => Tiles(Run(i), From(i), From(i + 1))
    <3> DEFINE gap == IF From(i) = p[i][1] THEN <<>> ELSE <<Empty(From(i), p[i][1] - 1)>>
               own == <<Part(p[i])>>
    <3>1. From(i) \in Int /\ p[i][1] \in Int /\ p[i][2] \in Int /\ p[i][1] <= p[i][2]
          /\ p[i][1] - 1 \in Int /\ p[i][1] = p[i][1] - 1 + 1
          /\ From(i + 1) = p[i][2] + 1 /\ From(i + 1) \in Int
      BY <2>4, <2>5
    <3>2. /\ Part(p[i]) \in Zoned /\ Part(p[i]).kind = "partition"
          /\ Part(p[i]).first = p[i][1] /\ Part(p[i]).last = p[i][2]
      BY <3>1, PartitionType
    <3>3. /\ Empty(From(i), p[i][1] - 1) \in Zoned
          /\ Empty(From(i), p[i][1] - 1).kind # "partition"
          /\ Empty(From(i), p[i][1] - 1).first = From(i)
          /\ Empty(From(i), p[i][1] - 1).last = p[i][1] - 1
      BY <3>1, ZoneTypes
    <3>4. /\ own \in Seq(Zoned) /\ Shown(own) = {p[i]}
          /\ Tiles(own, p[i][1], From(i + 1))
      <4> DEFINE z == Part(p[i])
      <4>1. z \in Zoned /\ z.kind = "partition" /\ z.first = p[i][1] /\ z.last = p[i][2] /\ own = <<z>>
        BY <3>2
      <4> HIDE DEF z, own
      <4>2. own \in Seq(Zoned) /\ Shown(own) = {<<z.first, z.last>>} /\ Tiles(own, z.first, z.last + 1)
        BY <3>1, <4>1, OneZone
      <4>3. p[i] = <<p[i][1], p[i][2]>>
        BY <2>4
      <4> QED
        BY <3>1, <4>1, <4>2, <4>3
    <3>5. gap \in Seq(Zoned) /\ Shown(gap) = {}
      <4>1. CASE From(i) = p[i][1]
        BY <4>1, NoZone
      <4>2. CASE From(i) # p[i][1]
        <5> DEFINE z == Empty(From(i), p[i][1] - 1)
        <5>1. z \in Zoned /\ z.kind # "partition" /\ gap = <<z>>
          BY <3>3, <4>2
        <5> HIDE DEF z, gap
        <5> QED
          BY <5>1, OneZone
      <4> QED
        BY <4>1, <4>2
    <3>6. ASSUME Usable(r) PROVE Tiles(gap, From(i), p[i][1])
      <4>1. CASE From(i) = p[i][1]
        BY <3>1, <4>1, TilesNone
      <4>2. CASE From(i) # p[i][1]
        <5> DEFINE z == Empty(From(i), p[i][1] - 1)
        <5>1. From(i) <= p[i][1] - 1
          BY <2>6, <3>1, <3>6, <4>2
        <5>2. z \in Zoned /\ z.first = From(i) /\ z.last = p[i][1] - 1 /\ gap = <<z>>
          BY <3>3, <4>2
        <5> HIDE DEF z, gap
        <5>3. Tiles(gap, z.first, z.last + 1)
          BY <5>1, <5>2, OneZone
        <5> QED
          BY <3>1, <5>2, <5>3
      <4> QED
        BY <4>1, <4>2
    <3>7. Run(i) = gap \o own
      OBVIOUS
    <3> HIDE DEF gap, own, Run
    <3>8. gap \o own \in Seq(Zoned) /\ Shown(gap \o own) = Shown(gap) \cup Shown(own)
      BY <3>4, <3>5, ShownJoined
    <3>9. Usable(r) => Tiles(gap \o own, From(i), From(i + 1))
      BY <3>1, <3>4, <3>5, <3>6, TilesJoined
    <3> QED
      BY <3>4, <3>5, <3>7, <3>8, <3>9
  <2> HIDE DEF Run
  <2>8. q \in Seq(Seq(Zoned)) /\ Len(q) = n /\ \A i \in 1 .. n : q[i] = Run(i)
    BY <2>3, <2>7
  <2> HIDE DEF q
  <2>9. PICK f \in [0 .. n -> Seq(Zoned)] :
          /\ f[0] = <<>> /\ \A i \in 1 .. n : f[i] = f[i - 1] \o Run(i)
          /\ FlattenSeq(q) = f[n]
    <3>1. PICK f \in [0 .. Len(q) -> Seq(Zoned)] :
            /\ f[0] = <<>> /\ \A i \in 1 .. Len(q) : f[i] = f[i - 1] \o q[i]
            /\ FlattenSeq(q) = f[Len(q)]
      BY <2>8, Flattened
    <3>2. f \in [0 .. n -> Seq(Zoned)] /\ FlattenSeq(q) = f[n] /\ f[0] = <<>>
      BY <2>8, <3>1
    <3>3. \A i \in 1 .. n : f[i] = f[i - 1] \o Run(i)
      BY <2>8, <3>1
    <3> QED
      BY <3>2, <3>3
  <2> DEFINE Fine(i) == /\ Shown(f[i]) = {p[j] : j \in 1 .. i}
                        /\ Usable(r) => Tiles(f[i], lead, From(i + 1))
             Bad == {i \in 0 .. n : ~Fine(i)}
  <2>10. Fine(0)
    <3>1. f[0] = <<>> /\ 1 .. 0 = {} /\ From(0 + 1) = lead /\ lead \in Int
      BY <2>2, <2>5, <2>9
    <3> QED
      BY <3>1, NoZone, TilesNone
  <2>11. ASSUME NEW i \in 1 .. n, Fine(i - 1) PROVE Fine(i)
    <3>1. i - 1 \in 0 .. n /\ i \in Int /\ (i - 1) + 1 = i /\ f[i - 1] \in Seq(Zoned)
      BY <2>3, <2>9
    <3>2. f[i] = f[i - 1] \o Run(i) /\ Run(i) \in Seq(Zoned)
      BY <2>7, <2>9
    <3>3. Shown(f[i]) = {p[j] : j \in 1 .. i - 1} \cup {p[i]}
      <4>1. Shown(f[i - 1] \o Run(i)) = Shown(f[i - 1]) \cup Shown(Run(i))
        BY <3>1, <3>2, ShownJoined
      <4> QED
        BY <2>7, <2>11, <3>2, <4>1
    <3>4. 1 .. i = (1 .. i - 1) \cup {i}
      BY <2>3
    <3>5. Shown(f[i]) = {p[j] : j \in 1 .. i}
      BY <3>3, <3>4
    <3>6. ASSUME Usable(r) PROVE Tiles(f[i], lead, From(i + 1))
      <4>1. Tiles(f[i - 1], lead, From(i)) /\ Tiles(Run(i), From(i), From(i + 1))
        BY <2>7, <2>11, <3>1, <3>6
      <4>2. lead \in Int /\ From(i) \in Int /\ From(i + 1) \in Int
        BY <2>2, <2>4, <2>5
      <4> QED
        BY <3>1, <3>2, <4>1, <4>2, TilesJoined
    <3> QED
      BY <3>5, <3>6
  <2>12. Fine(n)
    <3> HIDE DEF Fine
    <3> SUFFICES ASSUME Bad # {} PROVE FALSE
      BY <2>3
    <3>1. Bad \subseteq Nat
      BY <2>3
    <3>2. PICK i \in Bad : \A k \in Bad : i <= k
      <4> HIDE DEF Bad
      <4> QED
        BY <3>1, LeastNumber
    <3>3. i \in Nat /\ i \in 0 .. n /\ i # 0 /\ ~Fine(i)
      BY <2>3, <2>10, <3>2
    <3>4. i \in 1 .. n /\ i - 1 \in 0 .. n /\ ~(i <= i - 1)
      BY <2>3, <3>3
    <3>5. Fine(i - 1)
      BY <3>2, <3>4
    <3> QED
      BY <2>11, <3>3, <3>4, <3>5
  <2>13. f[n] \in Seq(Zoned) /\ Shown(f[n]) = DOMAIN r.parts
         /\ (Usable(r) => Tiles(f[n], lead, From(n + 1)))
    <3>1. n \in 0 .. n
      BY <2>3
    <3>2. {p[j] : j \in 1 .. n} = DOMAIN r.parts
      BY <2>3, <2>4
    <3> QED
      BY <2>9, <2>12, <3>1, <3>2
  <2>14. head \in Seq(Zoned) /\ Shown(head) = {} /\ Tiles(head, 0, lead)
    <3>1. CASE lead = 0
      BY <2>2, <3>1, NoZone, TilesNone
    <3>2. CASE lead # 0
      <4> DEFINE z == Meta(0, lead - 1)
      <4>1. lead - 1 \in Int /\ 0 <= lead - 1 /\ lead - 1 + 1 = lead
        BY <2>2, <3>2
      <4>2. z \in Zoned /\ z.kind # "partition" /\ z.first = 0 /\ z.last = lead - 1 /\ head = <<z>>
        BY <3>2, <4>1, ZoneTypes
      <4> HIDE DEF z, head
      <4>3. head \in Seq(Zoned) /\ Shown(head) = {} /\ Tiles(head, z.first, z.last + 1)
        BY <4>1, <4>2, OneZone
      <4> QED
        BY <4>1, <4>2, <4>3
    <3> QED
      BY <3>1, <3>2
  <2> DEFINE most == head \o FlattenSeq(q)
             s == From(n + 1)
             tail == Behind(s, size)
  <2> HIDE DEF head
  <2>15. most \in Seq(Zoned) /\ Shown(most) = DOMAIN r.parts
         /\ (Usable(r) => Tiles(most, 0, s)) /\ s \in Int
    <3>1. Shown(most) = DOMAIN r.parts /\ most \in Seq(Zoned)
      <4>1. most = head \o f[n]
        BY <2>9
      <4> HIDE DEF most
      <4>2. head \o f[n] \in Seq(Zoned) /\ Shown(head \o f[n]) = Shown(head) \cup Shown(f[n])
        BY <2>13, <2>14, ShownJoined
      <4> QED
        BY <2>13, <2>14, <4>1, <4>2
    <3>2. Usable(r) => Tiles(most, 0, s)
      BY <2>2, <2>5, <2>9, <2>13, <2>14, TilesJoined
    <3> QED
      BY <2>5, <3>1, <3>2
  <2>16. ZonesOf(d, r) = most \o tail
    BY <2>1
  <2> HIDE DEF most, s
  <2>17. CASE s >= size
    <3>1. tail = <<>>
      BY <2>17 DEF Behind
    <3>2. ZonesOf(d, r) = most
      BY <2>15, <2>16, <3>1
    <3> QED
      BY <2>15, <2>17, <3>2 DEF size
  <2>18. CASE ~(s >= size)
    <3> DEFINE e == Empty(s, size - 1)
               m == Meta(size - 1, size - 1)
               t == most \o <<e>>
    <3>1. tail = <<e, m>>
      BY <2>18 DEF Behind
    <3>2. s <= size - 1 /\ size - 1 \in Int /\ size - 1 + 1 = size
      BY <2>2, <2>15, <2>18
    <3>3. /\ e \in Zoned /\ e.kind # "partition" /\ e.first = s /\ e.last = size - 1
          /\ m \in Zoned /\ m.kind # "partition"
      BY <2>15, <3>2, ZoneTypes
    <3> HIDE DEF e, m
    <3>4. Tiles(<<e>>, s, size)
      <4>1. Tiles(<<e>>, e.first, e.last + 1)
        BY <3>2, <3>3, OneZone
      <4> QED
        BY <3>2, <3>3, <4>1
    <3>5. <<e>> \in Seq(Zoned) /\ <<m>> \in Seq(Zoned) /\ Shown(<<e>>) = {} /\ Shown(<<m>>) = {}
      BY <3>3, OneZone
    <3>6. t \in Seq(Zoned) /\ t # <<>> /\ Shown(t) = DOMAIN r.parts
      <4>1. t \in Seq(Zoned) /\ Shown(t) = DOMAIN r.parts
        BY <2>15, <3>5, ShownJoined
      <4>2. Len(t) = Len(most) + 1 /\ Len(most) \in Nat
        BY <2>15, <3>5
      <4> HIDE DEF t
      <4> QED
        BY <4>1, <4>2
    <3>7. Usable(r) => Tiles(t, 0, size)
      <4>1. 0 \in Int /\ s \in Int /\ size \in Int
        BY <2>2, <2>15
      <4> QED
        BY <2>15, <3>4, <3>5, <4>1, TilesJoined
    <3>8. ZonesOf(d, r) = t \o <<m>>
      <4>1. most \o <<e, m>> = t \o <<m>>
        BY <2>15, <3>3, TwoJoined
      <4> QED
        BY <2>16, <3>1, <4>1
    <3> HIDE DEF t
    <3>9. ZonesOf(d, r) \in Seq(Zoned) /\ Shown(ZonesOf(d, r)) = DOMAIN r.parts
      <4>1. t \o <<m>> \in Seq(Zoned) /\ Shown(t \o <<m>>) = Shown(t) \cup Shown(<<m>>)
        BY <3>5, <3>6, ShownJoined
      <4> QED
        BY <3>5, <3>6, <3>8, <4>1
    <3> QED
      BY <3>6, <3>7, <3>8, <3>9 DEF m, size
  <2> QED
    BY <2>17, <2>18
<1> QED
  BY <1>1, <1>2

\* Every sector up to the last is in one zone, and a zone begins where the one before ends.
Covered(d, z) ==
  /\ \A s \in 0 .. Size[d] - 2 :
       \E k \in DOMAIN z : {x \in DOMAIN z : z[x].first <= s /\ s <= z[x].last} = {k}
  /\ \A k \in DOMAIN z : k > 1 => z[k].first \in {z[k - 1].last, z[k - 1].last + 1}

LEMMA TilesCover ==
  ASSUME NEW d \in Dev, NEW z \in Seq(Zoned), NEW b \in Int, b >= Size[d], Tiles(z, 0, b)
  PROVE  Covered(d, z)
<1>1. Size[d] \in Nat
  BY DisksAssumption
<1>2. ASSUME NEW s \in 0 .. Size[d] - 2
      PROVE  \E k \in DOMAIN z : {x \in DOMAIN z : z[x].first <= s /\ s <= z[x].last} = {k}
  <2>1. s \in Int /\ 0 <= s /\ s < b
    BY <1>1
  <2>2. PICK k \in DOMAIN z : Within(z[k], s)
    BY <2>1 DEF Tiles
  <2>3. \A x \in DOMAIN z : Within(z[x], s) => x = k
    BY <2>1, <2>2 DEF Tiles
  <2> QED
    BY <2>2, <2>3 DEF Within
<1>3. \A k \in DOMAIN z : k > 1 => z[k].first = z[k - 1].last + 1
  BY DEF Tiles
<1> QED
  BY <1>2, <1>3 DEF Covered

\* The metadata at the end is over the last sector alone.
LEMMA TailCovers ==
  ASSUME NEW d \in Dev, NEW t \in Seq(Zoned), t # <<>>, Tiles(t, 0, Size[d])
  PROVE  Covered(d, t \o <<Meta(Size[d] - 1, Size[d] - 1)>>)
<1> DEFINE m == Meta(Size[d] - 1, Size[d] - 1)
           n == Len(t)
           z == t \o <<m>>
<1>1. Size[d] \in Nat /\ Covered(d, t)
  BY DisksAssumption, TilesCover
<1>2. m \in Zoned /\ m.first = Size[d] - 1 /\ m.last = Size[d] - 1
  BY <1>1, ZoneTypes
<1> HIDE DEF m
<1>3. /\ n \in Nat /\ n # 0 /\ DOMAIN t = 1 .. n /\ DOMAIN z = 1 .. n + 1
      /\ \A k \in 1 .. n : z[k] = t[k] /\ t[k] \in Zoned
      /\ z[n + 1] = m
  BY <1>2
<1>4. t[n].last + 1 = Size[d] /\ t[n].last \in Int
  <2>1. t[Len(t)].last + 1 = Size[d]
    BY DEF Tiles
  <2>2. n \in 1 .. n /\ t[n] \in Zoned
    BY <1>3
  <2>3. t[n].last \in Int
    BY <2>2 DEF Zoned
  <2> QED
    BY <2>1, <2>3
<1> HIDE DEF z, n
<1>5. ASSUME NEW s \in 0 .. Size[d] - 2
      PROVE  \E k \in DOMAIN z : {x \in DOMAIN z : z[x].first <= s /\ s <= z[x].last} = {k}
  <2>1. PICK k \in DOMAIN t : {x \in DOMAIN t : t[x].first <= s /\ s <= t[x].last} = {k}
    BY <1>1 DEF Covered
  <2>2. ~(m.first <= s)
    BY <1>1, <1>2
  <2>3. \A x \in DOMAIN z : x \in DOMAIN t \/ x = n + 1
    BY <1>3
  <2>4. k \in DOMAIN z /\ \A x \in DOMAIN t : x \in DOMAIN z /\ z[x] = t[x]
    BY <1>3
  <2>5. {x \in DOMAIN z : z[x].first <= s /\ s <= z[x].last} = {k}
    BY <1>3, <2>1, <2>2, <2>3, <2>4
  <2> QED
    BY <2>4, <2>5
<1>6. ASSUME NEW k \in DOMAIN z, k > 1
      PROVE  z[k].first \in {z[k - 1].last, z[k - 1].last + 1}
  <2>1. CASE k = n + 1
    <3>1. k - 1 = n /\ z[k] = m /\ z[n] = t[n]
      BY <1>3, <2>1
    <3> QED
      BY <1>1, <1>2, <1>4, <3>1
  <2>2. CASE k # n + 1
    <3>1. k \in DOMAIN t /\ k - 1 \in DOMAIN t /\ z[k] = t[k] /\ z[k - 1] = t[k - 1]
      BY <1>3, <1>6, <2>2
    <3> QED
      BY <1>1, <1>6, <3>1 DEF Covered
  <2> QED
    BY <2>1, <2>2
<1>7. Covered(d, z)
  BY <1>5, <1>6 DEF Covered
<1> QED
  BY <1>7 DEF z, m
-----------------------------------------------------------------------------
(***************************************************************************)
(* The lists and what is selected on them.  Of one adapter: its disks on   *)
(* record are on the list, each once, and the selected one is among them.  *)
(***************************************************************************)
OnRecord == {d \in Dev : Known(d)}

ListFine(s, x, a, K) ==
  /\ s \in Seq(Dev) /\ x \in Dev \cup {None}
  /\ Range(s) = {d \in Dev : Home[d] = a /\ d \in K}
  /\ \A i, j \in DOMAIN s : s[i] = s[j] => i = j
  /\ x # None => x \in Range(s)

ListsInv ==
  /\ bobjs = [a \in Range(Adapter) |-> bobjs[a]]
  /\ selected = [a \in Range(Adapter) |-> selected[a]]
  /\ current \in Range(Adapter)
  /\ \A a \in Range(Adapter) : ListFine(bobjs[a], selected[a], a, OnRecord)

LEMMA RangeAt ==
  ASSUME NEW M, NEW s \in Seq(M)
  PROVE  /\ Range(s) = {s[i] : i \in DOMAIN s} /\ DOMAIN s = 1 .. Len(s) /\ Len(s) \in Nat
         /\ \A i \in DOMAIN s : s[i] \in Range(s) /\ s[i] \in M
         /\ s # <<>> => 1 \in DOMAIN s
BY DEF Range

LEMMA IndexFacts ==
  ASSUME NEW M, NEW s \in Seq(M), NEW d \in Range(s)
  PROVE  IndexIn(s, d) \in DOMAIN s /\ s[IndexIn(s, d)] = d
BY DEF IndexIn, Range

\* The neighbour of a disk on a list is another disk on it, if there is any.
LEMMA NeighbourFacts ==
  ASSUME NEW s \in Seq(Dev), NEW d \in Range(s), \A i, j \in DOMAIN s : s[i] = s[j] => i = j
  PROVE  \/ Neighbour(s, d) = None /\ Range(s) = {d}
         \/ Neighbour(s, d) \in Range(s) /\ Neighbour(s, d) # d
<1> DEFINE i == IndexIn(s, d)
<1>1. i \in DOMAIN s /\ s[i] = d
  BY IndexFacts
<1>2. DOMAIN s = 1 .. Len(s) /\ Len(s) \in Nat /\ \A k \in DOMAIN s : s[k] \in Range(s)
  BY RangeAt
<1>3. Neighbour(s, d) = IF i > 1 THEN s[i - 1] ELSE IF Len(s) > 1 THEN s[2] ELSE None
  BY DEF Neighbour
<1> HIDE DEF i
<1>4. CASE i > 1
  <2>1. i - 1 \in DOMAIN s /\ i - 1 # i
    BY <1>1, <1>2, <1>4
  <2> QED
    BY <1>1, <1>2, <1>3, <1>4, <2>1
<1>5. CASE ~(i > 1) /\ Len(s) > 1
  <2>1. 2 \in DOMAIN s /\ 2 # i
    BY <1>1, <1>2, <1>5
  <2> QED
    BY <1>1, <1>2, <1>3, <1>5, <2>1
<1>6. CASE ~(i > 1) /\ ~(Len(s) > 1)
  <2>1. DOMAIN s = {i}
    BY <1>1, <1>2, <1>6
  <2>2. Range(s) = {d}
    BY <1>1, <2>1 DEF Range
  <2> QED
    BY <1>3, <1>6, <2>2
<1> QED
  BY <1>4, <1>5, <1>6

\* The list of an adapter is brought up to date.
LEMMA ListedFacts ==
  ASSUME ListsInv, NEW a \in Range(Adapter)
  PROVE  /\ Listed(a) \in Seq(Dev)
         /\ Range(Listed(a)) = {d \in Dev : Home[d] = a /\ rec'[d].table # "gone"}
         /\ \A i, j \in DOMAIN Listed(a) : Listed(a)[i] = Listed(a)[j] => i = j
<1> DEFINE s == bobjs[a]
           I == {i \in DOMAIN s : rec'[s[i]].table # "gone"}
           N == {d \in Dev : Home[d] = a /\ ~Known(d) /\ rec'[d].table # "gone"}
           old == Remains(s, I)
           new == SetToSeq(N)
<1>1. ListFine(s, selected[a], a, OnRecord)
  BY DEF ListsInv
<1>2. Listed(a) = old \o new
  BY DEF Listed
<1>3. /\ s \in Seq(Dev) /\ I \subseteq DOMAIN s /\ \A i, j \in DOMAIN s : s[i] = s[j] => i = j
      /\ Range(s) = {s[i] : i \in DOMAIN s}
      /\ Range(s) = {d \in Dev : Home[d] = a /\ Known(d)}
  BY <1>1 DEF ListFine, OnRecord, Range
<1>4. {s[i] : i \in I} = {d \in Dev : Home[d] = a /\ Known(d) /\ rec'[d].table # "gone"}
  BY <1>3
<1>5. IsFiniteSet(N)
  BY DisksAssumption, FS_Subset
<1>6. N \subseteq Dev
  OBVIOUS
<1> HIDE DEF s, I
<1>7. /\ old \in Seq(Dev)
      /\ Range(old) = {d \in Dev : Home[d] = a /\ Known(d) /\ rec'[d].table # "gone"}
      /\ \A i, j \in DOMAIN old : old[i] = old[j] => i = j
  BY <1>3, <1>4, RemainsFacts
<1>8. new \in Seq(N) /\ Range(new) = N /\ \A i, j \in DOMAIN new : new[i] = new[j] => i = j
  <2> HIDE DEF N
  <2> QED
    BY <1>5, ListOfSet
<1>9. new \in Seq(Dev)
  <2> HIDE DEF N, new
  <2> QED
    BY <1>6, <1>8
<1>10. Range(old) \cap Range(new) = {}
  BY <1>7, <1>8
<1>11. Range(old) \cup Range(new) = {d \in Dev : Home[d] = a /\ rec'[d].table # "gone"}
  BY <1>7, <1>8
<1> HIDE DEF old, new, N
<1>12. /\ old \o new \in Seq(Dev) /\ Range(old \o new) = Range(old) \cup Range(new)
       /\ \A i, j \in DOMAIN (old \o new) : (old \o new)[i] = (old \o new)[j] => i = j
  BY <1>7, <1>8, <1>9, <1>10, Joined
<1> QED
  BY <1>2, <1>11, <1>12

\* What becomes of the selection on a list: it stays, or the neighbour takes its
\* place, or the only disk there is.
Succeeds(a, x) ==
  LET s == selected[a]
      left == IF s = None \/ rec'[s].table # "gone" THEN s ELSE Neighbour(bobjs[a], s)
  IN  \/ x = left
      \/ Len(Listed(a)) = 1 /\ x = Listed(a)[1]

LEMMA FollowSelects ==
  ASSUME Follow, NEW a \in Range(Adapter)
  PROVE  Succeeds(a, selected'[a])
BY DEF Follow, Succeeds

LEMMA SucceedsFine ==
  ASSUME ListsInv, Moves, NEW a \in Range(Adapter), NEW x, Succeeds(a, x)
  PROVE  ListFine(Listed(a), x, a, {d \in Dev : rec'[d].table # "gone"})
<1> DEFINE s == selected[a]
           left == IF s = None \/ rec'[s].table # "gone" THEN s ELSE Neighbour(bobjs[a], s)
<1>1. ListFine(bobjs[a], s, a, OnRecord)
  BY DEF ListsInv
<1>2. /\ Listed(a) \in Seq(Dev)
      /\ Range(Listed(a)) = {d \in Dev : Home[d] = a /\ rec'[d].table # "gone"}
      /\ \A i, j \in DOMAIN Listed(a) : Listed(a)[i] = Listed(a)[j] => i = j
  BY ListedFacts
<1>3. CASE Len(Listed(a)) = 1 /\ x = Listed(a)[1]
  <2>1. 1 \in DOMAIN Listed(a)
    BY <1>2, <1>3
  <2>2. x \in Range(Listed(a))
    BY <1>2, <1>3, <2>1, RangeAt
  <2> QED
    BY <1>2, <2>2 DEF ListFine
<1>4. CASE x = left
  <2>1. CASE s = None
    BY <1>2, <1>4, <2>1 DEF ListFine
  <2>2. CASE s # None /\ rec'[s].table # "gone"
    <3>1. s \in Dev /\ Home[s] = a
      BY <1>1, <2>2 DEF ListFine
    <3> QED
      BY <1>2, <1>4, <2>2, <3>1 DEF ListFine
  <2>3. CASE s # None /\ rec'[s].table = "gone"
    <3>1. /\ s \in Dev /\ Home[s] = a /\ Known(s) /\ s \in Range(bobjs[a]) /\ bobjs[a] \in Seq(Dev)
          /\ \A i, j \in DOMAIN bobjs[a] : bobjs[a][i] = bobjs[a][j] => i = j
      BY <1>1, <2>3 DEF ListFine, OnRecord
    <3>2. x = Neighbour(bobjs[a], s)
      BY <1>4, <2>3
    <3>3. CASE x = None
      BY <1>2, <3>3 DEF ListFine
    <3>4. CASE x \in Range(bobjs[a]) /\ x # s
      <4>1. x \in Dev /\ Home[x] = a /\ Known(x)
        BY <1>1, <3>4 DEF ListFine, OnRecord
      <4>2. rec'[x] = rec[x]
        BY <2>3, <3>1, <3>4, <4>1 DEF Moves, Known
      <4> QED
        BY <1>2, <4>1, <4>2 DEF ListFine, Known
    <3> QED
      BY <3>1, <3>2, <3>3, <3>4, NeighbourFacts
  <2> QED
    BY <2>1, <2>2, <2>3
<1> QED
  BY <1>3, <1>4 DEF Succeeds

LEMMA FollowLists ==
  ASSUME ListsInv, Moves, Follow
  PROVE  ListsInv'
<1>1. /\ bobjs' = [a \in Range(Adapter) |-> Listed(a)] /\ current' = current
      /\ selected' = [a \in Range(Adapter) |-> selected'[a]]
  BY DEF Follow
<1>2. \A a \in Range(Adapter) :
        ListFine(Listed(a), selected'[a], a, {d \in Dev : rec'[d].table # "gone"})
  BY FollowSelects, SucceedsFine
<1>3. OnRecord' = {d \in Dev : rec'[d].table # "gone"}
  BY DEF OnRecord, Known
<1>4. \A a \in Range(Adapter) : bobjs'[a] = Listed(a)
  BY <1>1
<1>5. bobjs' = [a \in Range(Adapter) |-> bobjs'[a]]
  BY <1>1
<1>6. \A a \in Range(Adapter) : ListFine(bobjs'[a], selected'[a], a, OnRecord')
  BY <1>2, <1>3, <1>4
<1>7. current' \in Range(Adapter)
  BY <1>1 DEF ListsInv
<1> QED
  BY <1>1, <1>5, <1>6, <1>7 DEF ListsInv

\* The selection of the adapter in focus is lost with the last disk alone.
LEMMA FollowKeeps ==
  ASSUME ListsInv, ListsInv', Moves, Follow, selected[current] # None, bobjs'[current] # <<>>
  PROVE  selected'[current] # None
<1> DEFINE a == current
           s == selected[a]
<1>1. ListFine(bobjs[a], s, a, OnRecord) /\ a \in Range(Adapter)
  BY DEF ListsInv
<1>2. CASE rec'[s].table # "gone"
  <2>1. /\ selected'[a] = s \/ (Len(Listed(a)) = 1 /\ selected'[a] = Listed(a)[1])
        /\ Listed(a) \in Seq(Dev)
    BY <1>1, <1>2, FollowSelects, ListedFacts DEF Succeeds
  <2> QED
    BY <2>1, ScreenAssumption
<1>3. CASE rec'[s].table = "gone"
  <2>1. /\ s \in Dev /\ Home[s] = a /\ Known(s) /\ s \in Range(bobjs[a]) /\ bobjs[a] \in Seq(Dev)
        /\ \A i, j \in DOMAIN bobjs[a] : bobjs[a][i] = bobjs[a][j] => i = j
        /\ Range(bobjs[a]) = {d \in Dev : Home[d] = a /\ Known(d)}
    BY <1>1 DEF ListFine, OnRecord
  <2>2. \A y \in Dev : y # s => rec'[y] = rec[y]
    BY <1>3, <2>1 DEF Moves, Known
  <2>3. /\ bobjs'[a] = Listed(a) /\ Listed(a) \in Seq(Dev)
        /\ Range(Listed(a)) = {d \in Dev : Home[d] = a /\ rec'[d].table # "gone"}
    BY <1>1, ListedFacts DEF Follow
  <2>4. PICK y \in Range(Listed(a)) : TRUE
    BY <2>3, RangeAt
  <2>5. y \in Dev /\ Home[y] = a /\ rec'[y].table # "gone" /\ y # s
    BY <1>3, <2>3
  <2>6. y \in Range(bobjs[a])
    BY <2>1, <2>2, <2>5 DEF Known
  <2>7. Neighbour(bobjs[a], s) \in Dev
    BY <2>1, <2>5, <2>6, NeighbourFacts
  <2>8. selected'[a] = Neighbour(bobjs[a], s) \/ (Len(Listed(a)) = 1 /\ selected'[a] = Listed(a)[1])
    BY <1>1, <1>3, FollowSelects DEF Succeeds
  <2> QED
    BY <2>3, <2>7, <2>8, ScreenAssumption
<1> QED
  BY <1>2, <1>3

\* The zones are those of the record, and one is selected if there are any.
ZonesInv ==
  /\ screen = [d \in Dev |-> screen[d]]
  /\ \A d \in Dev :
       /\ screen[d].zones = ZonesOf(d, rec[d])
       /\ screen[d].zone \in 0 .. Len(ZonesOf(d, rec[d]))
       /\ ZonesOf(d, rec[d]) # <<>> => screen[d].zone # 0

FormInv ==
  /\ form = [kind |-> form.kind, asked |-> form.asked, pending |-> form.pending]
  /\ form.kind \in Kinds \cup {None}
  /\ IF form.kind = "pname" THEN form.pending \in Int \X Int ELSE form.pending = <<>>
  /\ target \in BOOLEAN

ScreenInv == front = "screen" => ListsInv /\ ZonesInv /\ FormInv

LEMMA AllCharted ==
  ASSUME VolumesInv, LaidInv, NEW d \in Dev
  PROVE  Charted(d, rec[d])
BY DEF VolumesInv, LaidInv, Charted, Good, Apt, Shaped

LEMMA ChosenFacts ==
  ASSUME NEW zones \in Seq(Zoned), NEW old \in Nat
  PROVE  /\ Chosen(old, zones) \in 0 .. Len(zones)
         /\ zones # <<>> => Chosen(old, zones) # 0
<1> DEFINE n == Len(zones)
           free == {i \in 1 .. n : zones[i].kind = "empty"}
<1>1. n \in Nat /\ (zones = <<>> <=> n = 0)
  OBVIOUS
<1>2. Chosen(old, zones) = IF old # 0 THEN Min({old, n})
                           ELSE IF free # {} THEN Min(free) ELSE Min({2, n})
  BY DEF Chosen
<1> HIDE DEF n
<1>3. ASSUME NEW F, F \subseteq Nat, F # {} PROVE Min(F) \in F /\ \A y \in F : Min(F) <= y
  BY <1>3, MinIsMember
<1>4. CASE old # 0
  <2>1. Min({old, n}) \in {old, n} /\ \A y \in {old, n} : Min({old, n}) <= y
    BY <1>1, <1>3
  <2> QED
    BY <1>1, <1>2, <1>4, <2>1 DEF n
<1>5. CASE old = 0 /\ free # {}
  <2>1. free \subseteq Nat
    BY <1>1
  <2>2. free \subseteq 1 .. n
    OBVIOUS
  <2> HIDE DEF free
  <2>3. Min(free) \in free
    BY <1>3, <1>5, <2>1
  <2>4. Chosen(old, zones) = Min(free) /\ Min(free) \in 1 .. n
    BY <1>2, <1>5, <2>2, <2>3
  <2> QED
    BY <1>1, <2>4 DEF n
<1>6. CASE old = 0 /\ free = {}
  <2>1. {2, n} \subseteq Nat /\ {2, n} # {}
    BY <1>1
  <2>2. Min({2, n}) \in {2, n} /\ \A y \in {2, n} : Min({2, n}) <= y
    BY <1>3, <2>1
  <2>3. Min({2, n}) \in {2, n} /\ Min({2, n}) <= n
    BY <2>2
  <2> QED
    BY <1>1, <1>2, <1>6, <2>3 DEF n
<1> QED
  BY <1>4, <1>5, <1>6

\* A disk that is drawn.
LEMMA Drawn ==
  ASSUME NEW d \in Dev, NEW r, Charted(d, r), NEW old \in Nat
  PROVE  LET b == Blockobj(d, old, r)
         IN  /\ b.zones = ZonesOf(d, r) /\ b.zone \in 0 .. Len(ZonesOf(d, r))
             /\ ZonesOf(d, r) # <<>> => b.zone # 0
<1> DEFINE z == ZonesOf(d, r)
<1>1. z \in Seq(Zoned)
  BY ZonesFacts
<1>2. Blockobj(d, old, r) = [zones |-> z, zone |-> Chosen(old, z)]
  BY DEF Blockobj
<1> HIDE DEF z
<1>3. Chosen(old, z) \in 0 .. Len(z) /\ (z # <<>> => Chosen(old, z) # 0)
  BY <1>1, ChosenFacts
<1> QED
  BY <1>2, <1>3 DEF z

LEMMA FollowZones ==
  ASSUME VolumesInv, LaidInv, VolumesInv', LaidInv', ZonesInv, Follow
  PROVE  ZonesInv'
<1> DEFINE Old(d) == IF Known(d) THEN screen[d].zone ELSE 0
<1>1. screen' = [d \in Dev |-> Blockobj(d, Old(d), rec'[d])]
  BY DEF Follow, Redraw
<1>2. \A d \in Dev : Old(d) \in Nat
  <2> TAKE d \in Dev
  <2>1. ZonesOf(d, rec[d]) \in Seq(Zoned)
    BY AllCharted, ZonesFacts
  <2>2. Len(ZonesOf(d, rec[d])) \in Nat
    BY <2>1
  <2>3. screen[d].zone \in 0 .. Len(ZonesOf(d, rec[d]))
    BY DEF ZonesInv
  <2> QED
    BY <2>2, <2>3
<1> HIDE DEF Old
<1>3. ASSUME NEW d \in Dev
      PROVE  /\ screen'[d].zones = ZonesOf(d, rec'[d])
             /\ screen'[d].zone \in 0 .. Len(ZonesOf(d, rec'[d]))
             /\ ZonesOf(d, rec'[d]) # <<>> => screen'[d].zone # 0
  <2>1. Charted(d, rec'[d])
    BY DEF VolumesInv, LaidInv, Charted, Good, Apt, Shaped
  <2>2. screen'[d] = Blockobj(d, Old(d), rec'[d])
    BY <1>1
  <2> QED
    BY <1>2, <2>1, <2>2, Drawn
<1>4. screen' = [d \in Dev |-> screen'[d]]
  BY <1>1
<1> QED
  BY <1>3, <1>4 DEF ZonesInv

\* The zone that is selected, where a disk is.
LEMMA SelectedZone ==
  ASSUME VolumesInv, LaidInv, ListsInv, ZonesInv, Selected
  PROVE  /\ Sel \in Dev
         /\ ~Unpartitioned => Zone \in Zoned
<1>1. Sel \in Dev
  BY DEF ListsInv, ListFine, Selected, Sel
<1>2. ASSUME ~Unpartitioned PROVE Zone \in Zoned
  <2> DEFINE z == ZonesOf(Sel, rec[Sel])
  <2>1. z \in Seq(Zoned)
    BY <1>1, AllCharted, ZonesFacts
  <2>2. screen[Sel].zones = z /\ screen[Sel].zone \in 0 .. Len(z) /\ screen[Sel].zone # 0
    BY <1>1, <1>2 DEF ZonesInv, Unpartitioned
  <2> HIDE DEF z
  <2>3. screen[Sel].zone \in 1 .. Len(z)
    BY <2>1, <2>2
  <2> QED
    BY <2>1, <2>2, <2>3 DEF Zone
<1> QED
  BY <1>1, <1>2

LEMMA SpecsFacts ==
  ASSUME NEW z \in Zoned, NEW size \in Nat, NEW s \in Specs(z, size)
  PROVE  s \in Int \X Int /\ s[1] \in Int /\ s[2] \in Int
<1>1. z.first \in Int /\ z.last \in Int
  BY DEF Zoned
<1> DEFINE a == z.first
           b == z.last
<1> HIDE DEF a, b
<1>2. \A pct \in {0, 50, 100} : ((b - a) * pct) \div 100 + a - 1 \in Int
  BY <1>1 DEF a, b
<1>3. \A n \in 0 .. b - a + 1 : a + n - 1 \in Int
  BY <1>1 DEF a, b
<1>4. s \in Int \X Int
  <2>1. CASE \E pct \in {0, 50, 100} : s = <<a, ((b - a) * pct) \div 100 + a - 1>>
    <3>1. PICK x \in Int : s = <<a, x>>
      BY <1>2, <2>1
    <3> QED
      BY <1>1, <3>1 DEF a
  <2>2. CASE \E n \in 0 .. b - a + 1 : s = <<a, a + n - 1>>
    BY <1>1, <1>3, <2>2 DEF a
  <2>3. CASE \E f \in 0 .. size - 1, l \in 0 .. size - 1 : s = <<f, l>>
    BY <2>3
  <2> QED
    BY <2>1, <2>2, <2>3 DEF Specs, a, b
<1> QED
  BY <1>4
-----------------------------------------------------------------------------
(***************************************************************************)
(* A key, an answer or an event leaves the record and what is drawn as     *)
(* they are, or what is drawn follows what becomes of the record.          *)
(***************************************************************************)
Standing ==
  VolumesInv /\ LaidInv /\ LeftInv /\ ListsInv /\ ZonesInv /\ FormInv /\ front = "screen"

Unmoved == UNCHANGED <<disk, rec, unread, bobjs, selected, current, screen>>
Followed == Unmoved \/ (Follow /\ DisksLaid /\ Moves)

LEMMA KeyFollows ==
  ASSUME Standing, Key
  PROVE  Followed
<1>1. ASSUME NEW kind, RaiseForm(kind) PROVE Followed
  BY <1>1 DEF RaiseForm, volumeVars, Lists, Followed, Unmoved
<1>2. CASE KeyUnmount \/ KeyUnmountTarget
  BY <1>2, SwapMoves, MountMoves DEF KeyUnmount, KeyUnmountTarget, Straight, Followed, Standing
<1>3. CASE KeyUnsetTarget \/ KeyBoot
  BY <1>3 DEF KeyUnsetTarget, KeyBoot, volumeVars, Lists, screenVars, Followed, Unmoved
<1>4. CASE KeyQuit
  BY <1>1, <1>4 DEF KeyQuit, screenVars, Followed, Unmoved
<1>5. CASE \/ KeyMakePtable \/ KeyRemovePtable \/ KeyWipeMbr \/ KeyNewPartition
           \/ KeyDeletePartition \/ KeyFlags \/ KeyNewFilesystem \/ KeyKillFilesystem
           \/ KeyMount \/ KeyMountTarget \/ KeySetTarget
  BY <1>1, <1>5 DEF KeyMakePtable, KeyRemovePtable, KeyWipeMbr, KeyNewPartition,
     KeyDeletePartition, KeyFlags, KeyNewFilesystem, KeyKillFilesystem, KeyMount,
     KeyMountTarget, KeySetTarget
<1> QED
  BY <1>2, <1>3, <1>4, <1>5 DEF Key

LEMMA AnswerFollows ==
  ASSUME Standing, VolumesInv', Answer
  PROVE  Followed
<1> USE DEF Confirmed, Do
<1>1. CASE Dismiss \/ UNCHANGED <<Lists, volumeVars>>
  BY <1>1 DEF Dismiss, volumeVars, Lists, Followed, Unmoved
<1>2. ASSUME NEW kind, NEW pending, RaiseNext(kind, pending) PROVE Followed
  BY <1>2 DEF RaiseNext, volumeVars, Lists, Followed, Unmoved
<1>3. ASSUME NEW kind, Reraise(kind) PROVE Followed
  BY <1>2, <1>3 DEF Reraise
<1>4. Selected => Sel \in Dev /\ (~Unpartitioned => Zone \in Zoned)
  BY SelectedZone DEF Standing
<1>5. CASE Escape
  BY <1>1, <1>3, <1>5 DEF Escape
<1>6. CASE PttypeCallback
  BY <1>1, <1>4, <1>6, MakePartitionTableMoves DEF PttypeCallback, Makeable, Followed, Standing
<1>7. CASE RemovePtableConfirm
  BY <1>1, <1>4, <1>7, WipePtableMoves DEF RemovePtableConfirm, Followed, Standing
<1>8. CASE WipeMbrConfirm
  BY <1>1, <1>4, <1>8, WipeDosmbrMoves DEF WipeMbrConfirm, Followed, Standing
<1>9. CASE KillFilesystemConfirm
  BY <1>1, <1>4, <1>9, WipeFilesystemMoves DEF KillFilesystemConfirm, OnVolume, Followed, Standing
<1>10. CASE FlagsCallback
  BY <1>1, <1>10 DEF FlagsCallback
<1>11. CASE DeletePartitionConfirm
  BY <1>1, <1>4, <1>11, WipePartitionMoves
     DEF DeletePartitionConfirm, OnVolume, Followed, Standing
<1>12. CASE PtypeCallback
  BY <1>3, <1>12 DEF PtypeCallback
<1>13. CASE PsectorsCallback
  <2>1. CASE Dismiss \/ \E kind, pending : RaiseNext(kind, pending)
    BY <1>1, <1>2, <2>1
  <2>2. CASE \E s \in Specs(Zone, Size[Sel]) :
               PartitionBase /\ Do(AddPartition(Sel, FALSE, s[1], s[2]))
    <3>1. PICK s \in Specs(Zone, Size[Sel]) :
            PartitionBase /\ Do(AddPartition(Sel, FALSE, s[1], s[2]))
      BY <2>2
    <3>2. Sel \in Dev /\ Zone \in Zoned /\ Size[Sel] \in Nat
      BY <1>4, <3>1, DisksAssumption DEF PartitionBase
    <3>3. s[1] \in Int /\ s[2] \in Int
      BY <3>2, SpecsFacts
    <3> QED
      BY <1>1, <3>1, <3>2, <3>3, AddPartitionMoves DEF Followed, Standing
  <2> QED
    BY <1>13, <2>1, <2>2 DEF PsectorsCallback
<1>14. CASE PnameCallback
  <2>1. form.pending[1] \in Int /\ form.pending[2] \in Int
    BY <1>14 DEF PnameCallback, Up, Standing, FormInv
  <2> QED
    BY <1>1, <1>4, <1>14, <2>1, AddPartitionMoves
       DEF PnameCallback, PartitionBase, Followed, Standing
<1>15. ASSUME NEW type \in {"ext4", "swap"}, FsDo(type) PROVE Followed
  BY <1>1, <1>15, MakeFilesystemMoves DEF FsDo, Followed, Standing
<1>16. CASE FsCallback \/ FsNamedCallback
  BY <1>3, <1>15, <1>16 DEF FsCallback, FsNamedCallback
<1>17. CASE MountpointCallback
  BY <1>1, <1>17, MountMoves DEF MountpointCallback, Followed, Standing
<1>18. CASE TargpointCallback
  BY <1>1, <1>3, <1>18 DEF TargpointCallback
<1>19. CASE MountopCallback
  BY <1>1, <1>19, MountMoves DEF MountopCallback, Followed, Standing
<1>20. CASE TargetCallback
  BY <1>1, <1>20 DEF TargetCallback
<1>21. CASE ExitConfirm
  BY <1>21 DEF ExitConfirm, screenVars, Followed, Unmoved
<1> QED
  BY <1>5, <1>6, <1>7, <1>8, <1>9, <1>10, <1>11, <1>12, <1>13, <1>14, <1>16, <1>17, <1>18,
     <1>19, <1>20, <1>21 DEF Answer

LEMMA UnderneathFollows ==
  ASSUME Standing, Underneath
  PROVE  Followed
BY EventsMove DEF Standing, Underneath, Followed

LEMMA UnmovedKeeps ==
  ASSUME Standing, Unmoved
  PROVE  LaidInv' /\ LeftInv' /\ ListsInv' /\ ZonesInv'
<1>1. LaidInv' /\ LeftInv'
  BY DEF Standing, Unmoved, LaidInv, LeftInv
<1>2. ListsInv'
  BY DEF Standing, Unmoved, ListsInv, OnRecord, Known
<1>3. ZonesInv'
  BY DEF Standing, Unmoved, ZonesInv
<1> QED
  BY <1>1, <1>2, <1>3

LEMMA FollowedKeeps ==
  ASSUME Standing, VolumesInv', Followed
  PROVE  LaidInv' /\ LeftInv' /\ ListsInv' /\ ZonesInv'
<1>1. CASE Follow /\ DisksLaid /\ Moves
  <2>1. LaidInv' /\ LeftInv'
    BY <1>1, MovesLaid, MovesLeft DEF Standing
  <2> QED
    BY <1>1, <2>1, FollowLists, FollowZones DEF Standing
<1> QED
  BY <1>1, UnmovedKeeps DEF Followed
-----------------------------------------------------------------------------
(***************************************************************************)
(* Keys that move the selection.                                           *)
(***************************************************************************)
\* One of n, the next or the one before, around.
LEMMA Around ==
  ASSUME NEW n \in Nat, NEW i \in 1 .. n, NEW step \in {-1, 1}
  PROVE  ((i - 1 + step + n) % n) + 1 \in 1 .. n
OBVIOUS

LEMMA UseZoneKeeps ==
  ASSUME Standing, NEW step \in {-1, 1}, UseZone(step), UNCHANGED volumeVars
  PROVE  ListsInv' /\ ZonesInv'
<1>1. UNCHANGED <<bobjs, selected, current, rec>>
  BY DEF UseZone, volumeVars
<1>2. ListsInv'
  BY <1>1 DEF Standing, ListsInv, OnRecord, Known
<1> DEFINE z == ZonesOf(Sel, rec[Sel])
           old == screen[Sel].zone
           new == ((old - 1 + step + Len(z)) % Len(z)) + 1
<1>3. Sel \in Dev /\ z \in Seq(Zoned) /\ old \in 1 .. Len(z) /\ screen[Sel].zones = z
  <2>1. Sel \in Dev
    BY SelectedZone DEF Standing, UseZone
  <2>2. z \in Seq(Zoned)
    BY <2>1, AllCharted, ZonesFacts DEF Standing
  <2>3. old \in 0 .. Len(z) /\ old # 0 /\ screen[Sel].zones = z
    BY <2>1 DEF Standing, ZonesInv, UseZone, Unpartitioned
  <2> HIDE DEF z, old
  <2> QED
    BY <2>1, <2>2, <2>3
<1>4. screen' = [screen EXCEPT ![Sel].zone = new]
  <2> HIDE DEF z
  <2>1. screen' = [screen EXCEPT ![Sel].zone = ((@ - 1 + step + Len(z)) % Len(z)) + 1]
    BY <1>3 DEF UseZone
  <2> QED
    BY <1>3, <2>1 DEF Standing, ZonesInv
<1>5. new \in 1 .. Len(z)
  <2>1. Len(z) \in Nat
    BY <1>3
  <2> HIDE DEF z, old
  <2> QED
    BY <1>3, <2>1, Around
<1> HIDE DEF new, z
<1>6. \A d \in Dev : /\ screen'[d].zones = screen[d].zones
                     /\ screen'[d].zone = IF d = Sel THEN new ELSE screen[d].zone
  <2>1. screen = [d \in Dev |-> screen[d]]
    BY DEF Standing, ZonesInv
  <2> QED
    BY <1>3, <1>4, <2>1
<1>7. screen' = [d \in Dev |-> screen'[d]]
  BY <1>4 DEF Standing, ZonesInv
<1>8. \A k \in 1 .. Len(z) : k \in 0 .. Len(z) /\ k # 0
  BY <1>3
<1>9. ZonesInv'
  BY <1>1, <1>5, <1>6, <1>7, <1>8 DEF Standing, ZonesInv, z
<1> QED
  BY <1>2, <1>9

\* Nothing but what is selected changes.
LEMMA SelectKeeps ==
  ASSUME Standing, UNCHANGED <<bobjs, screen, rec>>,
         selected' = [a \in Range(Adapter) |-> selected'[a]], current' \in Range(Adapter),
         \A a \in Range(Adapter) :
           selected'[a] \in {None, selected[a]} \/ selected'[a] \in Range(bobjs[a])
  PROVE  ListsInv' /\ ZonesInv'
<1>1. ZonesInv'
  BY DEF Standing, ZonesInv
<1>2. OnRecord' = OnRecord
  BY DEF OnRecord, Known
<1>3. ASSUME NEW a \in Range(Adapter)
      PROVE  ListFine(bobjs[a], selected'[a], a, OnRecord)
  <2>1. ListFine(bobjs[a], selected[a], a, OnRecord)
    BY DEF Standing, ListsInv
  <2> QED
    BY <2>1 DEF ListFine
<1>4. ListsInv'
  BY <1>2, <1>3 DEF Standing, ListsInv
<1> QED
  BY <1>1, <1>4

LEMMA UseDeviceKeeps ==
  ASSUME Standing, NEW step \in {-1, 1}, UseDevice(step), UNCHANGED volumeVars
  PROVE  /\ ListsInv' /\ ZonesInv'
         /\ current' = current /\ selected'[current] # None
<1> DEFINE s == bobjs[current]
<1>1. PICK i : i \in DOMAIN s /\ selected' = [selected EXCEPT ![current] = s[i]]
  BY DEF UseDevice
<1>2. UNCHANGED <<bobjs, current, screen, rec>>
  BY DEF UseDevice, volumeVars
<1>3. /\ current \in Range(Adapter) /\ selected = [a \in Range(Adapter) |-> selected[a]]
      /\ s \in Seq(Dev)
  BY DEF Standing, ListsInv, ListFine
<1>4. s[i] \in Range(s) /\ s[i] \in Dev
  BY <1>1, <1>3, RangeAt
<1>5. /\ selected'[current] = s[i]
      /\ \A a \in Range(Adapter) : a # current => selected'[a] = selected[a]
      /\ selected' = [a \in Range(Adapter) |-> selected'[a]]
  BY <1>1, <1>3
<1> QED
  BY <1>2, <1>3, <1>4, <1>5, SelectKeeps, ScreenAssumption

\* Another adapter comes into focus, or the same if there is no other.
LEMMA UseAdapterKeeps ==
  ASSUME Standing, NEW step \in {-1, 1}, UseAdapter(step), UNCHANGED volumeVars
  PROVE  /\ ListsInv' /\ ZonesInv'
         /\ current' = current /\ selected[current] # None => selected'[current] # None
<1> DEFINE n == Len(Adapter)
           i == IndexIn(Adapter, current)
           a == Adapter[((i - 1 + step + n) % n) + 1]
           off == IF step = 1 THEN [selected EXCEPT ![current] = None] ELSE selected
           to == IF a = current /\ step = 1 THEN bobjs[a][1] ELSE SelectAdapter(a)
<1>1. /\ UNCHANGED <<bobjs, screen, rec>> /\ current' = a
      /\ selected' = IF Sel = None THEN off ELSE [off EXCEPT ![a] = to]
  BY DEF UseAdapter, volumeVars
<1>2. /\ current \in Range(Adapter) /\ selected = [x \in Range(Adapter) |-> selected[x]]
      /\ Adapter \in Seq(Range(Adapter)) /\ None \notin Dev
      /\ \A x \in Range(Adapter) : ListFine(bobjs[x], selected[x], x, OnRecord)
  BY ScreenAssumption DEF Standing, ListsInv
<1>3. a \in Range(Adapter)
  <2>1. i \in 1 .. n /\ n \in Nat
    BY <1>2, IndexFacts, RangeAt
  <2> HIDE DEF i, n
  <2>2. ((i - 1 + step + n) % n) + 1 \in 1 .. n
    BY <2>1, Around
  <2> QED
    BY <1>2, <2>2, RangeAt DEF n
<1> HIDE DEF a
<1>4. /\ off = [x \in Range(Adapter) |-> off[x]]
      /\ \A x \in Range(Adapter) : off[x] \in {None, selected[x]}
  BY <1>2
<1>5. ASSUME Sel # None
      PROVE  /\ to \in {None, selected[a]} \/ to \in Range(bobjs[a])
             /\ a = current => to # None
  <2>1. CASE a = current /\ step = 1
    <3>1. ListFine(bobjs[a], Sel, a, OnRecord)
      BY <1>2, <1>3, <2>1 DEF Sel
    <3>2. bobjs[a] # <<>> /\ bobjs[a] \in Seq(Dev)
      BY <1>5, <3>1 DEF ListFine, Range
    <3>3. bobjs[a][1] \in Range(bobjs[a]) /\ bobjs[a][1] \in Dev
      BY <3>2, RangeAt
    <3> QED
      BY <1>2, <2>1, <3>3
  <2>2. CASE ~(a = current /\ step = 1)
    <3>1. to = SelectAdapter(a) /\ bobjs[a] \in Seq(Dev)
      BY <1>2, <1>3, <2>2 DEF ListFine
    <3>2. bobjs[a] # <<>> => bobjs[a][1] \in Range(bobjs[a])
      BY <3>1, RangeAt
    <3> QED
      BY <1>5, <3>1, <3>2 DEF SelectAdapter, Sel
  <2> QED
    BY <2>1, <2>2
<1> HIDE DEF off, to
<1>6. /\ selected' = [x \in Range(Adapter) |-> selected'[x]]
      /\ \A x \in Range(Adapter) :
           selected'[x] \in {None, selected[x]} \/ selected'[x] \in Range(bobjs[x])
      /\ Sel # None => selected'[a] = to
  <2>1. CASE Sel = None
    BY <1>1, <1>4, <2>1
  <2>2. CASE Sel # None
    <3>1. selected' = [off EXCEPT ![a] = to]
      BY <1>1, <2>2
    <3>2. selected'[a] = to /\ \A x \in Range(Adapter) : x # a => selected'[x] = off[x]
      BY <1>3, <1>4, <3>1
    <3>3. selected' = [x \in Range(Adapter) |-> selected'[x]]
      BY <1>4, <3>1
    <3> QED
      BY <1>4, <1>5, <2>2, <3>2, <3>3
  <2> QED
    BY <2>1, <2>2
<1>7. ListsInv' /\ ZonesInv'
  BY <1>1, <1>3, <1>6, SelectKeeps
<1>8. current' = current /\ selected[current] # None => selected'[current] # None
  BY <1>1, <1>5, <1>6 DEF Sel
<1> QED
  BY <1>7, <1>8

LEMMA NavigateKeeps ==
  ASSUME Standing, Navigate
  PROVE  /\ LaidInv' /\ ListsInv' /\ ZonesInv'
         /\ current' = current /\ selected[current] # None => selected'[current] # None
<1>1. LaidInv'
  BY DEF Navigate, volumeVars, Standing, LaidInv
<1>2. UNCHANGED volumeVars
  BY DEF Navigate
<1>3. PICK step \in {-1, 1} : UseZone(step) \/ UseDevice(step) \/ UseAdapter(step)
  BY DEF Navigate, Move
<1>4. CASE UseZone(step)
  <2>1. selected' = selected
    BY <1>4 DEF UseZone
  <2> QED
    BY <1>1, <1>2, <1>4, <2>1, UseZoneKeeps
<1>5. CASE UseDevice(step)
  BY <1>1, <1>2, <1>5, UseDeviceKeeps
<1>6. CASE UseAdapter(step)
  BY <1>1, <1>2, <1>6, UseAdapterKeeps
<1> QED
  BY <1>3, <1>4, <1>5, <1>6
-----------------------------------------------------------------------------
(***************************************************************************)
(* The forms, and the whole of it.                                         *)
(***************************************************************************)
LEMMA FormRaised ==
  ASSUME NEW kind \in Kinds \ {"pname"}, RaiseForm(kind), FormInv
  PROVE  FormInv'
BY DEF RaiseForm, FormInv, Kinds

LEMMA FormStill ==
  ASSUME FormInv, UNCHANGED <<form, target>>
  PROVE  FormInv'
BY DEF FormInv

LEMMA FormClosed ==
  ASSUME FormInv, Close, target' \in BOOLEAN
  PROVE  FormInv'
BY DEF FormInv, Close, NoForm, None

LEMMA FormNext ==
  ASSUME FormInv, NEW kind \in Kinds, NEW pending, RaiseNext(kind, pending),
         IF kind = "pname" THEN pending \in Int \X Int ELSE pending = <<>>,
         UNCHANGED target
  PROVE  FormInv'
<1>1. form' = [kind |-> kind, asked |-> form.asked, pending |-> pending]
  BY DEF RaiseNext, FormInv
<1> QED
  BY <1>1 DEF FormInv

LEMMA KeyForms ==
  ASSUME FormInv, Key
  PROVE  FormInv'
<1>1. CASE \E kind \in Kinds \ {"pname"} : RaiseForm(kind)
  BY <1>1, FormRaised
<1>2. CASE UNCHANGED <<form, target>>
  BY <1>2, FormStill
<1>3. CASE KeyMakePtable \/ KeyRemovePtable \/ KeyWipeMbr \/ KeyDeletePartition \/ KeyFlags
  BY <1>3, <1>1
     DEF KeyMakePtable, KeyRemovePtable, KeyWipeMbr, KeyDeletePartition, KeyFlags, Kinds
<1>4. CASE KeyNewPartition \/ KeyNewFilesystem \/ KeyKillFilesystem \/ KeyMount
  BY <1>4, <1>1 DEF KeyNewPartition, KeyNewFilesystem, KeyKillFilesystem, KeyMount, Kinds
<1>5. CASE KeyMountTarget \/ KeySetTarget
  BY <1>5, <1>1 DEF KeyMountTarget, KeySetTarget, Kinds
<1>6. CASE KeyUnmount \/ KeyUnmountTarget
  BY <1>6, <1>2 DEF KeyUnmount, KeyUnmountTarget, Straight, Still
<1>7. CASE KeyUnsetTarget
  BY <1>7 DEF KeyUnsetTarget, FormInv
<1>8. CASE KeyBoot
  BY <1>8, <1>2 DEF KeyBoot, screenVars
<1>9. CASE KeyQuit
  BY <1>9, <1>1, <1>2 DEF KeyQuit, screenVars, Kinds
<1> QED
  BY <1>3, <1>4, <1>5, <1>6, <1>7, <1>8, <1>9 DEF Key

LEMMA AnswerForms ==
  ASSUME Standing, Answer
  PROVE  FormInv'
<1>1. CASE Close /\ UNCHANGED target
  <2>1. target' \in BOOLEAN
    BY <1>1 DEF Standing, FormInv
  <2> QED
    BY <1>1, <2>1, FormClosed DEF Standing
<1>2. CASE UNCHANGED <<form, target>>
  BY <1>2, FormStill DEF Standing
<1>3. CASE \E kind \in Kinds \ {"pname"} : Reraise(kind) /\ UNCHANGED target
  BY <1>3, FormNext DEF Reraise, Standing
<1>4. CASE Escape
  BY <1>4, <1>1, <1>2, <1>3 DEF Escape, Dismiss, Back, Kinds
<1>5. CASE PttypeCallback \/ RemovePtableConfirm \/ WipeMbrConfirm \/ KillFilesystemConfirm
  BY <1>5, <1>1
     DEF PttypeCallback, RemovePtableConfirm, WipeMbrConfirm, KillFilesystemConfirm,
         Confirmed, Do, Dismiss
<1>6. CASE FlagsCallback \/ DeletePartitionConfirm \/ MountopCallback \/ MountpointCallback
  BY <1>6, <1>1
     DEF FlagsCallback, DeletePartitionConfirm, MountopCallback, MountpointCallback,
         Confirmed, Do, Dismiss
<1>7. CASE PtypeCallback
  BY <1>7, <1>3 DEF PtypeCallback, Kinds
<1>8. CASE PsectorsCallback
  <2>1. CASE Close /\ UNCHANGED target
    BY <1>1, <2>1
  <2>2. CASE PartitionBase /\ \E s \in Specs(Zone, Size[Sel]) : RaiseNext("pname", s)
    <3>1. PICK s \in Specs(Zone, Size[Sel]) : RaiseNext("pname", s)
      BY <2>2
    <3>2. Sel \in Dev /\ Zone \in Zoned /\ Size[Sel] \in Nat
      BY <2>2, SelectedZone, DisksAssumption DEF PartitionBase, Standing
    <3>3. s \in Int \X Int
      BY <3>2, SpecsFacts
    <3>4. UNCHANGED target /\ "pname" \in Kinds
      BY <1>8 DEF PsectorsCallback, Kinds
    <3> QED
      BY <3>1, <3>3, <3>4, FormNext DEF Standing
  <2> QED
    BY <1>8, <2>1, <2>2 DEF PsectorsCallback, Do, Dismiss
<1>9. CASE PnameCallback \/ FsNamedCallback
  BY <1>9, <1>1 DEF PnameCallback, FsNamedCallback, FsDo, Do, Dismiss
<1>10. CASE FsCallback
  BY <1>10, <1>1, <1>3 DEF FsCallback, FsDo, Do, Dismiss, Kinds
<1>11. CASE TargpointCallback
  BY <1>11, <1>1, <1>3 DEF TargpointCallback, Dismiss, Kinds
<1>12. CASE TargetCallback
  <2>1. Close /\ target' \in BOOLEAN
    BY <1>12 DEF TargetCallback, Dismiss, Standing, FormInv
  <2> QED
    BY <2>1, FormClosed DEF Standing
<1>13. CASE ExitConfirm
  BY <1>13, <1>2 DEF ExitConfirm, screenVars
<1> QED
  BY <1>4, <1>5, <1>6, <1>7, <1>8, <1>9, <1>10, <1>11, <1>12, <1>13 DEF Answer

LEMMA UnderneathForms ==
  ASSUME Standing, Underneath
  PROVE  FormInv'
BY FormStill DEF Standing, Underneath, Still

LEMMA LineMoves ==
  ASSUME VolumesInv, LaidInv, LineNext
  PROVE  DisksLaid /\ Moves
<1> USE LineKeeps
<1>1. CASE Events
  BY <1>1, EventsMove
<1>2. CASE Quit
  BY <1>2, StillMoves DEF Quit, DisksLaid, LaidInv, Stays
<1>3. ASSUME NEW d \in Dev, Blockdev(d) PROVE DisksLaid /\ Moves
  BY <1>3, RescannedMoves, WipePtableMoves, WipeDosmbrMoves, MakePartitionTableMoves DEF Blockdev
<1>4. ASSUME NEW d \in Dev, PartitionCommand(d) PROVE DisksLaid /\ Moves
  <2>1. \A f \in 0 .. Size[d] - 1 : f \in Int
    BY DisksAssumption
  <2> QED
    BY <1>4, <2>1, AddPartitionMoves, WipePartitionMoves DEF PartitionCommand
<1>5. ASSUME NEW d \in Dev, Fs(d) PROVE DisksLaid /\ Moves
  BY <1>5, MakeFilesystemMoves, WipeFilesystemMoves, MountMoves DEF Fs
<1>6. ASSUME NEW d \in Dev, Swap(d) PROVE DisksLaid /\ Moves
  BY <1>6, SwapMoves DEF Swap
<1> QED
  BY <1>1, <1>2, <1>3, <1>4, <1>5, <1>6 DEF LineNext, Command

FullInv == VolumesInv /\ LaidInv /\ LeftInv /\ ScreenInv

LEMMA ScreenStep ==
  ASSUME Standing, VolumesInv', ScreenNext, UNCHANGED front
  PROVE  LaidInv' /\ LeftInv' /\ ScreenInv'
<1>1. CASE Navigate
  <2>1. FormInv' /\ LeftInv'
    BY <1>1, FormStill DEF Navigate, Still, Standing, volumeVars, LeftInv
  <2> QED
    BY <1>1, <2>1, NavigateKeeps DEF ScreenInv
<1>2. CASE Key
  BY <1>2, KeyFollows, FollowedKeeps, KeyForms DEF ScreenInv, Standing
<1>3. CASE Answer
  BY <1>3, AnswerFollows, FollowedKeeps, AnswerForms DEF ScreenInv
<1>4. CASE Underneath
  BY <1>4, UnderneathFollows, FollowedKeeps, UnderneathForms DEF ScreenInv
<1> QED
  BY <1>1, <1>2, <1>3, <1>4 DEF ScreenNext

LEMMA FullStep ==
  ASSUME FullInv, [Next]_vars
  PROVE  FullInv'
<1>1. VolumesInv'
  BY VolumesStep DEF FullInv
<1>2. CASE UNCHANGED vars
  <2>1. UNCHANGED <<disk, rec, unread, bobjs, selected, current, screen, form, target, front>>
    BY <1>2 DEF vars, volumeVars, screenVars
  <2>2. LaidInv' /\ LeftInv'
    BY <2>1 DEF FullInv, LaidInv, LeftInv
  <2>3. front = "screen" => ListsInv' /\ ZonesInv' /\ FormInv'
    BY <2>1, UnmovedKeeps, FormStill DEF FullInv, ScreenInv, Standing, Unmoved
  <2> QED
    BY <1>1, <2>1, <2>2, <2>3 DEF FullInv, ScreenInv
<1>3. CASE front = "line" /\ LineNext /\ UNCHANGED <<screenVars, front>>
  BY <1>1, <1>3, LineMoves, MovesLaid, MovesLeft DEF FullInv, ScreenInv
<1>4. CASE front = "screen" /\ ScreenNext /\ UNCHANGED front
  BY <1>1, <1>4, ScreenStep DEF FullInv, ScreenInv, Standing
<1> QED
  BY <1>2, <1>3, <1>4 DEF Next, Done

LEMMA LaidStart ==
  ASSUME Init
  PROVE  LaidInv /\ LeftInv
<1>1. disk \in Start
  BY DEF Init, VolumesInit
<1>2. \A d \in Dev : Possible(disk[d]) /\ Laid(d, DOMAIN disk[d].parts)
  BY <1>1, StartAssumption
<1>3. PICK scanned \in SUBSET Dev :
        LET records == [d \in Dev |-> IF d \in scanned THEN View(disk[d]) ELSE Gone]
        IN  \E L \in Readings(records, disk) :
              rec = Reparsed(records, disk, L) /\ unread = Lines(disk) \ L
  BY DEF Init, VolumesInit
<1> DEFINE records == [d \in Dev |-> IF d \in scanned THEN View(disk[d]) ELSE Gone]
<1>4. PICK L \in Readings(records, disk) :
        rec = Reparsed(records, disk, L) /\ unread = Lines(disk) \ L
  BY <1>3
<1>5. \A d \in Dev : records[d] \in {View(disk[d]), Gone}
  OBVIOUS
<1> HIDE DEF records
<1>6. ASSUME NEW d \in Dev
      PROVE  /\ Laid(d, DOMAIN disk[d].parts) /\ Laid(d, DOMAIN rec[d].parts)
             /\ rec[d].table \in Tableless => DOMAIN rec[d].parts = {}
  <2> DEFINE found == FoundIn(records, disk, d, L)
             V == {v \in {Whole} \cup DOMAIN disk[d].parts : <<d, v>> \in L}
  <2>1. rec[d] = Mounted(found, disk[d], V)
    BY <1>4 DEF Reparsed
  <2>2. found \in {View(disk[d]), Gone}
    BY <1>5 DEF FoundIn, Discovered
  <2> HIDE DEF found, V
  <2>3. rec[d].table = found.table /\ DOMAIN rec[d].parts = DOMAIN found.parts
    BY <2>1 DEF Mounted
  <2>4. CASE found = View(disk[d])
    <3>1. View(disk[d]).table = disk[d].table /\ DOMAIN View(disk[d]).parts = Kept(disk[d])
      BY <1>2, ViewFacts DEF Alike
    <3>2. disk[d].table = "gone" => DOMAIN disk[d].parts = {}
      BY <1>2, GoneShaped DEF Possible
    <3>3. Kept(disk[d]) \subseteq DOMAIN disk[d].parts
      BY DEF Kept
    <3>4. disk[d].table \in Tableless => Kept(disk[d]) = {}
      BY <3>2, <3>3 DEF Kept, Tableless
    <3> QED
      BY <1>2, <2>3, <2>4, <3>1, <3>3, <3>4, LaidLess
  <2>5. CASE found = Gone
    BY <1>2, <2>3, <2>5, GoneShaped, LaidNone
  <2> QED
    BY <2>2, <2>4, <2>5
<1>7. ASSUME NEW l \in unread PROVE l[1] \in Dev
  <2>1. PICK x \in Dev : l \in MountsOf(x, disk[x])
    BY <1>4 DEF Lines
  <2> QED
    BY <2>1, MountNamed
<1> QED
  BY <1>6, <1>7 DEF LaidInv, LeftInv

LEMMA ScreenStart ==
  ASSUME Init
  PROVE  ListsInv /\ ZonesInv /\ FormInv
<1>1. ScreenInit /\ VolumesInv /\ LaidInv
  BY VolumesStart, LaidStart DEF Init
<1>2. FormInv
  BY <1>1 DEF ScreenInit, FormInv, NoForm, None
<1>3. ZonesInv
  <2>1. screen = [d \in Dev |-> Blockobj(d, 0, rec[d])]
    BY <1>1 DEF ScreenInit
  <2>2. \A d \in Dev : screen[d] = Blockobj(d, 0, rec[d])
    BY <2>1
  <2> QED
    BY <1>1, <2>1, <2>2, AllCharted, Drawn DEF ZonesInv
<1>4. ListsInv
  <2> DEFINE D(a) == {d \in Dev : Home[d] = a /\ Known(d)}
  <2>1. /\ bobjs = [a \in Range(Adapter) |-> SetToSeq(D(a))] /\ current = Adapter[1]
        /\ selected = [a \in Range(Adapter) |->
                         IF a = Adapter[1] /\ bobjs[a] # <<>> THEN bobjs[a][1] ELSE None]
    BY <1>1 DEF ScreenInit
  <2>2. current \in Range(Adapter)
    BY <2>1, ScreenAssumption, RangeAt
  <2>3. ASSUME NEW a \in Range(Adapter)
        PROVE  ListFine(bobjs[a], selected[a], a, OnRecord)
    <3>1. IsFiniteSet(D(a)) /\ D(a) \subseteq Dev
      BY DisksAssumption, FS_Subset
    <3>2. bobjs[a] = SetToSeq(D(a))
      BY <2>1
    <3>3. D(a) = {d \in Dev : Home[d] = a /\ d \in OnRecord}
      BY DEF OnRecord
    <3> HIDE DEF D
    <3>4. /\ bobjs[a] \in Seq(D(a)) /\ Range(bobjs[a]) = D(a)
          /\ \A i, j \in DOMAIN bobjs[a] : bobjs[a][i] = bobjs[a][j] => i = j
      BY <3>1, <3>2, ListOfSet
    <3>5. bobjs[a] \in Seq(Dev)
      BY <3>1, <3>4
    <3>6. selected[a] # None => selected[a] \in Range(bobjs[a]) /\ selected[a] \in Dev
      BY <2>1, <3>5, RangeAt
    <3> QED
      BY <3>3, <3>4, <3>5, <3>6 DEF ListFine
  <2>4. bobjs = [a \in Range(Adapter) |-> bobjs[a]]
    BY <2>1
  <2>5. selected = [a \in Range(Adapter) |-> selected[a]]
    BY <2>1
  <2> QED
    BY <2>2, <2>3, <2>4, <2>5 DEF ListsInv
<1> QED
  BY <1>2, <1>3, <1>4

LEMMA FullInvariant == Spec => []FullInv
<1>1. Init => FullInv
  BY VolumesStart, LaidStart, ScreenStart DEF FullInv, ScreenInv
<1>2. FullInv /\ [Next]_vars => FullInv'
  BY FullStep
<1> QED
  BY <1>1, <1>2, PTL DEF Spec
-----------------------------------------------------------------------------
\* Disks, records, lists, zones and forms are of their types: what is on a disk and
\* on record lies within the disk, no partition over another (add_partition of
\* ptable.c and the rescans), and the zone that is selected is one there is.
THEOREM InterfaceTyped == Spec => []TypeOK
<1>1. ASSUME FullInv PROVE VolumesTypeOK
  BY <1>1 DEF FullInv, VolumesInv, LaidInv, LeftInv, VolumesTypeOK, Good, Apt
<1>2. ASSUME FullInv, front = "screen" PROVE ScreenTypeOK
  <2>1. ListsInv /\ ZonesInv /\ FormInv
    BY <1>2 DEF FullInv, ScreenInv
  <2>2. \A a \in Range(Adapter) : bobjs[a] \in Seq(Dev) /\ selected[a] \in Dev \cup {None}
    BY <2>1 DEF ListsInv, ListFine
  <2>3. \A d \in Dev : screen[d].zone \in 0 .. Len(screen[d].zones)
    BY <2>1 DEF ZonesInv
  <2>4. form.pending # <<>> => form.kind = "pname"
    BY <2>1 DEF FormInv
  <2> QED
    BY <2>1, <2>2, <2>3, <2>4 DEF ScreenTypeOK, FormInv, ListsInv
<1>3. FullInv => TypeOK
  BY <1>1, <1>2 DEF TypeOK
<1> QED
  BY <1>3, FullInvariant, PTL

\* SelectionListed, for any adapters and disks, whatever is plugged in or out while
\* keys move the selection (block_callback, block_free and the keys of notcurses.c).
THEOREM SelectionStaysListed == Spec => []SelectionListed
<1>1. ASSUME FullInv PROVE SelectionListed
  BY <1>1 DEF FullInv, ScreenInv, ListsInv, ListFine, OnRecord, SelectionListed
<1> QED
  BY <1>1, FullInvariant, PTL

\* SelectionKept: block_free hands the selection on to a neighbour, which is there
\* to take it because no two disks go in one step.
THEOREM SelectionStaysKept == Spec => SelectionKept
<1>1. ASSUME FullInv, FullInv', [Next]_vars,
             current' = current, selected[current] # None, bobjs'[current] # <<>>
      PROVE  selected'[current] # None
  <2>1. CASE UNCHANGED screenVars
    BY <1>1, <2>1 DEF screenVars
  <2>2. CASE front = "screen" /\ ScreenNext /\ UNCHANGED front
    <3>1. Standing /\ VolumesInv' /\ ListsInv'
      BY <1>1, <2>2 DEF FullInv, ScreenInv, Standing
    <3>2. CASE Navigate
      BY <1>1, <3>1, <3>2, NavigateKeeps
    <3>3. CASE Followed
      <4>1. CASE Unmoved
        BY <1>1, <4>1 DEF Unmoved
      <4>2. CASE Follow /\ Moves
        BY <1>1, <3>1, <4>2, FollowKeeps DEF Standing
      <4> QED
        BY <3>3, <4>1, <4>2 DEF Followed
    <3> QED
      BY <2>2, <3>1, <3>2, <3>3, KeyFollows, AnswerFollows, UnderneathFollows DEF ScreenNext
  <2> QED
    BY <1>1, <2>1, <2>2 DEF Next, Done, vars
<1>2. FullInv /\ FullInv' /\ [Next]_vars =>
        [current' = current /\ selected[current] # None /\ bobjs'[current] # <<>>
           => selected'[current] # None]_screenVars
  BY <1>1
<1> QED
  BY <1>2, FullInvariant, PTL DEF Spec, SelectionKept

\* ZonesOfRecord: whatever becomes of a disk, a key gets at the partitions on record
\* and no others, one zone is selected, and where no partition begins too early,
\* every sector up to the last is in one zone (update_blockobj of notcurses.c).
THEOREM ZonesAreOfRecord == Spec => []ZonesOfRecord
<1>1. ASSUME FullInv PROVE ZonesOfRecord
  <2>1. ASSUME front = "screen", NEW a \in Range(Adapter), NEW i \in DOMAIN bobjs[a]
        PROVE  LET d == bobjs[a][i]
                   z == screen[d].zones
               IN  /\ Shown(z) = DOMAIN rec[d].parts
                   /\ z # <<>> => screen[d].zone # 0
                   /\ Usable(rec[d]) =>
                        /\ \A s \in 0 .. Size[d] - 2 : z # <<>> =>
                             Cardinality({k \in DOMAIN z : z[k].first <= s /\ s <= z[k].last}) = 1
                        /\ \A k \in DOMAIN z :
                             k > 1 => z[k].first \in {z[k - 1].last, z[k - 1].last + 1}
    <3> DEFINE d == bobjs[a][i]
               z == screen[d].zones
    <3>1. ListsInv /\ ZonesInv /\ VolumesInv /\ LaidInv
      BY <1>1, <2>1 DEF FullInv, ScreenInv
    <3>2. d \in Dev
      <4>1. bobjs[a] \in Seq(Dev)
        BY <3>1 DEF ListsInv, ListFine
      <4> QED
        BY <4>1, RangeAt
    <3> HIDE DEF d
    <3>3. /\ z = ZonesOf(d, rec[d]) /\ Charted(d, rec[d])
          /\ z # <<>> => screen[d].zone # 0
      BY <3>1, <3>2, AllCharted DEF ZonesInv
    <3>4. z \in Seq(Zoned) /\ Shown(z) = DOMAIN rec[d].parts
      BY <3>2, <3>3, ZonesFacts
    <3>5. Usable(rec[d]) /\ z # <<>> => Covered(d, z)
      <4> SUFFICES ASSUME Usable(rec[d]), z # <<>> PROVE Covered(d, z)
        OBVIOUS
      <4>1. \A r : Charted(d, r) /\ Usable(r) /\ ZonesOf(d, r) # <<>> =>
              \/ \E b \in Int : b >= Size[d] /\ Tiles(ZonesOf(d, r), 0, b)
              \/ \E t \in Seq(Zoned) : /\ Tiles(t, 0, Size[d]) /\ t # <<>>
                                       /\ ZonesOf(d, r) = t \o <<Meta(Size[d] - 1, Size[d] - 1)>>
        BY <3>2, ZonesFacts
      <4>2. \/ \E b \in Int : b >= Size[d] /\ Tiles(ZonesOf(d, rec[d]), 0, b)
            \/ \E t \in Seq(Zoned) :
                 /\ Tiles(t, 0, Size[d]) /\ t # <<>>
                 /\ ZonesOf(d, rec[d]) = t \o <<Meta(Size[d] - 1, Size[d] - 1)>>
        BY <3>3, <4>1
      <4> HIDE DEF z
      <4>3. CASE \E b \in Int : b >= Size[d] /\ Tiles(z, 0, b)
        BY <3>2, <3>4, <4>3, TilesCover
      <4>4. CASE \E t \in Seq(Zoned) :
                   /\ Tiles(t, 0, Size[d]) /\ t # <<>>
                   /\ z = t \o <<Meta(Size[d] - 1, Size[d] - 1)>>
        BY <3>2, <4>4, TailCovers
      <4> QED
        BY <3>3, <4>2, <4>3, <4>4
    <3>6. z = <<>> => DOMAIN z = {}
      OBVIOUS
    <3> HIDE DEF z
    <3>7. ASSUME Covered(d, z), NEW s \in 0 .. Size[d] - 2
          PROVE  Cardinality({k \in DOMAIN z : z[k].first <= s /\ s <= z[k].last}) = 1
      BY <3>7, FS_Singleton DEF Covered
    <3>8. Covered(d, z) => \A k \in DOMAIN z :
            k > 1 => z[k].first \in {z[k - 1].last, z[k - 1].last + 1}
      BY DEF Covered
    <3> QED
      BY <3>3, <3>4, <3>5, <3>6, <3>7, <3>8 DEF d, z
  <2> QED
    BY <2>1 DEF ZonesOfRecord, Shown
<1> QED
  BY <1>1, FullInvariant, PTL
=============================================================================
