-------------------------- MODULE GptLayoutProofs --------------------------
(***************************************************************************)
(* The layout of GptLayout is sound on every disk, but for a new table on  *)
(* the least of them, for 512-byte sectors and pages of any size, as long  *)
(* as update_backup stays within its mapping; and where it leaves it.      *)
(***************************************************************************)
EXTENDS GptLayout, TLAPS

\* The sectors every caller asks for, and 128 entries of 128 bytes.
Sectors == LbaSize = 512 /\ TableBytes = 16384

Mappable(n) == ~Outside(n, WriteLbas) /\ ~Outside(n, EditLbas)

\* The numbers of sectors that follow.
LEMMA Lengths ==
  ASSUME Sectors
  PROVE  /\ WriteLbas = 34 /\ EditLbas = 33 /\ EntryLbas = 32
         /\ MinBytes = 67 * 512 /\ LbaSize = 512
         /\ WriteLbas \in Nat /\ EditLbas \in Nat
<1>1. 16384 % 512 = 0 /\ 16384 \div 512 = 32
  OBVIOUS
<1>2. QED
  BY <1>1 DEF Sectors, WriteLbas, EditLbas, EntryLbas, MinBytes, One

\* With pages of 4 KiB, update_backup writes past its mapping exactly on the disks
\* whose sectors leave the remainders 1 and 2 by the eight sectors of a page.
THEOREM MappableDisks ==
  ASSUME Sectors, NEW n \in Nat, n >= 67, PgSize = 4096
  PROVE  Mappable(n) <=> n % 8 \notin {1, 2}
<1>1. BackupSpan(n, 34)[1] = n - 34 /\ BackupSpan(n, 33)[1] = n - 33
  BY DEF BackupSpan
<1>2. /\ MapOff(n, 34) = ((n - 34) * 512) % 4096
      /\ MapOff(n, 33) = ((n - 33) * 512) % 4096
  BY <1>1 DEF Sectors, MapOff
<1>3. ((n - 34) * 512) % 4096 = 512 * ((n - 34) % 8)
  OBVIOUS
<1>4. ((n - 33) * 512) % 4096 = 512 * ((n - 33) % 8)
  OBVIOUS
<1> DEFINE p == (n - 34) % 8
           q == (n - 33) % 8
<1>5. p \in 0 .. 7 /\ q \in 0 .. 7 /\ (p = 0 <=> n % 8 = 2) /\ (q = 0 <=> n % 8 = 1)
  OBVIOUS
<1>6. MapOff(n, 34) = 512 * p /\ MapOff(n, 33) = 512 * q
  BY <1>2, <1>3, <1>4
<1> HIDE DEF p, q
<1>7. Outside(n, 34) <=> p = 0
  <2>1. Outside(n, 34) <=>
          512 * p + 512 * 34 >
            4096 * ((512 * 34 + 512 * p) \div 4096 + (IF 512 * p # 0 THEN 1 ELSE 0))
    BY <1>6 DEF Sectors, Outside, MapSize, One
  <2>2. (512 * 34 + 512 * p) \div 4096 = IF p >= 6 THEN 5 ELSE 4
    BY <1>5
  <2>3. QED
    BY <1>5, <2>1, <2>2
<1>8. Outside(n, 33) <=> q = 0
  <2>1. Outside(n, 33) <=>
          512 * q + 512 * 33 >
            4096 * ((512 * 33 + 512 * q) \div 4096 + (IF 512 * q # 0 THEN 1 ELSE 0))
    BY <1>6 DEF Sectors, Outside, MapSize, One
  <2>2. (512 * 33 + 512 * q) \div 4096 = IF q >= 7 THEN 5 ELSE 4
    BY <1>5
  <2>3. QED
    BY <1>5, <2>1, <2>2
<1>9. QED
  BY <1>5, <1>7, <1>8, Lengths DEF Mappable

-----------------------------------------------------------------------------
\* A write that begins inside a page has the page mapped.
LEMMA PageMissing ==
  ASSUME Sectors, PgSize \in Nat \ {0}, NEW n \in Nat, NEW g \in {33, 34}, Outside(n, g)
  PROVE  MapOff(n, g) = 0
<1> DEFINE off == MapOff(n, g)
           b == LbaSize * g + off
<1>1. off \in Nat
  BY DEF MapOff, BackupSpan, Sectors
<1>2. b \in Nat /\ b < PgSize * (b \div PgSize + 1)
  BY <1>1 DEF Sectors
<1>3. QED
  BY <1>1, <1>2 DEF Outside, MapSize, One, Sectors

\* A table is as write_gpt or the last edit left it.
LEMMA LayoutInductive ==
  ASSUME Sectors
  PROVE  Spec => []LayoutInv
<1>1. Init => LayoutInv
  BY DEF Init, LayoutInv, Zapped, MappedUnlessAligned
<1>2. LayoutInv /\ [Next]_vars => LayoutInv'
  <2> SUFFICES ASSUME LayoutInv, [Next]_vars PROVE LayoutInv'
    OBVIOUS
  <2>1. lbas \in Nat /\ PgSize \in Nat \ {0}
    BY LayoutAssumption DEF LayoutInv
  <2>2. /\ Outside(lbas, WriteLbas) \in BOOLEAN /\ Outside(lbas, EditLbas) \in BOOLEAN
        /\ Outside(lbas, WriteLbas) => MapOff(lbas, WriteLbas) = 0
        /\ Outside(lbas, EditLbas) => MapOff(lbas, EditLbas) = 0
    BY <2>1, PageMissing, Lengths DEF Outside
  <2>3. CASE NewGpt
    BY <2>2, <2>3 DEF LayoutInv, NewGpt, Fresh, MappedUnlessAligned
  <2>4. CASE ZapGpt
    <3>1. gpt.made
      BY <2>4 DEF ZapGpt
    <3>2. wrote # {}
      BY <3>1 DEF LayoutInv, Fresh, Edited, Zapped, NoGpt
    <3>3. QED
      BY <2>2, <2>4, <3>2 DEF LayoutInv, ZapGpt, Zapped, MappedUnlessAligned
  <2>5. CASE EditGpt
    <3>1. gpt.made
      BY <2>5 DEF EditGpt
    <3>2. Fresh \/ Edited
      BY <3>1 DEF LayoutInv, Zapped, NoGpt
    <3>3. wrote # {} /\ gpt.backuplba = lbas - 1
      BY <3>2 DEF Fresh, Edited, HeaderFor
    <3>4. gpt' = [HeaderFor(lbas, WriteLbas)
                    EXCEPT !.backuppart = (lbas - 1) - (EditLbas - 1)]
      BY <2>5, <3>2, <3>3 DEF EditGpt, Fresh, Edited, HeaderFor
    <3>5. QED
      BY <2>2, <2>5, <3>3, <3>4 DEF LayoutInv, EditGpt, Edited, MappedUnlessAligned
  <2>6. CASE Stopped \/ UNCHANGED vars
    BY <2>6 DEF Stopped, vars, LayoutInv, Fresh, Edited, Zapped, MappedUnlessAligned
  <2>7. QED
    BY <2>3, <2>4, <2>5, <2>6 DEF Next
<1>3. QED
  BY <1>1, <1>2, PTL DEF Spec

\* What the invariant says of the disk.
LEMMA LayoutImplies ==
  ASSUME Sectors, LayoutInv
  PROVE  CopiesApart /\ BackupComplete /\ UsableClear
<1>1. lbas \in Nat
  BY LayoutAssumption DEF LayoutInv
<1>2. CASE Zapped
  BY <1>2 DEF Zapped, NoGpt, CopiesApart, BackupComplete, UsableClear
<1>3. CASE Fresh
  <2>1. wrote = {<<0, 1>>, <<lbas - 34, lbas - 1>>}
    BY <1>1, <1>3, Lengths DEF Fresh, BackupSpan
  <2>2. lbas >= 67
    BY <1>1, <2>1, Lengths DEF LayoutInv
  <2>3. /\ gpt.made /\ gpt.partlba = 2 /\ gpt.first = 34
        /\ gpt.backuplba = lbas - 1 /\ gpt.backuppart = lbas - 34
    BY <1>1, <1>3, Lengths DEF Fresh, HeaderFor
  <2>4. PrimaryTable = <<2, 33>> /\ BackupTable = <<lbas - 34, lbas - 3>>
    BY <1>1, <2>3, Lengths DEF PrimaryTable, BackupTable
  <2>5. CopiesApart
    <3>1. lbas * LbaSize = MinBytes <=> lbas = 67
      BY <1>1, Lengths
    <3>2. <<0, 1>> \in wrote
      BY <2>1
    <3>3. Apart(PrimaryTable, BackupTable) <=> lbas # 67
      BY <1>1, <2>2, <2>4 DEF Apart
    <3>4. QED
      BY <1>1, <2>2, <2>3, <2>4, <3>1, <3>2, <3>3 DEF CopiesApart, Within
  <2>6. BackupComplete
    BY <1>1, <2>1, <2>3, <2>4 DEF BackupComplete, Within
  <2>7. UsableClear
    <3>1. <<1, EditLbas>> \notin wrote
      BY <1>1, <2>1, <2>2, Lengths
    <3>2. QED
      BY <2>3, <2>4, <3>1 DEF UsableClear
  <2>8. QED
    BY <2>5, <2>6, <2>7
<1>4. CASE Edited
  <2>1. wrote = {<<1, 33>>, <<lbas - 33, lbas - 1>>}
    BY <1>1, <1>4, Lengths DEF Edited, BackupSpan
  <2>2. lbas >= 67
    BY <1>1, <2>1, Lengths DEF LayoutInv
  <2>3. /\ gpt.made /\ gpt.partlba = 2 /\ gpt.first = 34 /\ gpt.last = lbas - 34
        /\ gpt.backuplba = lbas - 1 /\ gpt.backuppart = lbas - 33
    BY <1>1, <1>4, Lengths DEF Edited, HeaderFor
  <2>4. PrimaryTable = <<2, 33>> /\ BackupTable = <<lbas - 33, lbas - 2>>
    BY <1>1, <2>3, Lengths DEF PrimaryTable, BackupTable
  <2>5. CopiesApart
    <3>1. <<0, 1>> \notin wrote
      BY <1>1, <2>1, <2>2
    <3>2. QED
      BY <1>1, <2>2, <2>3, <2>4, <3>1 DEF CopiesApart, Apart, Within
  <2>6. BackupComplete
    BY <1>1, <2>1, <2>3, <2>4 DEF BackupComplete, Within
  <2>7. UsableClear
    BY <1>1, <2>3, <2>4 DEF UsableClear
  <2>8. QED
    BY <2>5, <2>6, <2>7
<1>5. QED
  BY <1>2, <1>3, <1>4 DEF LayoutInv

\* On every disk the copies of a table are apart, but for a table that has not been
\* edited on the least of them, where they are not.
THEOREM CopiesStayApart == ASSUME Sectors PROVE Spec => []CopiesApart
<1>1. Spec => []LayoutInv
  BY LayoutInductive
<1>2. LayoutInv => CopiesApart
  BY LayoutImplies
<1>3. QED
  BY <1>1, <1>2, PTL

\* On every disk the backup at the end is whole, and where its header says.
THEOREM BackupIsComplete == ASSUME Sectors PROVE Spec => []BackupComplete
<1>1. Spec => []LayoutInv
  BY LayoutInductive
<1>2. LayoutInv => BackupComplete
  BY LayoutImplies
<1>3. QED
  BY <1>1, <1>2, PTL

\* On every disk the header of a table says of no sector of it that it is usable, once
\* it has been edited.
THEOREM UsableIsClear == ASSUME Sectors PROVE Spec => []UsableClear
<1>1. Spec => []LayoutInv
  BY LayoutInductive
<1>2. LayoutInv => UsableClear
  BY LayoutImplies
<1>3. QED
  BY <1>1, <1>2, PTL

\* On every disk, update_backup leaves its mapping only where the backup begins on
\* a page.
THEOREM MappingSuffices == ASSUME Sectors PROVE Spec => []MappedUnlessAligned
<1>1. Spec => []LayoutInv
  BY LayoutInductive
<1>2. LayoutInv => MappedUnlessAligned
  BY DEF LayoutInv
<1>3. QED
  BY <1>1, <1>2, PTL

\* On every disk, no operation writes a sector the disk does not have.
THEOREM WritesStayOnDisk == ASSUME Sectors PROVE Spec => []TypeOK
<1>1. Spec => []LayoutInv
  BY LayoutInductive
<1>2. ASSUME LayoutInv PROVE TypeOK
  <2>1. lbas \in Nat
    BY <1>2, LayoutAssumption DEF LayoutInv
  <2>2. wrote # {} => lbas >= 67
    BY <1>2, <2>1, Lengths DEF LayoutInv
  <2>3. gpt.made \in BOOLEAN
    <3>1. CASE Zapped
      BY <3>1 DEF Zapped, NoGpt
    <3>2. CASE Fresh \/ Edited
      <4>1. gpt.made = TRUE
        BY <3>2 DEF Fresh, Edited, HeaderFor
      <4>2. QED
        BY <4>1
    <3>3. QED
      BY <1>2, <3>1, <3>2 DEF LayoutInv
  <2>4. wrote = {} \/ \E a \in {0, 1}, b \in {1, 33, 34}, g \in {33, 34} :
          wrote = {<<a, b>>, <<lbas - g, lbas - 1>>} /\ a <= b
    BY <1>2, <2>1, Lengths DEF LayoutInv, Fresh, Edited, Zapped, BackupSpan
  <2>5. ASSUME NEW s \in wrote PROVE s[1] \in Nat /\ s[2] \in s[1] .. lbas - 1
    <3>1. wrote # {} /\ lbas >= 67
      BY <2>2, <2>5
    <3>2. PICK a \in {0, 1}, b \in {1, 33, 34}, g \in {33, 34} :
            wrote = {<<a, b>>, <<lbas - g, lbas - 1>>} /\ a <= b
      BY <2>4, <3>1
    <3>3. CASE s = <<a, b>>
      BY <2>1, <3>1, <3>2, <3>3
    <3>4. CASE s = <<lbas - g, lbas - 1>>
      BY <2>1, <3>1, <3>2, <3>4
    <3>5. QED
      BY <2>5, <3>2, <3>3, <3>4
  <2>6. QED
    BY <1>2, <2>3, <2>5 DEF TypeOK, LayoutInv
<1>3. QED
  BY <1>1, <1>2, PTL
=============================================================================
