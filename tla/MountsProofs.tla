---------------------------- MODULE MountsProofs ----------------------------
(***************************************************************************)
(* For any devices, paths and mounts, however many: growlight's lists and  *)
(* its target's descriptor follow the kernel's mounts, and an fstab it     *)
(* writes has a line for the root.                                         *)
(***************************************************************************)
EXTENDS Mounts, ListProofs

\* Reading the mounts again makes the lists the kernel's, but for the lines whose
\* device was not found, and opens the target.
LEMMA ReparseLists ==
  ASSUME Reparse, target \in Path \cup {None}, UNCHANGED <<mounts, target>>
  PROVE  Listed' /\ Rooted' /\ (targfd' # Closed => target' # None /\ targfd' = Resolve(target)')
<1>1. PICK skipped \in SUBSET Skippable : \E failed \in Failures(Readable \ skipped) :
        /\ known' = Parsed(Readable \ (skipped \cup failed))
        /\ targfd' = Opened
        /\ Heard(Readable \ skipped, failed)
  BY Zenon DEF Reparse
<1>2. PICK failed \in Failures(Readable \ skipped) :
        /\ known' = Parsed(Readable \ (skipped \cup failed))
        /\ targfd' = Opened
        /\ Heard(Readable \ skipped, failed)
  BY <1>1, Zenon
<1>3. Readable' = Readable /\ \A i : Hidden(i)' = Hidden(i)
  BY DEF Readable, Hidden
<1>4. Resolve(target)' = Resolve(target)
  BY DEF Resolve, OnWay
<1>5. Listed'
  <2> SUFFICES ASSUME NEW d \in Dev
               PROVE  /\ \A p \in Parsed({i \in Readable : ~Hidden(i)})'[d] :
                           p \in known'[d] \/ <<d, p>> \in unlisted'
                      /\ known'[d] \subseteq Parsed(Readable)'[d]
    BY DEF Listed
  <2>1. known'[d] =
          {mounts[i].path : i \in {j \in Readable \ (skipped \cup failed) : mounts[j].dev = d}}
    BY <1>2 DEF Parsed
  <2>2. \A i \in skipped : Hidden(i)
    BY DEF Skippable
  <2>3. Parsed({i \in Readable : ~Hidden(i)})'[d] =
          {mounts[i].path : i \in {j \in {i \in Readable : ~Hidden(i)} : mounts[j].dev = d}}
    BY <1>3 DEF Parsed
  <2>4. Parsed(Readable)'[d] = {mounts[i].path : i \in {j \in Readable : mounts[j].dev = d}}
    BY <1>3 DEF Parsed
  <2>5. \A i \in failed : <<mounts[i].dev, mounts[i].path>> \in unlisted'
    BY <1>2 DEF Heard
  <2>6. ASSUME NEW p \in Parsed({i \in Readable : ~Hidden(i)})'[d]
        PROVE  p \in known'[d] \/ <<d, p>> \in unlisted'
    <3>1. PICK i \in Readable : ~Hidden(i) /\ mounts[i].dev = d /\ p = mounts[i].path
      BY <2>3, <2>6
    <3>2. CASE i \in failed
      BY <2>5, <3>1, <3>2
    <3>3. CASE i \notin failed
      BY <2>1, <2>2, <3>1, <3>3
    <3>4. QED
      BY <3>2, <3>3
  <2>7. QED
    BY <2>1, <2>4, <2>6
<1>6. QED
  BY <1>2, <1>4, <1>5 DEF Opened, Rooted

\* What does not touch the mounts, the lists and the descriptor leaves them right.
LEMMA Untouched ==
  ASSUME MountsInv, UNCHANGED <<mounts, known, unlisted, target>>, targfd' \in {targfd, Closed},
         Quiet' => Quiet
  PROVE  MountsInv'
<1>1. Readable' = Readable /\ (\A i : Hidden(i)' = Hidden(i)) /\ Resolve(target)' = Resolve(target)
  BY DEF Readable, Hidden, Resolve, OnWay
<1>2. Listed' <=> Listed
  BY <1>1 DEF Listed, Parsed
<1>3. QED
  BY <1>1, <1>2 DEF MountsInv, Current, TargetHere, Rooted

\* A change of the mounts is announced, or missed.
LEMMA Changed ==
  ASSUME MountsInv, phase \in {"gap", "up"}, Notify, UNCHANGED <<known, unlisted, phase, taken, target>>,
         targfd' \in {targfd, Closed}
  PROVE  MountsInv'
<1>1. ~Quiet'
  BY DEF Notify, Quiet
<1>2. QED
  BY <1>1 DEF MountsInv, Current, TargetHere, Rooted

\* The same before growlight_init has read them, and after it has given up.
LEMMA ChangedUnseen ==
  ASSUME MountsInv, phase \notin {"gap", "up"}, UNCHANGED <<known, unlisted, phase, target, targfd>>
  PROVE  MountsInv'
BY DEF MountsInv, Current, TargetHere, Rooted, Quiet

\* A scan that fails: what its disk's lists lose is unlisted.
LEMMA ScanFailed ==
  ASSUME MountsInv, NEW disk \in Disks, RescanFails(disk)
  PROVE  MountsInv'
<1>1. UNCHANGED <<mounts, target, targfd>> /\ Quiet' = Quiet
  BY DEF RescanFails, kernelVars, targetVars, Quiet
<1>2. /\ Readable' = Readable /\ (\A i : Hidden(i)' = Hidden(i))
      /\ Resolve(target)' = Resolve(target) /\ \A I : Parsed(I)' = Parsed(I)
  BY <1>1 DEF Readable, Hidden, Resolve, OnWay, Parsed
<1>3. ASSUME NEW d \in Dev
      PROVE  /\ known'[d] = IF d \in disk THEN {} ELSE known[d]
             /\ \A p \in known[d] : p \in known'[d] \/ <<d, p>> \in unlisted'
             /\ \A p : <<d, p>> \in unlisted => <<d, p>> \in unlisted'
  <2>1. /\ known' = [c \in Dev |-> IF c \in disk THEN {} ELSE known[c]]
        /\ unlisted' = unlisted \cup UNION {{c} \X known[c] : c \in disk}
    BY DEF RescanFails
  <2>2. ASSUME d \in disk, NEW p \in known[d]
        PROVE  <<d, p>> \in unlisted'
    <3>1. <<d, p>> \in {d} \X known[d]
      BY <2>2
    <3>2. QED
      BY <2>1, <2>2, <3>1
  <2>3. QED
    BY <2>1, <2>2
<1>4. Listed => Listed'
  BY <1>2, <1>3 DEF Listed
<1>5. QED
  BY <1>1, <1>2, <1>3, <1>4 DEF MountsInv, Current, TargetHere, Rooted

\* Each step keeps the invariant.
LEMMA MountsStep ==
  ASSUME MountsInv, [Next]_vars PROVE MountsInv'
<1>1. ASSUME NEW s \in Source, NEW p \in Path, OthersMount(s, p) PROVE MountsInv'
  BY <1>1, Changed, ChangedUnseen DEF OthersMount, Attach, listVars, targetVars
<1>2. ASSUME NEW p \in Path, OthersUnmount(p) PROVE MountsInv'
  BY <1>2, Changed, ChangedUnseen DEF OthersUnmount, listVars, targetVars
<1>3. ASSUME NEW d \in Dev, NEW p \in Path, Mmount(d, p) PROVE MountsInv'
  BY <1>3, Changed DEF Mmount, Attach, listVars, targetVars
<1>4. ASSUME NEW d \in Dev, Unmount(d) PROVE MountsInv'
  <2>1. PICK done \in SUBSET known[d], failed \in SUBSET known[d] :
          /\ targfd' = IF target \in done \cup failed THEN Closed ELSE targfd
          /\ IF done = {} THEN UNCHANGED kernelVars
             ELSE mounts' = Without({Top(p) : p \in done}) /\ Notify
    BY <1>4 DEF Unmount
  <2>2. UNCHANGED <<known, unlisted, phase, taken, target>> /\ phase = "up"
    BY <1>4 DEF Unmount, listVars
  <2>3. CASE done = {}
    BY <2>1, <2>2, <2>3, Untouched DEF kernelVars, Quiet
  <2>4. CASE done # {}
    BY <2>1, <2>2, <2>4, Changed
  <2>5. QED
    BY <2>3, <2>4
<1>5. CASE Start \/ EventReparse \/ RescanReparse
  <2>1. UNCHANGED <<mounts, target>> /\ Reparse
    BY <1>5 DEF Start, EventReparse, RescanReparse, kernelVars
  <2>2. target \in Path \cup {None}
    BY DEF MountsInv
  <2>3. QED
    BY <2>1, <2>2, ReparseLists DEF MountsInv, Current, TargetHere
<1>6. CASE EventThread \/ MountsEvent \/ Stopped \/ FinalizeTarget \/ UNCHANGED vars
  <2>1. UNCHANGED <<mounts, known, unlisted, target, targfd>> /\ (Quiet' => Quiet)
    BY <1>6 DEF EventThread, MountsEvent, Stopped, FinalizeTarget, vars, listVars,
                targetVars, kernelVars, Quiet
  <2>2. QED
    BY <2>1, Untouched
<1>7. ASSUME NEW p \in Path, SetTarget(p) PROVE MountsInv'
  <2>1. targfd = Closed /\ targfd' = Closed /\ target' = p
    BY <1>7 DEF SetTarget, MountsInv, TargetHere
  <2>2. UNCHANGED <<mounts, known, unlisted>> /\ (Quiet' => Quiet)
    BY <1>7 DEF SetTarget, listVars, kernelVars, Quiet
  <2>3. Listed' <=> Listed
    BY <2>2 DEF Listed, Parsed, Readable, Hidden
  <2>4. QED
    BY <2>1, <2>2, <2>3 DEF MountsInv, Current, TargetHere, Rooted
<1>8. CASE UnsetTarget
  <2>1. targfd' = Closed /\ target' = None
    BY <1>8 DEF UnsetTarget
  <2>2. UNCHANGED <<mounts, known, unlisted>> /\ (Quiet' => Quiet)
    BY <1>8 DEF UnsetTarget, listVars, kernelVars, Quiet
  <2>3. Listed' <=> Listed
    BY <2>2 DEF Listed, Parsed, Readable, Hidden
  <2>4. QED
    BY <2>1, <2>2, <2>3 DEF MountsInv, Current, TargetHere, Rooted
<1>9. ASSUME NEW disk \in Disks, RescanFails(disk) PROVE MountsInv'
  BY <1>9, ScanFailed
<1>10. ASSUME NEW disk \in Disks, Discover(disk) PROVE MountsInv'
  <2>1. UNCHANGED <<mounts, known, unlisted, target, targfd>> /\ (Quiet' => Quiet)
    BY <1>10 DEF Discover, kernelVars, targetVars, Quiet
  <2>2. QED
    BY <2>1, Untouched
<1>11. QED
  BY <1>1, <1>2, <1>3, <1>4, <1>5, <1>6, <1>7, <1>8, <1>9, <1>10 DEF Next

\* The invariant holds of every behaviour.
LEMMA MountsInductive == Spec => []MountsInv
<1>1. Init => MountsInv
  BY DEF Init, MountsInv, Current, Quiet, TargetHere, Rooted
<1>2. QED
  BY <1>1, MountsStep, PTL DEF Spec

\* Once the event thread is through, the lists are the kernel's mounts.
THEOREM ListsAreCurrent == Spec => []Current
<1>1. MountsInv => Current
  BY DEF MountsInv
<1>2. QED
  BY <1>1, MountsInductive, PTL

\* And the target's descriptor, if open, is open where the target's path leads.
THEOREM TargetIsHere == Spec => []TargetHere
<1>1. MountsInv => TargetHere
  BY DEF MountsInv
<1>2. QED
  BY <1>1, MountsInductive, PTL

\* No fstab is written without a line for the root, but where the root is on a
\* removable disk, or was dropped with a disk whose scan failed.
THEOREM RootAlwaysWritten == Spec => RootWritten
<1>1. ASSUME MountsInv, [Next]_vars, wrote' # wrote
      PROVE  \E d \in Dev :
               \/ <<d, target>> \in wrote'.lines
               \/ d \in Removable /\ target \in known[d]
               \/ <<d, target>> \in unlisted
  <2>1. FinalizeTarget
    BY <1>1 DEF Next, vars, targetVars, OthersMount, OthersUnmount, SetTarget, Start,
                EventThread, MountsEvent, EventReparse, RescanReparse, RescanFails, Discover,
                Unmount, Mmount, UnsetTarget, Stopped
  <2>2. PICK d \in Dev : target \in known[d] \/ <<d, target>> \in unlisted
    BY <1>1, <2>1 DEF FinalizeTarget, MountsInv, Rooted
  <2>3. target \in Path /\ <<target, target>> \in Prefixed
    BY <1>1, <2>1, MountsAssumption DEF FinalizeTarget, MountsInv
  <2>4. d \notin Removable /\ target \in known[d] => <<d, target>> \in Lines
    BY <2>3 DEF Lines
  <2>5. QED
    BY <2>1, <2>2, <2>4 DEF FinalizeTarget
<1>2. QED
  BY <1>1, MountsInductive, PTL DEF Spec, RootWritten

-----------------------------------------------------------------------------
(***************************************************************************)
(* Types, and the sequences of mounts they are about.                      *)
(***************************************************************************)
\* What is left when mounts are gone are mounts that there were.
LEMMA WithoutType ==
  ASSUME NEW M, mounts \in Seq(M), NEW I
  PROVE  Without(I) \in Seq(M)
BY RemainsFacts DEF Without

LEMMA SequenceOf ==
  ASSUME NEW M, NEW s \in Seq(M), NEW i \in 1 .. Len(s)
  PROVE  s[i] \in M
  OBVIOUS

LEMMA OneMount ==
  ASSUME NEW M, NEW m \in M
  PROVE  <<m>> \in Seq(M)
  OBVIOUS

LEMMA EachMount ==
  ASSUME TypeOK, NEW i \in DOMAIN mounts
  PROVE  mounts[i].dev \in Source /\ mounts[i].path \in Path
<1>1. mounts \in Seq([dev : Source, path : Path]) /\ i \in 1 .. Len(mounts)
  BY DEF TypeOK
<1>2. mounts[i] \in [dev : Source, path : Path]
  BY <1>1, SequenceOf, Zenon
<1>3. QED
  BY <1>2

\* A path leads to a file system that is mounted, or to the root's.
LEMMA ResolveType ==
  ASSUME TypeOK, NEW p
  PROVE  Resolve(p) \in Source \cup {Host}
<1>1. Len(mounts) \in Nat /\ DOMAIN mounts = 1 .. Len(mounts)
  BY DEF TypeOK
<1>2. OnWay(p) \subseteq 0 .. Len(mounts) /\ OnWay(p) \subseteq DOMAIN mounts
  BY <1>1 DEF OnWay
<1>3. CASE OnWay(p) = {}
  BY <1>3 DEF Resolve
<1>4. CASE OnWay(p) # {}
  <2>1. Max(OnWay(p)) \in DOMAIN mounts
    BY <1>1, <1>2, <1>4, MaxIsMember
  <2>2. mounts[Max(OnWay(p))].dev \in Source
    BY <2>1, EachMount
  <2>3. QED
    BY <1>4, <2>2 DEF Resolve
<1>5. QED
  BY <1>3, <1>4

LEMMA ReparseType ==
  ASSUME TypeOK, Reparse, UNCHANGED target
  PROVE  /\ known' \in [Dev -> SUBSET Path] /\ targfd' \in Source \cup {Closed, Host}
         /\ lost' \subseteq Dev /\ unlisted' \subseteq Source \X Path
<1>1. PICK skipped \in SUBSET Skippable : \E failed \in Failures(Readable \ skipped) :
        /\ known' = Parsed(Readable \ (skipped \cup failed))
        /\ targfd' = Opened
        /\ Heard(Readable \ skipped, failed)
  BY Zenon DEF Reparse
<1>2. PICK failed \in Failures(Readable \ skipped) :
        /\ known' = Parsed(Readable \ (skipped \cup failed))
        /\ targfd' = Opened
        /\ Heard(Readable \ skipped, failed)
  BY <1>1, Zenon
<1>3. \A i \in Readable : mounts[i].dev \in Source /\ mounts[i].path \in Path
  BY EachMount DEF Readable
<1>4. known' \in [Dev -> SUBSET Path]
  BY <1>2, <1>3 DEF Parsed
<1>5. Opened \in Source \cup {Closed, Host}
  BY ResolveType DEF Opened
<1>6. failed \subseteq Readable
  BY DEF Failures
<1>7. lost' \subseteq Dev /\ unlisted' \subseteq Source \X Path
  BY <1>2, <1>3, <1>6 DEF Heard, TypeOK
<1>8. QED
  BY <1>2, <1>4, <1>5, <1>7

LEMMA NotifyType ==
  ASSUME TypeOK, Notify
  PROVE  raised' \in BOOLEAN /\ missed' \in BOOLEAN
  BY DEF TypeOK, Notify

LEMMA AttachType ==
  ASSUME TypeOK, NEW s \in Source, NEW p \in Path, Attach(s, p)
  PROVE  mounts' \in Seq([dev : Source, path : Path]) /\ raised' \in BOOLEAN /\ missed' \in BOOLEAN
<1>1. [dev |-> s, path |-> p] \in [dev : Source, path : Path]
  OBVIOUS
<1>2. mounts' = Append(mounts, [dev |-> s, path |-> p]) /\ Notify
  BY DEF Attach
<1>3. QED
  BY <1>1, <1>2, NotifyType DEF TypeOK

LEMMA TypeStep ==
  ASSUME TypeOK, [Next]_vars PROVE TypeOK'
<1>1. ASSUME NEW s \in Source, NEW p \in Path, OthersMount(s, p) PROVE TypeOK'
  BY <1>1, AttachType DEF OthersMount, listVars, targetVars, TypeOK
<1>2. ASSUME NEW p \in Path, OthersUnmount(p) PROVE TypeOK'
  BY <1>2, NotifyType, WithoutType DEF OthersUnmount, listVars, targetVars, TypeOK
<1>3. ASSUME NEW d \in Dev, NEW p \in Path, Mmount(d, p) PROVE TypeOK'
  BY <1>3, AttachType DEF Mmount, listVars, targetVars, TypeOK, Source
<1>4. ASSUME NEW d \in Dev, Unmount(d) PROVE TypeOK'
  <2>1. PICK done \in SUBSET known[d], failed \in SUBSET known[d] :
          /\ targfd' = IF target \in done \cup failed THEN Closed ELSE targfd
          /\ IF done = {} THEN UNCHANGED kernelVars
             ELSE mounts' = Without({Top(p) : p \in done}) /\ Notify
    BY <1>4 DEF Unmount
  <2>2. targfd' \in Source \cup {Closed, Host}
    BY <2>1 DEF TypeOK
  <2>3. /\ mounts' \in Seq([dev : Source, path : Path])
        /\ raised' \in BOOLEAN /\ missed' \in BOOLEAN
    <3>1. CASE done = {}
      BY <2>1, <3>1 DEF kernelVars, TypeOK
    <3>2. CASE done # {}
      <4>1. mounts' = Without({Top(p) : p \in done}) /\ Notify
        BY <2>1, <3>2
      <4>2. QED
        BY <4>1, NotifyType, WithoutType DEF TypeOK
    <3>3. QED
      BY <3>1, <3>2
  <2>4. UNCHANGED <<known, lost, unlisted, phase, taken, target, wrote>>
    BY <1>4 DEF Unmount, listVars
  <2>5. QED
    BY <2>2, <2>3, <2>4 DEF TypeOK
<1>5. CASE Start \/ EventReparse \/ RescanReparse
  <2>1. UNCHANGED <<mounts, target, wrote>> /\ Reparse
    BY <1>5 DEF Start, EventReparse, RescanReparse, kernelVars
  <2>2. /\ known' \in [Dev -> SUBSET Path] /\ targfd' \in Source \cup {Closed, Host}
        /\ lost' \subseteq Dev /\ unlisted' \subseteq Source \X Path
    BY <2>1, ReparseType
  <2>3. /\ phase' \in {"init", "gap", "up", "down"}
        /\ raised' \in BOOLEAN /\ taken' \in BOOLEAN /\ missed' \in BOOLEAN
    BY <1>5 DEF Start, EventReparse, RescanReparse, kernelVars, TypeOK
  <2>4. QED
    BY <2>1, <2>2, <2>3 DEF TypeOK
<1>6. CASE EventThread \/ MountsEvent \/ Stopped \/ UNCHANGED vars
  BY <1>6 DEF EventThread, MountsEvent, Stopped, vars, listVars, targetVars, TypeOK
<1>7. CASE FinalizeTarget
  <2>1. targfd \in Source \cup {None, Host}
    BY <1>7 DEF FinalizeTarget, TypeOK
  <2>2. wrote'.on = targfd /\ wrote'.lines = Lines /\ Lines \subseteq Dev \X Path
    BY <1>7 DEF FinalizeTarget, Lines
  <2>3. UNCHANGED <<mounts, raised, missed, listVars, phase, taken, target, targfd>>
    BY <1>7 DEF FinalizeTarget, kernelVars
  <2>4. QED
    BY <2>1, <2>2, <2>3 DEF listVars, TypeOK
<1>8. ASSUME NEW p \in Path, SetTarget(p) PROVE TypeOK'
  BY <1>8 DEF SetTarget, listVars, kernelVars, TypeOK
<1>9. CASE UnsetTarget
  BY <1>9 DEF UnsetTarget, listVars, kernelVars, TypeOK
<1>10. ASSUME NEW disk \in Disks, RescanFails(disk) PROVE TypeOK'
  <2>1. disk \subseteq Dev
    BY MountsAssumption
  <2>2. /\ known' = [d \in Dev |-> IF d \in disk THEN {} ELSE known[d]]
        /\ lost' = lost \cup disk
        /\ unlisted' = unlisted \cup UNION {{d} \X known[d] : d \in disk}
        /\ UNCHANGED <<mounts, raised, missed, phase, taken, target, targfd, wrote>>
    BY <1>10 DEF RescanFails, kernelVars, targetVars
  <2>3. known' \in [Dev -> SUBSET Path] /\ lost' \subseteq Dev
    BY <2>1, <2>2 DEF TypeOK
  <2>4. \A d \in disk : {d} \X known[d] \subseteq Source \X Path
    BY <2>1 DEF Source, TypeOK
  <2>5. unlisted' \subseteq Source \X Path
    BY <2>2, <2>4 DEF TypeOK
  <2>6. QED
    BY <2>2, <2>3, <2>5 DEF TypeOK
<1>11. ASSUME NEW disk \in Disks, Discover(disk) PROVE TypeOK'
  BY <1>11 DEF Discover, kernelVars, targetVars, TypeOK
<1>12. QED
  BY <1>1, <1>2, <1>3, <1>4, <1>5, <1>6, <1>7, <1>8, <1>9, <1>10, <1>11 DEF Next

\* Always: the mounts, the lists and the target keep their types; what the
\* target's descriptor is open on is a device or the root's file system.
THEOREM MountsTyped == Spec => []TypeOK
<1>1. Init => TypeOK
  <2> SUFFICES ASSUME Init PROVE TypeOK
    OBVIOUS
  <2>1. mounts \in Seq([dev : Source, path : Path])
    <3>1. CASE mounts = <<>>
      BY <3>1
    <3>2. ASSUME NEW d \in Dev, NEW p \in Path, mounts = <<[dev |-> d, path |-> p]>>
          PROVE  mounts \in Seq([dev : Source, path : Path])
      <4>1. [dev |-> d, path |-> p] \in [dev : Source, path : Path]
        BY DEF Source
      <4>2. <<[dev |-> d, path |-> p]>> \in Seq([dev : Source, path : Path])
        BY <4>1, OneMount, Zenon
      <4>3. QED
        BY <3>2, <4>2, Zenon
    <3>3. mounts = <<>> \/ \E d \in Dev, p \in Path : mounts = <<[dev |-> d, path |-> p]>>
      <4> DEFINE One(d, p) == <<[dev |-> d, path |-> p]>>
      <4>1. mounts \in {<<>>} \cup {One(d, p) : d \in Dev, p \in Path}
        BY DEF Init, One
      <4> HIDE DEF One
      <4>2. mounts = <<>> \/ \E d \in Dev, p \in Path : mounts = One(d, p)
        BY <4>1
      <4>3. QED
        BY <4>2, Zenon DEF One
    <3>4. QED
      BY <3>1, <3>2, <3>3, Zenon
  <2>2. wrote.on = None /\ wrote.lines = {}
    BY DEF Init
  <2>3. QED
    BY <2>1, <2>2 DEF Init, TypeOK
<1>2. QED
  BY <1>1, TypeStep, PTL DEF Spec
=============================================================================
