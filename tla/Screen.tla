------------------------------- MODULE Screen -------------------------------
(***************************************************************************)
(* The full-screen interface (notcurses.c): an adapter's list of disks and *)
(* the disk selected on it, each disk's zones and the zone selected, and   *)
(* the modal form that takes the keys while it is up.  What a form asks is *)
(* done, when it is answered, to what is selected then; meanwhile the      *)
(* event thread calls block_callback and block_free.                       *)
(*                                                                         *)
(* A key is handled with both locks held, the callback of the form it      *)
(* answers included.                                                       *)
(***************************************************************************)
EXTENDS Volumes

CONSTANTS
  Adapter,  \* in the order of the reel
  Home      \* the adapter of each disk

VARIABLES
  bobjs,     \* the disks of each adapter, in the order they are drawn
  selected,  \* the disk selected on each
  current,   \* the adapter in focus
  screen,    \* the zones of each disk and the number of the one selected
  form,      \* the form that is up, the disk and volume selected when it was raised, and
             \* pending_fsect with pending_lsect
  target     \* growlight_target is set

screenVars == <<bobjs, selected, current, screen, form, target>>

None == "none"

ASSUME ScreenAssumption ==
  /\ Adapter \in Seq(Range(Adapter)) \ {<<>>}
  /\ None \notin Dev

NoSubject == [dev |-> None, volume |-> Whole]
NoForm == [kind |-> None, asked |-> NoSubject, pending |-> <<>>]
Kinds == {"pttype", "rmtable", "mbr", "ptype", "pspec", "pname", "delete", "flags", "fstype",
          "fsname", "wipefs", "mountpoint", "target", "targpoint", "mountops", "exit"}

ScreenInit ==
  /\ bobjs = [a \in Range(Adapter) |-> SetToSeq({d \in Dev : Home[d] = a /\ Known(d)})]
  /\ selected = [a \in Range(Adapter) |->
                   IF a = Adapter[1] /\ bobjs[a] # <<>> THEN bobjs[a][1] ELSE None]
  /\ current = Adapter[1]
  /\ screen = [d \in Dev |-> Blockobj(d, 0, rec[d])]
  /\ form = NoForm
  /\ target = FALSE

-----------------------------------------------------------------------------
(***************************************************************************)
(* What is selected.                                                       *)
(***************************************************************************)
Sel == selected[current]
Selected == phase = "up" /\ Sel # None
Zone == screen[Sel].zones[screen[Sel].zone]
Loaded == rec[Sel].table # "unloaded"
Unpartitioned == screen[Sel].zone = 0
OnEmpty == ~Unpartitioned /\ Zone.kind # "partition"
OnPartition == ~Unpartitioned /\ Zone.kind = "partition"
Volume == IF Unpartitioned THEN Whole ELSE <<Zone.first, Zone.last>>
FsUse == UseOf(rec[Sel], Volume)

Subject ==
  IF Sel = None THEN NoSubject ELSE [dev |-> Sel, volume |-> Volume]

(***************************************************************************)
(* The screen follows the record.  block_callback brings the zones up to   *)
(* date and appends a new disk to the list; it selects the only disk of    *)
(* the adapter in focus, if none is selected.  block_free takes the disk   *)
(* off the list and selects the one before it, or the one after.           *)
(***************************************************************************)
IndexIn(s, d) == CHOOSE i \in DOMAIN s : s[i] = d

\* Mutant: the disk after is not looked at.
NeighbourBefore(s, d) == LET i == IndexIn(s, d) IN IF i > 1 THEN s[i - 1] ELSE None

\* Mutant: the first of the list has itself for a neighbour.
NeighbourFirst(s, d) == LET i == IndexIn(s, d) IN IF i > 1 THEN s[i - 1] ELSE s[1]

Neighbour(s, d) ==
  LET i == IndexIn(s, d) IN
  IF i > 1 THEN s[i - 1] ELSE IF Len(s) > 1 THEN s[2] ELSE None

Listed(a) ==
  Remains(bobjs[a], {i \in DOMAIN bobjs[a] : rec'[bobjs[a][i]].table # "gone"})
    \o SetToSeq({d \in Dev : Home[d] = a /\ ~Known(d) /\ rec'[d].table # "gone"})

Redraw ==
  screen' = [d \in Dev |-> Blockobj(d, IF Known(d) THEN screen[d].zone ELSE 0, rec'[d])]

Follow ==
  /\ Redraw
  /\ bobjs' = [a \in Range(Adapter) |-> Listed(a)]
  /\ \E called \in BOOLEAN : selected' = [a \in Range(Adapter) |->
       LET s == selected[a]
           left == IF s = None \/ rec'[s].table # "gone" THEN s ELSE Neighbour(bobjs[a], s)
       IN  IF left = None /\ a = current /\ Len(Listed(a)) = 1
              /\ (called \/ rec'[Listed(a)[1]] # rec[Listed(a)[1]])
           THEN Listed(a)[1] ELSE left]
  /\ UNCHANGED current

-----------------------------------------------------------------------------
(***************************************************************************)
(* Keys that move the selection.                                           *)
(***************************************************************************)
Still == UNCHANGED <<form, target>>
Idle == form.kind = None

UseZone(step) ==
  /\ Selected /\ ~Unpartitioned
  /\ LET n == Len(screen[Sel].zones) IN
     screen' = [screen EXCEPT ![Sel].zone = ((@ - 1 + step + n) % n) + 1]
  /\ UNCHANGED <<bobjs, selected, current>>

UseDevice(step) ==
  /\ Selected
  /\ LET s == bobjs[current]
         i == IndexIn(s, Sel) + step
     IN  i \in DOMAIN s /\ selected' = [selected EXCEPT ![current] = s[i]]
  /\ UNCHANGED <<bobjs, current, screen>>

\* select_adapter leaves a selection alone.
SelectAdapter(a) == IF selected[a] = None /\ bobjs[a] # <<>> THEN bobjs[a][1] ELSE selected[a]

\* PageDown gives up the selection of the adapter it leaves, PageUp does not.
UseAdapter(step) ==
  /\ phase = "up"
  /\ LET n == Len(Adapter)
         a == Adapter[((IndexIn(Adapter, current) - 1 + step + n) % n) + 1]
         off == IF step = 1 THEN [selected EXCEPT ![current] = None] ELSE selected
     IN  /\ current' = a
         /\ selected' = IF Sel = None THEN off
                        ELSE [off EXCEPT ![a] = IF a = current /\ step = 1
                                                THEN bobjs[a][1] ELSE SelectAdapter(a)]
  /\ UNCHANGED <<bobjs, screen>>

Move ==
  \/ \E step \in {-1, 1} : UseZone(step) \/ UseDevice(step) \/ UseAdapter(step)

Navigate == Idle /\ Move /\ Still /\ UNCHANGED volumeVars

-----------------------------------------------------------------------------
(***************************************************************************)
(* Forms.  A key raises one about what is selected, if it suits; the       *)
(* callback of a form may raise the next, about the same.                  *)
(***************************************************************************)
Lists == <<bobjs, selected, current, screen>>

RaiseForm(kind) ==
  /\ Idle
  /\ form' = [kind |-> kind, asked |-> Subject, pending |-> <<>>]
  /\ UNCHANGED <<Lists, target, volumeVars>>

Up(kind) == phase = "up" /\ form.kind = kind
RaiseNext(kind, pending) ==
  form' = [form EXCEPT !.kind = kind, !.pending = pending] /\ UNCHANGED <<Lists, volumeVars>>
Reraise(kind) == RaiseNext(kind, <<>>)
Close == form' = NoForm
Dismiss == Close /\ UNCHANGED <<Lists, volumeVars>>

\* The callback does something, or is refused.
Do(op) == Close /\ ((op /\ Follow) \/ UNCHANGED <<Lists, volumeVars>>)

\* Something is done at once, without a form.
Straight(op) == Idle /\ op /\ Follow /\ Still

PartitionBase == Selected /\ Loaded /\ ~Unpartitioned /\ Zone.kind = "empty"
Makeable == Selected /\ Loaded /\ Unpartitioned /\ rec[Sel].whole.fs = "none"
OnVolume == Selected /\ Loaded /\ ~OnEmpty
HasMenu(d) == rec[d].table \in Supported  \* ptype_table has types for it, and it has flags

KeyMakePtable == Makeable /\ RaiseForm("pttype")
KeyRemovePtable == Selected /\ ~Unpartitioned /\ RaiseForm("rmtable")
KeyWipeMbr == Selected /\ Loaded /\ RaiseForm("mbr")
KeyNewPartition == PartitionBase /\ RaiseForm(IF HasMenu(Sel) THEN "ptype" ELSE "pspec")
KeyDeletePartition == OnVolume /\ OnPartition /\ FsUse.fs = "none" /\ RaiseForm("delete")
KeyFlags == OnVolume /\ OnPartition /\ HasMenu(Sel) /\ RaiseForm("flags")
KeyNewFilesystem == OnVolume /\ FsUse.fs = "none" /\ RaiseForm("fstype")
KeyKillFilesystem == OnVolume /\ FsUse.fs # "none" /\ FsUse.at = "" /\ RaiseForm("wipefs")
KeyMount == OnVolume /\ FsUse.fs \notin {"none", "swap"} /\ RaiseForm("mountpoint")
KeyMountTarget ==
  target /\ OnVolume /\ FsUse.fs # "none" /\ FsUse.at # "/t" /\ RaiseForm("targpoint")
KeySetTarget == phase = "up" /\ ~target /\ RaiseForm("target")

\* umount_filesystem asks nothing.
KeyUnmount ==
  OnVolume /\ Straight(IF FsUse.fs = "swap" THEN Swapoffdev(Sel, Volume) ELSE Unmount(Sel, Volume))
KeyUnmountTarget == OnVolume /\ FsUse.at = "/t" /\ Straight(Unmount(Sel, Volume))

KeyUnsetTarget ==
  /\ phase = "up" /\ Idle /\ target
  /\ target' = FALSE
  /\ UNCHANGED <<Lists, form, volumeVars>>

\* Boot preparation finalizes the target, and growlight is done; so it is with 'q'
\* where there is no target, a form (other than one for text) or not.
KeyBoot ==
  /\ Idle /\ target /\ Selected /\ Loaded /\ ~Unpartitioned
  /\ (IF OnPartition THEN FsUse ELSE rec[Sel].whole).at = "/t"
  /\ phase' = "down"
  /\ UNCHANGED <<disk, rec, unread, uevents, proc, changes, screenVars>>

Typed == {"pspec", "pname", "fsname", "mountpoint", "target", "targpoint"}

KeyQuit ==
  /\ phase = "up" /\ form.kind \notin Typed
  /\ IF target THEN RaiseForm("exit")
     ELSE phase' = "down" /\ UNCHANGED <<disk, rec, unread, uevents, proc, changes, screenVars>>

Key ==
  \/ KeyMakePtable \/ KeyRemovePtable \/ KeyWipeMbr \/ KeyNewPartition \/ KeyDeletePartition
  \/ KeyFlags \/ KeyNewFilesystem \/ KeyKillFilesystem \/ KeyMount \/ KeyMountTarget
  \/ KeySetTarget \/ KeyUnmount \/ KeyUnmountTarget \/ KeyUnsetTarget
  \/ KeyBoot \/ KeyQuit

-----------------------------------------------------------------------------
(***************************************************************************)
(* Callbacks.  Escape takes some forms back to the one before.             *)
(***************************************************************************)
Back == [pspec |-> "ptype", pname |-> "pspec", fsname |-> "fstype"]

Escape ==
  /\ phase = "up" /\ ~Idle
  /\ UNCHANGED target
  /\ IF form.kind = "pspec" /\ (~PartitionBase \/ ~HasMenu(Sel))
     THEN IF PartitionBase THEN UNCHANGED <<form, Lists, volumeVars>> ELSE Dismiss
     ELSE IF form.kind \in DOMAIN Back THEN Reraise(Back[form.kind]) ELSE Dismiss

Confirmed(kind, suits, op) ==
  /\ Up(kind)
  /\ IF suits THEN Do(op) ELSE Dismiss
  /\ UNCHANGED target

PttypeCallback == \E pty \in Creatable : Confirmed("pttype", Makeable, MakePartitionTable(Sel, pty))
RemovePtableConfirm ==
  Confirmed("rmtable", Selected /\ ~Unpartitioned, WipePtable(Sel))
WipeMbrConfirm == Confirmed("mbr", Selected /\ Loaded, WipeDosmbr(Sel))
KillFilesystemConfirm == Confirmed("wipefs", OnVolume, WipeFilesystem(Sel, Volume))
FlagsCallback == Confirmed("flags", FALSE, FALSE)

\* The signature that kept the key from asking is not looked for again.
DeletePartitionConfirm ==
  Confirmed("delete", OnVolume /\ OnPartition, WipePartition(Sel, Volume))

PtypeCallback == Up("ptype") /\ Reraise("pspec") /\ UNCHANGED target

\* A partition that can have a name is asked for it, and the sectors are kept; so is
\* one of a table that ptable.c does not know.
PsectorsCallback ==
  /\ Up("pspec") /\ UNCHANGED target
  /\ IF ~PartitionBase THEN Dismiss
     ELSE \E s \in Specs(Zone, Size[Sel]) :
            IF rec[Sel].table \in Named \/ rec[Sel].table \notin Supported
            THEN RaiseNext("pname", s)
            ELSE Do(AddPartition(Sel, FALSE, s[1], s[2]))

PnameCallback ==
  /\ Up("pname") /\ UNCHANGED target
  /\ IF ~PartitionBase THEN Dismiss
     ELSE Do(AddPartition(Sel, TRUE, form.pending[1], form.pending[2]))

FsDo(type) == IF OnVolume THEN Do(MakeFilesystem(Sel, Volume, type)) ELSE Dismiss

\* ext4 has a name to ask for, swap none.
FsCallback ==
  /\ Up("fstype") /\ UNCHANGED target
  /\ Reraise("fsname") \/ FsDo("swap")

FsNamedCallback == Up("fsname") /\ FsDo("ext4") /\ UNCHANGED target

MountpointCallback == Confirmed("mountpoint", OnVolume, Mmount(Sel, Volume, "/"))

TargpointCallback ==
  /\ Up("targpoint") /\ UNCHANGED target
  /\ IF target /\ OnVolume THEN Reraise("mountops") ELSE Dismiss

MountopCallback == Confirmed("mountops", target /\ OnVolume, Mmount(Sel, Volume, "/t"))

TargetCallback ==
  Up("target") /\ Dismiss /\ target' \in {target, TRUE}

ExitConfirm ==
  /\ Up("exit") /\ phase' = "down"
  /\ UNCHANGED <<disk, rec, unread, uevents, proc, changes, screenVars>>

Answer ==
  \/ Escape \/ PttypeCallback \/ RemovePtableConfirm \/ WipeMbrConfirm \/ KillFilesystemConfirm
  \/ FlagsCallback \/ DeletePartitionConfirm \/ PtypeCallback \/ PsectorsCallback \/ PnameCallback
  \/ FsCallback \/ FsNamedCallback \/ MountpointCallback \/ TargpointCallback \/ MountopCallback
  \/ TargetCallback \/ ExitConfirm

\* What the event thread does under a form.
Underneath == Events /\ Follow /\ Still

ScreenNext == Navigate \/ Key \/ Answer \/ Underneath

-----------------------------------------------------------------------------
ScreenTypeOK ==
  /\ \A a \in Range(Adapter) : bobjs[a] \in Seq(Dev) /\ selected[a] \in Dev \cup {None}
  /\ current \in Range(Adapter)
  /\ \A d \in Dev : screen[d].zone \in 0 .. Len(screen[d].zones)
  /\ form.kind \in Kinds \cup {None}
  /\ form.pending # <<>> => form.kind = "pname"
  /\ target \in BOOLEAN

\* No partition begins before the first usable sector.
Usable(r) == \A e \in DOMAIN r.parts : e[1] >= FirstUsable(r)

\* Zones "refer to sets of contiguously allocated or unallocated sectors"
\* (notcurses.c:431): whatever became of the disk, the partitions a key can get
\* at are those on record, and a zone is selected if there are any.  Where no
\* partition is left from a table that has more room, every sector up to the last
\* is in one zone, and a zone begins where the one before ends.
ZonesOfRecord ==
  phase = "up" /\ front = "screen" => \A a \in Range(Adapter) : \A i \in DOMAIN bobjs[a] :
    LET d == bobjs[a][i]
        z == screen[d].zones
    IN  /\ {<<z[k].first, z[k].last>> : k \in {x \in DOMAIN z : z[x].kind = "partition"}}
             = DOMAIN rec[d].parts
        /\ z # <<>> => screen[d].zone # 0
        /\ Usable(rec[d]) =>
             /\ \A s \in 0 .. Size[d] - 2 :
                  z # <<>> => Cardinality({k \in DOMAIN z : z[k].first <= s /\ s <= z[k].last}) = 1
             /\ \A k \in DOMAIN z : k > 1 => z[k].first \in {z[k - 1].last, z[k - 1].last + 1}

\* The lists are the disks on record, none twice, and what is selected is on its
\* list, whatever is unplugged.
SelectionListed ==
  front = "screen" => \A a \in Range(Adapter) :
    /\ Range(bobjs[a]) = {d \in Dev : Home[d] = a /\ Known(d)}
    /\ \A i, j \in DOMAIN bobjs[a] : bobjs[a][i] = bobjs[a][j] => i = j
    /\ selected[a] # None => selected[a] \in Range(bobjs[a])

\* An adapter in focus does not lose its selection to a disk that is unplugged,
\* unless it was the last.
SelectionKept ==
  [][current' = current /\ selected[current] # None /\ bobjs'[current] # <<>>
       => selected'[current] # None]_screenVars

\* No answer to a form, but the one that the MBR be wiped, has a disk with a mounted
\* file system lose its table, if growlight has heard of the mount, before the form was
\* raised or while it was up, and did not leave it out when it last read /proc/mounts.
TablesKept ==
  [][\A d \in Dev :
       /\ form.kind \notin {None, "mbr"} /\ Settled(d)
       /\ disk[d].table \in Supported /\ disk'[d].table = "none"
       => \A v \in TruthVolumes(d) : UseOf(disk[d], v).at = "" \/ <<d, v>> \in unread]_<<
     screenVars, volumeVars>>

\* "Please confirm the request. You will not be able to undo this action."
\* (notcurses.c:3011): what is done when a request is confirmed is done to the disk, and
\* of it to the volume, that was selected when it was made.
ActsOnAsked ==
  [][form.kind \in {"rmtable", "mbr", "delete", "wipefs"} /\ form'.kind = None /\ disk' # disk
       => /\ form.asked.dev = Sel
          /\ form.kind \in {"delete", "wipefs"} => form.asked.volume = Volume]_<<
     screenVars, volumeVars>>
=============================================================================
