----------------------------- MODULE Discovery -----------------------------
(***************************************************************************)
(* Device discovery in growlight.c: the process-wide recursive mutex       *)
(* "lock", the list discovery_active of names being discovered, and the    *)
(* device records on the controllers' blockdevs lists.                     *)
(*                                                                         *)
(* Every thread runs, one after the other, the operations Ops[t] grants    *)
(* it: lookup_device with a bare name (scan_device, the statistics tick,   *)
(* the slaves of an MD device), lookup_device with a path (the       *)
(* targets of by-path/by-id/md links, the devices of /proc/mounts),        *)
(* rescan_device (udev events, or the user interface, which holds the lock *)
(* once already), and the reparse of /proc/mounts.                         *)
(*                                                                         *)
(* The exploration of a device may look up other devices, so a thread has  *)
(* a stack of calls.  What the kernel answers to a probe is arbitrary: any *)
(* step that talks to it may fail.                                         *)
(***************************************************************************)
EXTENDS Naturals, Sequences

CONSTANTS
  Thread,    \* scan threads, the event thread, the user interface
  NoThread,
  Name,      \* names in /sys/class/block
  DiskOf,    \* the whole device a name belongs to (itself unless a partition)
  Slaves,    \* the components an MD device lists, in order
  Mounts,    \* the devices named by /proc/mounts, in order
  Ops        \* what each thread may call

OpKinds == {"lookup", "path", "rescan", "uirescan", "mounts"}

ASSUME ThreadAssumption == NoThread \notin Thread
ASSUME NameAssumption ==
  /\ DiskOf \in [Name -> Name]
  /\ Slaves \in [Name -> Seq(Name)]
  /\ Mounts \in Seq(Name)
ASSUME OpsAssumption == Ops \in [Thread -> SUBSET OpKinds]

VARIABLES
  owner,   \* the thread holding lock, or NoThread
  count,   \* how many times it has locked it
  active,  \* discovery_active: nodes <<t, i, n>>, allocated by t's i-th call
  table,   \* how many records the blockdevs lists hold for a name
  stack    \* the calls in progress in each thread

vars == <<owner, count, active, table, stack>>

IsPartition(n) == DiskOf[n] # n
IsAggregate(n) == Slaves[n] # <<>>

(***************************************************************************)
(* A call.  "create" is lookup_device, which becomes create_new_device on  *)
(* a miss; "refresh" is rescan_device on a device it unlinked; "mounts" is *)
(* parse_mounts, on its own or at the end of rescan_device.                *)
(***************************************************************************)
Kinds == {"create", "refresh", "mounts"}
Steps == {"check", "relock", "bus", "explore", "publish", "fail", "del", "mounts"}
Call  == [kind : Kinds, name : Name, path : BOOLEAN, pc : Steps,
          todo : Seq(Name), ok : BOOLEAN]

CallOf(k, n, p, at, rest) ==
  [kind |-> k, name |-> n, path |-> p, pc |-> at, todo |-> rest, ok |-> FALSE]

Top(t)       == stack[t][Len(stack[t])]
At(t, at)    == stack[t] # <<>> /\ Top(t).pc = at
SetTop(t, c) == stack' = [stack EXCEPT ![t] = [@ EXCEPT ![Len(stack[t])] = c]]
Goto(t, at)  == SetTop(t, [Top(t) EXCEPT !.pc = at])
Push(t, c)   == stack' = [stack EXCEPT ![t] = Append(@, c)]

Node(t) == <<t, Len(stack[t]), Top(t).name>>

(***************************************************************************)
(* The recursive mutex.                                                    *)
(***************************************************************************)
CanLock(t) == owner \in {NoThread, t}

Lock(t, k) ==
  /\ CanLock(t)
  /\ owner' = t
  /\ count' = count + k

\* Mutant: the last unlock does not free the mutex.
UnlockKeeps(t, k) == count' = count - k /\ UNCHANGED owner

Unlock(t, k) ==
  /\ owner' = IF count = k THEN NoThread ELSE owner
  /\ count' = count - k

(***************************************************************************)
(* A record, or a partition's record under its disk's, answers to a name.  *)
(***************************************************************************)
Known(n) == table[DiskOf[n]] > 0

Discovering(n) == \E node \in active : node[3] = n

Init ==
  /\ owner = NoThread /\ count = 0
  /\ active = {}
  /\ table = [n \in Name |-> 0]
  /\ stack = [t \in Thread |-> <<>>]

-----------------------------------------------------------------------------
(***************************************************************************)
(* Returning from the last call of t, whose lock count is unlocked before. *)
(* The outermost call gives the lock up altogether.  explore_md_sysfs      *)
(* unlocks once, and fails if a slave was not found; handle_mount goes on  *)
(* to the next line of /proc/mounts whatever it found.                     *)
(***************************************************************************)
Caller(t) == stack[t][Len(stack[t]) - 1]

Resume(c, ok) ==
  IF c.pc = "explore" /\ ~ok THEN [c EXCEPT !.pc = "fail"]
                             ELSE [c EXCEPT !.todo = Tail(@)]

Resumed(t, ok) ==
  [SubSeq(stack[t], 1, Len(stack[t]) - 1)
     EXCEPT ![Len(stack[t]) - 1] = Resume(Caller(t), ok)]

Pop(t, ok) ==
  stack' = [stack EXCEPT ![t] = IF Len(@) = 1 THEN <<>> ELSE Resumed(t, ok)]

\* Nested in explore_md_sysfs the caller's own lock goes, in parse_mounts none.
Return(t, ok) ==
  /\ Pop(t, ok)
  /\ IF Len(stack[t]) = 1 THEN owner' = NoThread /\ count' = 0
     ELSE IF Caller(t).pc = "explore" THEN Unlock(t, 1)
     ELSE UNCHANGED <<owner, count>>

-----------------------------------------------------------------------------
(***************************************************************************)
(* The operations a thread starts.                                         *)
(***************************************************************************)
StartLookup(t, n, p) ==
  /\ stack[t] = <<>>
  /\ (IF p THEN "path" ELSE "lookup") \in Ops[t]
  /\ Lock(t, 1)
  /\ Push(t, CallOf("create", n, p, "check", <<>>))
  /\ UNCHANGED <<active, table>>

\* clear_mounts and parse_mounts, from a /proc/mounts event.
StartMounts(t, n) ==
  /\ stack[t] = <<>>
  /\ "mounts" \in Ops[t]
  /\ Lock(t, 1)
  /\ Push(t, CallOf("mounts", n, TRUE, "mounts", Mounts))
  /\ UNCHANGED <<active, table>>

\* A name matches a whole device, or a partition of a disk (LAYOUT_NONE).
Match(n) ==
  {d \in {n, DiskOf[n]} : table[d] > 0 /\ (d # n => ~IsAggregate(d))}

\* Mutant: the lock is given up once the record is off its list, as
\* create_new_device gives it up for its exploration.
RescanKnownUnlocked(t, n, k) ==
  /\ stack[t] = <<>>
  /\ CanLock(t)
  /\ owner' = IF k = 1 THEN NoThread ELSE t
  /\ count' = k - 1
  /\ \E d \in Match(n) :
       /\ table' = [table EXCEPT ![d] = @ - 1]
       /\ Push(t, CallOf("refresh", d, FALSE, "bus", Slaves[d]))
  /\ UNCHANGED active

RescanKnown(t, n, k) ==
  /\ stack[t] = <<>>
  /\ Lock(t, k)
  /\ \E d \in Match(n) :
       /\ table' = [table EXCEPT ![d] = @ - 1]
       /\ Push(t, CallOf("refresh", d, FALSE, "bus", Slaves[d]))
  /\ UNCHANGED active

\* create_new_device without a look at discovery_active; it unlocks once.
RescanUnknown(t, n, k) ==
  /\ stack[t] = <<>>
  /\ CanLock(t)
  /\ Match(n) = {}
  /\ active' = active \cup {<<t, 1, n>>}
  /\ Push(t, CallOf("create", n, FALSE, "bus", Slaves[n]))
  /\ owner' = IF k = 1 THEN NoThread ELSE t
  /\ count' = k - 1
  /\ UNCHANGED table

\* From a udev event the lock is taken once; the user interface had it already.
StartRescan(t, n) ==
  \E k \in {1, 2} :
    /\ (IF k = 1 THEN "rescan" ELSE "uirescan") \in Ops[t]
    /\ RescanKnown(t, n, k) \/ RescanUnknown(t, n, k)

-----------------------------------------------------------------------------
\* Mutant: nobody waits.
NeverWait(c) == FALSE

(***************************************************************************)
(* lookup_device.  The list of discoveries holds bare names and is searched *)
(* before a leading path is stripped, so only a bare name ever waits.      *)
(***************************************************************************)
MustWait(c) == ~c.path /\ Discovering(c.name)

\* pthread_cond_timedwait with a deadline in 1970: it gives the mutex up, if it
\* was locked once, and comes back for it; locked twice, it keeps it and spins.
LookupWait(t) ==
  /\ At(t, "check")
  /\ MustWait(Top(t))
  /\ count = 1
  /\ Unlock(t, 1)
  /\ Goto(t, "relock")
  /\ UNCHANGED <<active, table>>

Spins(t) == At(t, "check") /\ MustWait(Top(t)) /\ count > 1

LookupSpin(t) ==
  /\ Spins(t)
  /\ UNCHANGED vars

\* Mutant: the wait is taken to return with the mutex.
RelockUnlocked(t) ==
  /\ At(t, "relock")
  /\ Goto(t, "check")
  /\ UNCHANGED <<owner, count, active, table>>

LookupRelock(t) ==
  /\ At(t, "relock")
  /\ Lock(t, 1)
  /\ Goto(t, "check")
  /\ UNCHANGED <<active, table>>

LookupHit(t) ==
  /\ At(t, "check")
  /\ ~MustWait(Top(t))
  /\ Known(Top(t).name)
  /\ Return(t, TRUE)
  /\ UNCHANGED <<active, table>>

\* Mutant: create_new_device begins without entering the list.
LookupMissUnlisted(t) ==
  /\ At(t, "check")
  /\ ~MustWait(Top(t))
  /\ ~Known(Top(t).name)
  /\ Unlock(t, 1)
  /\ SetTop(t, [Top(t) EXCEPT !.pc = "bus", !.todo = Slaves[Top(t).name]])
  /\ UNCHANGED <<active, table>>

LookupMiss(t) ==
  /\ At(t, "check")
  /\ ~MustWait(Top(t))
  /\ ~Known(Top(t).name)
  /\ active' = active \cup {Node(t)}
  /\ Unlock(t, 1)
  /\ SetTop(t, [Top(t) EXCEPT !.pc = "bus", !.todo = Slaves[Top(t).name]])
  /\ UNCHANGED table

-----------------------------------------------------------------------------
(***************************************************************************)
(* rescan: the sysfs link and the controller, the exploration of the node, *)
(* the probes, and the insertion.                                          *)
(***************************************************************************)
RescanBus(t) ==
  /\ At(t, "bus")
  /\ CanLock(t)
  /\ Goto(t, "explore")
  /\ UNCHANGED <<owner, count, active, table>>

\* The node is gone, a probe fails, memory is short, or it is a partition.
RescanFails(t) ==
  /\ At(t, "bus") \/ At(t, "explore")
  /\ Goto(t, "fail")
  /\ UNCHANGED <<owner, count, active, table>>

ExploreSlave(t) ==
  /\ At(t, "explore")
  /\ Top(t).todo # <<>>
  /\ Lock(t, 1)
  /\ Push(t, CallOf("create", Head(Top(t).todo), FALSE, "check", <<>>))
  /\ UNCHANGED <<active, table>>

ExploreDone(t) ==
  /\ At(t, "explore")
  /\ Top(t).todo = <<>>
  /\ ~IsPartition(Top(t).name)
  /\ Goto(t, "publish")
  /\ UNCHANGED <<owner, count, active, table>>

\* On success rescan_device goes on to clear_mounts and parse_mounts.
RescanPublish(t) ==
  /\ At(t, "publish")
  /\ CanLock(t)
  /\ table' = [table EXCEPT ![Top(t).name] = @ + 1]
  /\ IF Top(t).kind = "refresh"
     THEN SetTop(t, [Top(t) EXCEPT !.pc = "mounts", !.todo = Mounts])
     ELSE SetTop(t, [Top(t) EXCEPT !.pc = "del", !.ok = TRUE])
  /\ UNCHANGED <<owner, count, active>>

\* clobber_device locks; a failed refresh ends rescan_device.
ClobberDevice(t) ==
  /\ At(t, "fail")
  /\ CanLock(t)
  /\ IF Top(t).kind = "refresh" THEN Return(t, FALSE)
     ELSE Goto(t, "del") /\ UNCHANGED <<owner, count>>
  /\ UNCHANGED <<active, table>>

\* Mutant: a failed discovery leaves its node behind.
FinishCreateLeaks(t) ==
  /\ At(t, "del")
  /\ CanLock(t)
  /\ active' = IF Top(t).ok THEN active \ {Node(t)} ELSE active
  /\ Pop(t, Top(t).ok)
  /\ IF Len(stack[t]) = 1 THEN owner' = NoThread /\ count' = 0
     ELSE IF Caller(t).pc = "explore" THEN UNCHANGED <<owner, count>>
     ELSE owner' = t /\ count' = count + 1
  /\ UNCHANGED table

(***************************************************************************)
(* create_new_device locks again, drops its node from the list, returns.   *)
(* Nodes with equal names cannot be told apart: which one goes is all one. *)
(***************************************************************************)
FinishCreate(t) ==
  /\ At(t, "del")
  /\ CanLock(t)
  /\ active' = active \ {Node(t)}
  /\ Pop(t, Top(t).ok)
  /\ IF Len(stack[t]) = 1 THEN owner' = NoThread /\ count' = 0
     ELSE IF Caller(t).pc = "explore" THEN UNCHANGED <<owner, count>>
     ELSE owner' = t /\ count' = count + 1
  /\ UNCHANGED table

-----------------------------------------------------------------------------
\* parse_mounts: one lookup for each line that names a device.
MountLine(t) ==
  /\ At(t, "mounts")
  /\ Top(t).todo # <<>>
  /\ Push(t, CallOf("create", Head(Top(t).todo), TRUE, "check", <<>>))
  /\ UNCHANGED <<owner, count, active, table>>

MountsDone(t) ==
  /\ At(t, "mounts")
  /\ Top(t).todo = <<>>
  /\ Return(t, TRUE)
  /\ UNCHANGED <<active, table>>

Start(t) ==
  \E n \in Name :
    \/ \E p \in BOOLEAN : StartLookup(t, n, p)
    \/ StartMounts(t, n)
    \/ StartRescan(t, n)

Proceed(t) ==
  \/ LookupWait(t) \/ LookupSpin(t) \/ LookupRelock(t) \/ LookupHit(t) \/ LookupMiss(t)
  \/ RescanBus(t) \/ RescanFails(t)
  \/ ExploreSlave(t) \/ ExploreDone(t)
  \/ RescanPublish(t) \/ ClobberDevice(t) \/ FinishCreate(t)
  \/ MountLine(t) \/ MountsDone(t)

Next == \E t \in Thread : Start(t) \/ Proceed(t)

Spec == Init /\ [][Next]_vars

(***************************************************************************)
(* Every thread gets the processor; a thread that keeps finding the mutex  *)
(* free at times gets it in the end.  Threads need not start anything.     *)
(***************************************************************************)
FairSpec == Spec /\ \A t \in Thread : SF_vars(Proceed(t))
-----------------------------------------------------------------------------
Frames(t) == 1 .. Len(stack[t])

TypeOK ==
  /\ owner \in Thread \cup {NoThread}
  /\ count \in Nat
  /\ active \subseteq Thread \X Nat \X Name
  /\ table \in [Name -> Nat]
  /\ stack \in [Thread -> Seq(Call)]

\* The shape of a stack: below a call in progress are explorations and mount
\* parses that await it, and only the outermost call is not a lookup.
StackShape ==
  \A t \in Thread : \A i \in Frames(t) : LET c == stack[t][i] IN
    /\ i < Len(stack[t]) => c.pc \in {"explore", "mounts"} /\ c.todo # <<>>
    /\ i > 1 => c.kind = "create"
    /\ c.kind = "create" => c.pc # "mounts"
    /\ c.kind = "refresh" => c.pc \in {"bus", "explore", "publish", "fail", "mounts"}
    /\ c.kind = "mounts" => c.pc = "mounts"

\* "growlight must be locked on entry!" (growlight.c:1213): every lookup_device
\* runs with the lock held by its own thread, however deep the recursion that
\* led to it and however often the lock was given up on the way.
LookupLocked ==
  \A t \in Thread :
    (At(t, "check") \/ At(t, "mounts")) => owner = t /\ count > 0

\* rescan_device takes a record off its list before it explores the device
\* again: until it is back nobody else gets the lock, whatever the exploration
\* calls, or a lookup would not find the device and build a second record.
Refreshing(t) ==
  stack[t] # <<>> /\ stack[t][1].kind = "refresh" /\ stack[t][1].pc # "mounts"

RefreshHoldsLock ==
  \A t \in Thread : Refreshing(t) =>
    /\ owner = t
    /\ count > (IF At(t, "check") THEN 1 ELSE 0)
    /\ ~At(t, "relock")

\* The mutex is locked as often as the calls in progress in its owner have locked
\* it, and once more for a rescan of the user interface; the calls of any other
\* thread, which gave it up on the way, count on none of it.  A dozen functions
\* unlock on each of their returns (growlight.c:1169-1303, 2235-2303).
Locks(t) ==
  (IF At(t, "check") THEN 1 ELSE 0) + (IF Refreshing(t) \/ At(t, "mounts") THEN 1 ELSE 0)

CountMatchesOwner ==
  /\ owner = NoThread => count = 0
  /\ \A t \in Thread :
       IF owner = t
       THEN /\ stack[t] # <<>> /\ count > 0
            /\ count - Locks(t) \in (IF "uirescan" \in Ops[t] THEN {0, 1} ELSE {0})
       ELSE Locks(t) = 0

\* The inductive invariant behind the two properties above.
LockInv ==
  /\ TypeOK
  /\ StackShape
  /\ owner = NoThread <=> count = 0
  /\ LookupLocked
  /\ RefreshHoldsLock

\* discovery_active names the calls inside create_new_device, no more (a name
\* left behind would block its lookups for ever) and no less (a missing one
\* lets a second discovery in).
Creating(c) ==
  c.kind = "create" /\ c.pc \in {"bus", "explore", "publish", "fail", "del"}

NodesOf(t) ==
  {<<t, i, stack[t][i].name>> : i \in {j \in Frames(t) : Creating(stack[t][j])}}

ActiveMatchesCalls == active = UNION {NodesOf(t) : t \in Thread}

\* No name has two records, and no two threads explore the same name.
UniqueRecords ==
  /\ \A n \in Name : table[n] <= 1
  /\ \A v, w \in active : v[3] = w[3] => v = w

\* While a thread has a known device off its list, no other thread takes the
\* device for unknown, or any device: only lookups of its own begin discoveries.
NoCreateDuringRefresh ==
  [][\A t \in Thread : Refreshing(t) =>
       \A node \in active' \ active : node[1] = t]_vars

\* Where calls stop coming, every call made so far returns: the waits of the
\* lookups are on discoveries that end, and a failed discovery ends them too.
\* (A device that never answers and is looked up for ever starves its waiters.)
Returned == \A t \in Thread : stack[t] = <<>>
NoMoreCalls == <>[][\A t \in Thread : ~Start(t)]_vars
CallsReturn == NoMoreCalls => <>[]Returned

\* The rescan of an MD device can stay in the wait loop of a slave's
\* lookup for ever, the lock's holder spinning on a name whose discovery needs
\* that lock; and that is the only way for the calls never to return.
CallsReturnOrSpin == NoMoreCalls => <>[](Returned \/ \E t \in Thread : Spins(t))

\* What the discovery list is for.
Discoverings == {node[3] : node \in active}
Promise == INSTANCE DeviceTable WITH discovering <- Discoverings, records <- table
KeepsPromise == Promise!TableSpec
=============================================================================
