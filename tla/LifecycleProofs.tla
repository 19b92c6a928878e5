-------------------------- MODULE LifecycleProofs --------------------------
(***************************************************************************)
(* The thread barrier of the initial scan, for any number of directories,  *)
(* links and spurious wakeups, and growlight from its start to its end,    *)
(* for any failures and either interface: what is proved of the barrier    *)
(* holds of all of it, and the devices are freed when no thread is left.   *)
(***************************************************************************)
EXTENDS Lifecycle, FiniteSetTheorems, TLAPS

-----------------------------------------------------------------------------
(***************************************************************************)
(* The barrier.                                                            *)
(***************************************************************************)
LEMMA RunningFinite ==
  ASSUME running \subseteq Scan
  PROVE  IsFiniteSet(running) /\ Cardinality(running) \in Nat
<1>1. IsFiniteSet(1 .. Dirs) /\ IsFiniteSet(Link)
  BY DirsAssumption, FS_Interval
<1>2. IsFiniteSet(Scan)
  BY <1>1, FS_Product DEF Scan
<1>3. QED
  BY <1>2, FS_Subset, FS_CardinalityType

-----------------------------------------------------------------------------
LEMMA TypeStep == ASSUME CountInv, Next PROVE TypeOK'
<1>1. TypeOK
  BY DEF CountInv
<1>2. thrcount = Counted /\ Cardinality(running) \in Nat /\ IsFiniteSet(running)
  BY RunningFinite DEF CountInv, CountExact, TypeOK
<1>3. CASE WatchDir
  BY <1>1, <1>3, DirsAssumption DEF WatchDir, TypeOK, Points
<1>4. CASE WatchDirFails
  BY <1>1, <1>4, DirsAssumption DEF WatchDirFails, After, TypeOK, Points
<1>5. CASE CountThread
  BY <1>1, <1>5 DEF CountThread, TypeOK, Points
<1>6. CASE CreateThread
  BY <1>1, <1>6 DEF CreateThread, TypeOK, Points, Scan
<1>7. CASE CreateFails
  BY <1>1, <1>2, <1>7 DEF CreateFails, TypeOK, Points, Counted
<1>8. CASE EndOfDir
  BY <1>1, <1>8 DEF EndOfDir, TypeOK, Points
<1>9. CASE Join
  BY <1>1, <1>9 DEF Join, TypeOK, Points
<1>10. CASE SpuriousWakeup
  BY <1>1, <1>10, DirsAssumption DEF SpuriousWakeup, Woken, TypeOK, Points
<1>11. CASE Leave
  BY <1>1, <1>11, DirsAssumption DEF Leave, After, TypeOK, Points
<1>12. ASSUME NEW s \in Scan, ScanDone(s) PROVE TypeOK'
  <2>1. Cardinality(running) # 0
    BY <1>2, <1>12, FS_EmptySet DEF ScanDone
  <2>2. thrcount - 1 \in Nat
    BY <1>2, <2>1 DEF Counted
  <2>3. QED
    BY <1>1, <1>12, <2>2 DEF ScanDone, LowerCount, Woken, TypeOK, Points
<1>13. CASE InotifyEvent
  BY <1>1, <1>13 DEF InotifyEvent, mainVars, TypeOK
<1>14. CASE EventDone
  BY <1>1, <1>2, <1>14 DEF EventDone, LowerCount, Woken, TypeOK, Points, Counted
<1>15. CASE Stopped
  BY <1>1, <1>15 DEF Stopped, vars, TypeOK
<1>16. QED
  BY <1>3, <1>4, <1>5, <1>6, <1>7, <1>8, <1>9, <1>10, <1>11, <1>12, <1>13, <1>14, <1>15
     DEF Next, Main

LEMMA FreshStep == ASSUME CountInv, Next PROVE Fresh'
<1>1. TypeOK /\ Fresh
  BY DEF CountInv
<1>2. \A s \in running : s = <<s[1], s[2]>> /\ s[1] \in Nat
  BY <1>1 DEF TypeOK, Scan
<1>3. dir \in Nat
  BY <1>1 DEF TypeOK
<1>4. CASE WatchDir
  BY <1>1, <1>4 DEF WatchDir, Fresh
<1>5. CASE WatchDirFails
  BY <1>1, <1>2, <1>3, <1>5 DEF WatchDirFails, After, Fresh
<1>6. CASE CountThread
  BY <1>1, <1>6 DEF CountThread, Fresh
<1>7. CASE CreateThread
  BY <1>1, <1>3, <1>7 DEF CreateThread, Fresh
<1>8. CASE CreateFails \/ EndOfDir \/ Join \/ SpuriousWakeup
  BY <1>1, <1>8 DEF CreateFails, EndOfDir, Join, SpuriousWakeup, Woken, Fresh
<1>9. CASE Leave
  BY <1>1, <1>2, <1>3, <1>9 DEF Leave, After, Fresh
<1>10. ASSUME NEW s \in Scan, ScanDone(s) PROVE Fresh'
  BY <1>1, <1>10 DEF ScanDone, LowerCount, Woken, Fresh
<1>11. CASE InotifyEvent \/ EventDone \/ Stopped
  BY <1>1, <1>11
     DEF InotifyEvent, EventDone, LowerCount, Woken, Stopped, vars, mainVars, Fresh
<1>12. QED
  BY <1>4, <1>5, <1>6, <1>7, <1>8, <1>9, <1>10, <1>11 DEF Next, Main

LEMMA CountStep == ASSUME CountInv, Next PROVE CountExact'
<1>1. TypeOK /\ Fresh /\ thrcount = Counted
  BY DEF CountInv, CountExact
<1>2. thrcount \in Nat /\ Cardinality(running) \in Nat /\ IsFiniteSet(running)
  BY <1>1, RunningFinite DEF TypeOK
<1>3. CASE WatchDir \/ WatchDirFails \/ EndOfDir \/ Join \/ SpuriousWakeup \/ Leave \/ Stopped
  <2>1. /\ at # "spawn" /\ at' # "spawn" /\ running' = running /\ thrcount' = thrcount
        /\ event' = "scan" <=> event = "scan"
    BY <1>1, <1>3
       DEF WatchDir, WatchDirFails, EndOfDir, Join, SpuriousWakeup, Leave, Stopped, After,
           Woken, vars, Fresh
  <2>2. QED
    BY <1>1, <2>1 DEF CountExact, Counted
<1>4. CASE CountThread
  BY <1>1, <1>2, <1>4 DEF CountThread, CountExact, Counted
<1>5. CASE CreateThread
  <2>1. <<dir, next>> \notin running
    BY <1>1, <1>5 DEF CreateThread, Fresh
  <2>2. Cardinality(running') = Cardinality(running) + 1
    BY <1>2, <1>5, <2>1, FS_AddElement DEF CreateThread
  <2>3. QED
    BY <1>1, <1>2, <1>5, <2>2 DEF CreateThread, CountExact, Counted
<1>6. CASE CreateFails
  BY <1>1, <1>2, <1>6 DEF CreateFails, CountExact, Counted
<1>7. ASSUME NEW s \in Scan, ScanDone(s) PROVE CountExact'
  <2>1. Cardinality(running') = Cardinality(running) - 1
    BY <1>2, <1>7, FS_RemoveElement DEF ScanDone
  <2>2. at' = "spawn" <=> at = "spawn"
    BY <1>7 DEF ScanDone, LowerCount, Woken
  <2>3. QED
    BY <1>1, <1>2, <1>7, <2>1, <2>2 DEF ScanDone, LowerCount, CountExact, Counted
<1>8. CASE InotifyEvent
  BY <1>1, <1>2, <1>8 DEF InotifyEvent, mainVars, CountExact, Counted
<1>9. CASE EventDone
  <2>1. at = "up" /\ at' = "up"
    BY <1>1, <1>9 DEF EventDone, LowerCount, Fresh
  <2>2. QED
    BY <1>1, <1>2, <1>9, <2>1 DEF EventDone, LowerCount, CountExact, Counted
<1>10. QED
  BY <1>3, <1>4, <1>5, <1>6, <1>7, <1>8, <1>9 DEF Next, Main

LEMMA CountInvInductive ==
  /\ Init => CountInv
  /\ CountInv /\ [Next]_vars => CountInv'
<1>1. ASSUME Init PROVE CountInv
  <2>1. Cardinality(running) = 0
    BY <1>1, FS_EmptySet DEF Init
  <2>2. TypeOK
    <3>1. dir \in 1 .. Dirs /\ spurious \in 0 .. Wakeups
      BY <1>1, DirsAssumption DEF Init
    <3>2. QED
      BY <1>1, <3>1 DEF Init, TypeOK, Points
  <2>3. CountExact
    BY <1>1, <2>1 DEF Init, CountExact, Counted
  <2>4. Fresh
    BY <1>1 DEF Init, Fresh
  <2>5. QED
    BY <2>2, <2>3, <2>4 DEF CountInv
<1>2. ASSUME CountInv, Next PROVE CountInv'
  BY <1>2, TypeStep, CountStep, FreshStep DEF CountInv
<1>3. ASSUME CountInv, UNCHANGED vars PROVE CountInv'
  BY <1>3 DEF vars, CountInv, TypeOK, CountExact, Counted, Fresh
<1>4. QED
  BY <1>1, <1>2, <1>3

\* The counter never drifts from the number of scans, whatever fails and however
\* often the condition variable wakes its waiter for nothing.
THEOREM CounterIsExact == Spec => []CountExact
<1>1. CountInv => CountExact
  BY DEF CountInv
<1>2. QED
  BY <1>1, CountInvInductive, PTL DEF Spec

-----------------------------------------------------------------------------
\* Without a timeout the wait ends only with the counter at zero.
Joined == at = "leave" /\ dir \notin Timed => thrcount = 0

LEMMA JoinedStep == ASSUME CountInv, Joined, [Next]_vars PROVE Joined'
<1>1. thrcount \in Nat
  BY DEF CountInv, TypeOK
<1>2. CASE UNCHANGED vars
  BY <1>2 DEF vars, Joined
<1>3. CASE Main
  BY <1>1, <1>3
     DEF Main, WatchDir, WatchDirFails, CountThread, CreateThread, CreateFails, EndOfDir,
         Join, Leave, After, Joined
<1>4. CASE SpuriousWakeup
  BY <1>4 DEF SpuriousWakeup, Woken, Joined
<1>5. ASSUME NEW s \in Scan, ScanDone(s) PROVE Joined'
  <2>1. Cardinality(running) # 0
    BY <1>5, RunningFinite, FS_EmptySet DEF ScanDone, CountInv, TypeOK
  <2>2. thrcount # 0
    BY <2>1, RunningFinite DEF CountInv, CountExact, Counted, TypeOK
  <2>3. QED
    BY <1>1, <1>5, <2>2 DEF ScanDone, LowerCount, Woken, Joined
<1>6. CASE InotifyEvent \/ EventDone \/ Stopped
  <2>1. CASE Stopped
    BY <2>1 DEF Stopped, vars, Joined
  <2>2. CASE InotifyEvent \/ EventDone
    BY <2>2 DEF InotifyEvent, EventDone, LowerCount, Woken, mainVars, Joined, CountInv, Fresh
  <2>3. QED
    BY <1>6, <2>1, <2>2
<1>7. QED
  BY <1>2, <1>3, <1>4, <1>5, <1>6 DEF Next

\* A watch_dir without a timeout leaves no scan of its directory behind.
THEOREM UntimedWatchJoins == Spec => []UntimedJoins
<1>1. Init => Joined
  BY DEF Init, Joined
<1>2. CountInv /\ Joined => UntimedJoins
  <2> SUFFICES ASSUME CountInv, Joined, at = "leave", dir \notin Timed
               PROVE  running = {}
    BY DEF UntimedJoins
  <2>1. Cardinality(running) = 0
    BY RunningFinite DEF CountInv, CountExact, Counted, Joined, TypeOK
  <2>2. QED
    BY <2>1, RunningFinite, FS_EmptySet DEF CountInv, TypeOK
<1>3. QED
  BY <1>1, <1>2, CountInvInductive, JoinedStep, PTL DEF Spec

\* Without spurious wakeups nobody begins or leaves a watch_dir with scans counted.
Unwoken == spurious = 0 /\ at \in {"enter", "leave"} => thrcount = 0

LEMMA UnwokenStep == ASSUME CountInv, Unwoken, [Next]_vars PROVE Unwoken'
<1>1. thrcount \in Nat /\ spurious \in 0 .. Wakeups
  BY DEF CountInv, TypeOK
<1>2. CASE UNCHANGED vars
  BY <1>2 DEF Unwoken, vars
<1>3. CASE Main
  BY <1>1, <1>3
     DEF Main, WatchDir, WatchDirFails, CountThread, CreateThread, CreateFails, EndOfDir,
         Join, Leave, After, Unwoken
<1>4. CASE SpuriousWakeup
  BY <1>1, <1>4 DEF Unwoken, SpuriousWakeup
<1>5. ASSUME NEW s \in Scan, ScanDone(s) PROVE Unwoken'
  <2>1. Cardinality(running) # 0
    BY <1>5, RunningFinite, FS_EmptySet DEF ScanDone, CountInv, TypeOK
  <2>2. thrcount # 0
    BY <2>1, RunningFinite DEF CountInv, CountExact, Counted, TypeOK
  <2>3. QED
    BY <1>1, <1>5, <2>2 DEF Unwoken, ScanDone, LowerCount, Woken
<1>6. CASE InotifyEvent \/ EventDone
  BY <1>6 DEF InotifyEvent, EventDone, LowerCount, Woken, mainVars, CountInv, Fresh, Unwoken
<1>7. CASE Stopped
  BY <1>7 DEF Unwoken, Stopped, vars
<1>8. QED
  BY <1>2, <1>3, <1>4, <1>5, <1>6, <1>7 DEF Next

\* As long as the condition variable wakes nobody for no reason, the assertion
\* holds: a directory's scans end before the next directory is opened.
THEOREM AssertionWithoutWakeups == Spec => []AssertionUnlessWoken
<1>1. Init => Unwoken
  BY DEF Init, Unwoken
<1>2. Unwoken => AssertionUnlessWoken
  BY DEF Unwoken, AssertionUnlessWoken
<1>3. QED
  BY <1>1, <1>2, CountInvInductive, UnwokenStep, PTL DEF Spec

\* And whatever it does, the variables keep their types.
THEOREM BarrierTyped == Spec => []TypeOK
<1>1. CountInv => TypeOK
  BY DEF CountInv
<1>2. QED
  BY <1>1, CountInvInductive, PTL DEF Spec

-----------------------------------------------------------------------------
(***************************************************************************)
(* growlight around it.                                                    *)
(***************************************************************************)
\* A step of growlight is a step of the barrier, or none.
LEMMA BarrierStep == ASSUME LifeNext PROVE [Next]_vars
<1>1. CASE InitialScan
  BY <1>1 DEF InitialScan, Next
<1>2. CASE Launch \/ InitFails \/ KeyArrives \/ Quit \/ UntargetedExitConfirm \/ Ui
  BY <1>2 DEF Launch, InitFails, KeyArrives, Quit, UntargetedExitConfirm, Ui, LockGrowlight,
              LockNotcurses, UnlockNotcurses, KillEventThread, JoinEventThread, FreeDevtable
<1>3. CASE EventArrives
  BY <1>3 DEF EventArrives, Next
<1>4. CASE EventThread
  BY <1>4 DEF EventThread, Speak, Work, EventLock, Update, TakeBfl, Show, EventLeave, Die, Next
<1>5. CASE BlockCallbackFails \/ Ended
  BY <1>5 DEF BlockCallbackFails, Ended, allVars
<1>6. QED
  BY <1>1, <1>2, <1>3, <1>4, <1>5 DEF LifeNext

\* Lifecycle implements Barrier.
THEOREM LifeImplementsBarrier == LifeSpec => Spec
<1>1. LifeInit => Init
  BY DEF LifeInit
<1>2. ASSUME [LifeNext]_allVars PROVE [Next]_vars
  BY <1>2, BarrierStep DEF allVars
<1>3. QED
  BY <1>1, <1>2, PTL DEF LifeSpec, Spec

\* The threads that may still be at work, by how far growlight has come.
Gone == ev \in {"unborn", "dead"}

LifeInv ==
  /\ launched <=> ev # "unborn"
  /\ ui = "init" => ~launched
  /\ ui # "init" => at \in {"up", "stopped"}
  /\ ui \in {"free", "freed"} => Gone
  /\ spurious = 0 /\ at \in {"up", "stopped"} => running = {}

LEMMA ScansOver ==
  ASSUME CountInv, Unwoken, LifeInv, [Next]_vars
  PROVE  /\ at \in {"up", "stopped"} => at' = at
         /\ spurious' = 0 /\ at' \in {"up", "stopped"} => running' = {}
<1>1. thrcount \in Nat /\ spurious \in 0 .. Wakeups /\ IsFiniteSet(running)
      /\ Cardinality(running) \in Nat
  BY RunningFinite DEF CountInv, TypeOK
<1>2. ASSUME at = "enter" \/ at = "leave", spurious = 0 PROVE running = {}
  <2>1. Cardinality(running) = 0
    BY <1>1, <1>2 DEF Unwoken, CountInv, CountExact, Counted
  <2>2. QED
    BY <1>1, <2>1, FS_EmptySet
<1>3. CASE UNCHANGED vars
  BY <1>3 DEF vars, LifeInv
<1>4. CASE WatchDirFails \/ Leave
  BY <1>2, <1>4 DEF WatchDirFails, Leave, After
<1>5. CASE Main /\ ~(WatchDirFails \/ Leave)
  BY <1>5 DEF Main, WatchDir, CountThread, CreateThread, CreateFails, EndOfDir, Join
<1>6. CASE SpuriousWakeup
  BY <1>1, <1>6 DEF SpuriousWakeup
<1>7. ASSUME NEW s \in Scan, ScanDone(s)
      PROVE  /\ at \in {"up", "stopped"} => at' = at
             /\ spurious' = 0 /\ at' \in {"up", "stopped"} => running' = {}
  <2>1. at' = at \/ (at' \in {"leave", "join"} /\ at = "wait")
    BY <1>7 DEF ScanDone, LowerCount, Woken
  <2>2. spurious' = spurious /\ running' \subseteq running
    BY <1>7 DEF ScanDone
  <2>3. QED
    BY <2>1, <2>2 DEF LifeInv
<1>8. CASE InotifyEvent \/ EventDone
  <2>1. at = "up" /\ at' = at /\ running' = running /\ spurious' = spurious
    BY <1>8 DEF InotifyEvent, EventDone, LowerCount, mainVars, CountInv, Fresh
  <2>2. QED
    BY <2>1 DEF LifeInv
<1>9. CASE Stopped
  BY <1>9 DEF Stopped, vars, LifeInv
<1>10. QED
  BY <1>3, <1>4, <1>5, <1>6, <1>7, <1>8, <1>9 DEF Next

\* Each step of either thread keeps the invariant.
LEMMA LifeStep ==
  ASSUME CountInv, Unwoken, LifeInv, [LifeNext]_allVars
  PROVE  LifeInv'
<1>1. [Next]_vars
  BY BarrierStep DEF allVars
<1>2. /\ at \in {"up", "stopped"} => at' = at
      /\ spurious' = 0 /\ at' \in {"up", "stopped"} => running' = {}
  BY <1>1, ScansOver
<1>3. ASSUME UNCHANGED <<launched, ui, ev>> PROVE LifeInv'
  BY <1>2, <1>3 DEF LifeInv, Gone
<1>4. CASE UNCHANGED lifeVars
  BY <1>3, <1>4 DEF lifeVars
<1>5. CASE Launch
  BY <1>2, <1>5 DEF Launch, UiGoes, LifeInv, Gone
<1>6. CASE InitFails
  BY <1>2, <1>6 DEF InitFails, UiGoes, LifeInv, Gone
<1>7. CASE KeyArrives \/ Quit \/ UntargetedExitConfirm
  BY <1>2, <1>7 DEF KeyArrives, Quit, UntargetedExitConfirm, UiGoes, LifeInv, Gone
<1>8. CASE LockGrowlight \/ LockNotcurses \/ UnlockNotcurses
  BY <1>2, <1>8 DEF LockGrowlight, LockNotcurses, UnlockNotcurses, UiGoes, LifeInv, Gone
<1>9. CASE KillEventThread
  BY <1>2, <1>9 DEF KillEventThread, UiGoes, LifeInv, Gone
<1>10. CASE JoinEventThread \/ FreeDevtable
  BY <1>2, <1>10 DEF JoinEventThread, FreeDevtable, UiGoes, LifeInv, Gone
<1>11. ASSUME UNCHANGED <<launched, ui>>, ev \notin {"unborn", "dead"}, ev' # "unborn"
       PROVE  LifeInv'
  BY <1>2, <1>11 DEF LifeInv, Gone
<1>12. CASE EventArrives \/ BlockCallbackFails
  BY <1>11, <1>12 DEF EventArrives, BlockCallbackFails, EvGoes
<1>13. CASE EventThread
  BY <1>11, <1>13
     DEF EventThread, Speak, Work, EventLock, Update, TakeBfl, Show, EventLeave, Die, EvGoes,
         CancellationPoints
<1>14. QED
  BY <1>4, <1>5, <1>6, <1>7, <1>8, <1>9, <1>10, <1>12, <1>13
     DEF LifeNext, Ui, Ended, allVars

\* The devices are freed when no thread is left that works on them.
THEOREM DevicesFreedAlone == LifeSpec => []FreedAlone
<1>1. Init => Unwoken
  BY DEF Init, Unwoken
<1>2. LifeInit => LifeInv
  BY DEF LifeInit, Init, LifeInv, Gone
<1>3. LifeSpec => [][Next]_vars /\ Init
  BY LifeImplementsBarrier, PTL DEF Spec
<1>4. LifeSpec => [](CountInv /\ Unwoken)
  BY <1>1, <1>3, CountInvInductive, UnwokenStep, PTL
<1>5. LifeSpec => []LifeInv
  BY <1>2, <1>4, LifeStep, PTL DEF LifeSpec
<1>6. LifeInv => FreedAlone
  BY DEF LifeInv, FreedAlone, Gone
<1>7. QED
  BY <1>5, <1>6, PTL
=============================================================================
