------------------------------ MODULE Barrier ------------------------------
(***************************************************************************)
(* watch_dir and the thread barrier of growlight.c: growlight_init reads   *)
(* four directories, one after the other, starts a detached thread for     *)
(* each link it finds, and waits until the counter thrcount says that the  *)
(* threads are through.  Afterwards the event thread raises and lowers the *)
(* same counter around the same scan functions.                            *)
(***************************************************************************)
EXTENDS Naturals, FiniteSets

CONSTANTS
  Dirs,     \* how many directories growlight_init watches
  Timed,    \* those watched with a timeout (the first, /sys/class/block)
  Link,     \* names of links
  Links,    \* what each directory holds
  Hung,     \* links to devices that never answer their probes
  Wakeups   \* how many spurious wakeups the condition variable may deliver

ASSUME DirsAssumption ==
  /\ Dirs \in Nat \ {0}
  /\ Timed \subseteq 1 .. Dirs
  /\ Links \in [1 .. Dirs -> SUBSET Link]
  /\ IsFiniteSet(Link)
  /\ Hung \subseteq (1 .. Dirs) \X Link
  /\ Wakeups \in Nat

VARIABLES
  thrcount,  \* the counter, under the mutex barrier
  dir,       \* the directory being watched
  at,        \* where growlight_init stands
  unread,    \* links readdir has yet to return
  next,      \* the link being handed to a thread
  failed,    \* readdir or pthread_create reported an error
  running,   \* scan threads that have not lowered the counter, as <<dir, link>>
  event,     \* the event thread: "unborn", "idle", or "scan"
  spurious   \* spurious wakeups so far

mainVars == <<dir, at, unread, next, failed>>
vars == <<thrcount, dir, at, unread, next, failed, running, event, spurious>>

Points == {"enter", "read", "spawn", "join", "wait", "leave", "up", "stopped"}

Init ==
  /\ thrcount = 0
  /\ dir = 1 /\ at = "enter"
  /\ unread = {} /\ next \in Link /\ failed = FALSE
  /\ running = {}
  /\ event = "unborn"
  /\ spurious = 0

-----------------------------------------------------------------------------
(***************************************************************************)
(* growlight_init gives up when the first directory cannot be read and     *)
(* does without the others; after the last it starts the event thread.     *)
(***************************************************************************)
After(ok) ==
  IF dir = 1 /\ ~ok THEN at' = "stopped" /\ UNCHANGED <<dir, event>>
  ELSE IF dir < Dirs THEN at' = "enter" /\ dir' = dir + 1 /\ UNCHANGED event
  ELSE at' = "up" /\ event' = "idle" /\ UNCHANGED dir

\* The assertion is compiled out in the default build (-DNDEBUG).
WatchDir ==
  /\ at = "enter"
  /\ at' = "read"
  /\ unread' = Links[dir]
  /\ failed' = FALSE
  /\ UNCHANGED <<thrcount, dir, next, running, event, spurious>>

\* inotify_add_watch or opendir fails: nothing was started.
WatchDirFails ==
  /\ at = "enter"
  /\ After(FALSE)
  /\ UNCHANGED <<thrcount, unread, next, failed, running, spurious>>

\* Mutant: the thread is not counted before it is created.
CountLate ==
  /\ at = "read"
  /\ \E l \in unread : next' = l /\ unread' = unread \ {l}
  /\ at' = "spawn"
  /\ UNCHANGED <<thrcount, dir, failed, running, event, spurious>>

CountThread ==
  /\ at = "read"
  /\ \E l \in unread : next' = l /\ unread' = unread \ {l}
  /\ thrcount' = thrcount + 1
  /\ at' = "spawn"
  /\ UNCHANGED <<dir, failed, running, event, spurious>>

CreateThread ==
  /\ at = "spawn"
  /\ running' = running \cup {<<dir, next>>}
  /\ at' = "read"
  /\ UNCHANGED <<thrcount, dir, unread, next, failed, event, spurious>>

\* Mutant: the count of a thread that could not be created is not taken back.
CreateFailsCounted ==
  /\ at = "spawn"
  /\ at' = "join"
  /\ failed' = TRUE
  /\ UNCHANGED <<thrcount, dir, unread, next, running, event, spurious>>

\* No thread: the count is taken back, the rest of the directory is skipped, and
\* watch_dir will return the error.
CreateFails ==
  /\ at = "spawn"
  /\ thrcount' = thrcount - 1
  /\ at' = "join"
  /\ failed' = TRUE
  /\ UNCHANGED <<dir, unread, next, running, event, spurious>>

EndOfDir ==
  /\ at = "read"
  /\ failed' \in BOOLEAN
  /\ failed' \/ unread = {}
  /\ at' = "join"
  /\ UNCHANGED <<thrcount, dir, unread, next, running, event, spurious>>

\* Mutant: a wait with a timeout is not followed by an unbounded one.
JoinTimesOut ==
  /\ at = "join"
  /\ at' = IF thrcount > 0 /\ dir \notin Timed THEN "wait" ELSE "leave"
  /\ UNCHANGED <<thrcount, dir, unread, next, failed, running, event, spurious>>

(***************************************************************************)
(* The end of watch_dir, one step up to pthread_cond_wait, which gives up  *)
(* the mutex: with a timeout, a pthread_cond_timedwait comes first, on     *)
(* another condition, with a mutex this thread does not hold and a         *)
(* deadline in 1970, and returns at once.                                  *)
(***************************************************************************)
Join ==
  /\ at = "join"
  /\ at' = IF thrcount > 0 THEN "wait" ELSE "leave"
  /\ UNCHANGED <<thrcount, dir, unread, next, failed, running, event, spurious>>

\* Mutant: no wait looks at the counter again.
WokenOnce == "leave"

\* Woken, a wait with a timeout is over (break); one without looks again.
Woken == IF dir \in Timed THEN "leave" ELSE "join"

SpuriousWakeup ==
  /\ at = "wait"
  /\ spurious < Wakeups
  /\ spurious' = spurious + 1
  /\ at' = Woken
  /\ UNCHANGED <<thrcount, dir, unread, next, failed, running, event>>

Leave ==
  /\ at = "leave"
  /\ After(~failed)
  /\ UNCHANGED <<thrcount, unread, next, failed, running, spurious>>

-----------------------------------------------------------------------------
\* The end of scan_device and of the three link scans, whatever they found.
LowerCount ==
  /\ thrcount' = thrcount - 1
  /\ at' = IF thrcount = 1 /\ at = "wait" THEN Woken ELSE at

ScanDone(s) ==
  /\ s \in running
  /\ running' = running \ {s}
  /\ LowerCount
  /\ UNCHANGED <<dir, unread, next, failed, event, spurious>>

\* event_posix_thread calls the scan functions itself, one at a time.
InotifyEvent ==
  /\ event = "idle"
  /\ event' = "scan"
  /\ thrcount' = thrcount + 1
  /\ UNCHANGED <<mainVars, running, spurious>>

EventDone ==
  /\ event = "scan"
  /\ event' = "idle"
  /\ LowerCount
  /\ UNCHANGED <<dir, unread, next, failed, running, spurious>>

Main ==
  \/ WatchDir \/ WatchDirFails
  \/ CountThread \/ CreateThread \/ CreateFails \/ EndOfDir
  \/ Join \/ Leave

Stopped ==
  /\ at = "stopped" /\ running = {}
  /\ UNCHANGED vars

Scan == (1 .. Dirs) \X Link

Next ==
  \/ Main \/ SpuriousWakeup
  \/ \E s \in Scan : ScanDone(s)
  \/ InotifyEvent \/ EventDone
  \/ Stopped

Spec == Init /\ [][Next]_vars

\* The processor is fair; a probe ends unless its device hangs.
FairSpec ==
  /\ Spec
  /\ WF_vars(Main)
  /\ \A s \in Scan \ Hung : WF_vars(ScanDone(s))

-----------------------------------------------------------------------------
TypeOK ==
  /\ thrcount \in Nat
  /\ dir \in 1 .. Dirs
  /\ at \in Points
  /\ unread \subseteq Link
  /\ next \in Link
  /\ failed \in BOOLEAN
  /\ running \subseteq Scan
  /\ event \in {"unborn", "idle", "scan"}
  /\ spurious \in 0 .. Wakeups

\* The counter is the number of scans under way and of threads counted but not
\* yet created, also when a thread cannot be created.
Counted ==
  Cardinality(running) + (IF at = "spawn" THEN 1 ELSE 0)
                       + (IF event = "scan" THEN 1 ELSE 0)

CountExact == thrcount = Counted

\* The inductive invariant behind it: no thread is created twice for a link.
Fresh ==
  /\ \A s \in running :
       /\ s[1] <= dir
       /\ s[1] = dir => at # "enter" /\ s[2] \notin unread
       /\ s = <<dir, next>> => at # "spawn"
  /\ at = "spawn" => next \notin unread
  /\ event # "unborn" => at = "up"

CountInv == TypeOK /\ CountExact /\ Fresh

\* assert(thrcount == 0) at the head of watch_dir (growlight.c:1433): the scan
\* of one directory is over before the next begins, unless a wakeup was spurious.
AssertionUnlessWoken == spurious = 0 /\ at = "enter" => thrcount = 0

\* A directory of links watched without a timeout is joined even if the
\* condition variable wakes its waiter for no reason: nobody leaves while one
\* of its own scans runs.
UntimedJoins ==
  at = "leave" /\ dir \notin Timed => \A l \in Link : <<dir, l>> \notin running

\* No wakeup is missed between the count's falling to zero and the wait:
\* growlight_init comes through, or gives up, unless it waits for a device that
\* hangs; for such a device it waits for ever, timeout or not (TimedWaitEnds).
WaitsForHung == at = "wait" /\ \E s \in Hung : s \in running
InitEndsUnlessHung == <>(at \in {"up", "stopped"}) \/ <>[]WaitsForHung

\* "If timeout is set, we will only wait for some finite amount of time for all the
\* threads to complete [...] this is to work around busted hardware"
\* (growlight.c:1418): a wait in a directory with a timeout ends.
TimedWaitEnds ==
  \A d \in Timed : (dir = d /\ at = "wait") ~> ~(dir = d /\ at = "wait")
=============================================================================
