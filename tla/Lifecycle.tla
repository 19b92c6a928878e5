----------------------------- MODULE Lifecycle -----------------------------
(***************************************************************************)
(* What becomes of growlight's threads after the initial scan (Barrier):   *)
(* growlight_init starts the event thread, the interface handles keys or   *)
(* commands, and growlight_stop cancels and joins the event thread and     *)
(* frees the devices.  Two recursive mutexes are taken in between: the     *)
(* growlight lock and, for the full-screen interface, the screen's, bfl,   *)
(* which its callbacks and diag take as well.                              *)
(***************************************************************************)
EXTENDS Barrier

VARIABLES
  front,      \* the interface: "line" or "screen"
  launched,   \* eventthread_launched
  ui,         \* where the interface's thread stands
  ev,         \* where the event thread stands
  cancelled,  \* pthread_cancel has been called for it
  lock, bfl,  \* who holds the mutexes
  leaked      \* block_callback has returned without releasing bfl

lifeVars == <<front, launched, ui, ev, cancelled, lock, bfl, leaked>>
allVars == <<vars, lifeVars>>

Nobody == "nobody"

LifeInit ==
  /\ Init
  /\ front \in {"line", "screen"}
  /\ launched = FALSE
  /\ ui = "init" /\ ev = "unborn"
  /\ cancelled = FALSE
  /\ lock = Nobody /\ bfl = Nobody
  /\ leaked = FALSE

Free(mutex, who) == mutex \in {Nobody, who}

-----------------------------------------------------------------------------
(***************************************************************************)
(* The interface's thread.                                                 *)
(***************************************************************************)
UiGoes(from, to) == ui = from /\ ui' = to

\* event_thread; it, the first parse of a file, or the udev monitor may fail.
Launch ==
  /\ at = "up"
  /\ UiGoes("init", "ready")
  /\ launched' = TRUE /\ ev' = "poll"
  /\ UNCHANGED <<vars, front, cancelled, lock, bfl, leaked>>

InitFails ==
  /\ at \in {"up", "stopped"}
  /\ UiGoes("init", "stop")
  /\ UNCHANGED <<vars, front, launched, ev, cancelled, lock, bfl, leaked>>

KeyArrives ==
  /\ UiGoes("ready", "lock")
  /\ UNCHANGED <<vars, front, launched, ev, cancelled, lock, bfl, leaked>>

\* lock_growlight, and in lock_notcurses, the other mutex.
LockGrowlight ==
  /\ UiGoes("lock", IF front = "screen" THEN "lockbfl" ELSE "key")
  /\ Free(lock, "ui") /\ lock' = "ui"
  /\ UNCHANGED <<vars, front, launched, ev, cancelled, bfl, leaked>>

LockNotcurses ==
  /\ UiGoes("lockbfl", "key")
  /\ Free(bfl, "ui") /\ bfl' = "ui"
  /\ UNCHANGED <<vars, front, launched, ev, cancelled, lock, leaked>>

UnlockNotcurses ==
  /\ UiGoes("key", "ready")
  /\ lock' = Nobody /\ bfl' = Nobody
  /\ UNCHANGED <<vars, front, launched, ev, cancelled, leaked>>

Quit ==
  /\ UiGoes("ready", "stop")
  /\ UNCHANGED <<vars, front, launched, ev, cancelled, lock, bfl, leaked>>

\* The callback of the form that asks whether to leave a target unfinalized is
\* run with both mutexes held, and calls shutdown_cycle.
UntargetedExitConfirm ==
  /\ front = "screen"
  /\ UiGoes("key", "stop")
  /\ UNCHANGED <<vars, front, launched, ev, cancelled, lock, bfl, leaked>>

-----------------------------------------------------------------------------
(***************************************************************************)
(* growlight_stop.  Every message it logs is shown, with bfl held.         *)
(***************************************************************************)
Shown == front = "screen" => Free(bfl, "ui")

\* Mutant: the thread is waited for, and nobody has cancelled it.
JoinUncancelled ==
  /\ Shown
  /\ UiGoes("stop", IF launched THEN "join" ELSE "free")
  /\ UNCHANGED <<vars, front, launched, ev, cancelled, lock, bfl, leaked>>

KillEventThread ==
  /\ Shown
  /\ UiGoes("stop", IF launched THEN "join" ELSE "free")
  /\ cancelled' = launched
  /\ UNCHANGED <<vars, front, launched, ev, lock, bfl, leaked>>

\* Mutant: the thread is cancelled, and nobody waits for it.
JoinSkipped ==
  /\ UiGoes("join", "free")
  /\ UNCHANGED <<vars, front, launched, ev, cancelled, lock, bfl, leaked>>

JoinEventThread ==
  /\ UiGoes("join", "free")
  /\ ev = "dead"
  /\ UNCHANGED <<vars, front, launched, ev, cancelled, lock, bfl, leaked>>

\* free_devtable holds no lock, but takes them for each device and gives them back:
\* the screen's in block_free, the growlight lock in internal_device_reset.
FreeDevtable ==
  /\ Shown
  /\ Free(lock, "ui")
  /\ UiGoes("free", "freed")
  /\ UNCHANGED <<vars, front, launched, ev, cancelled, lock, bfl, leaked>>

Ui ==
  \/ LockGrowlight \/ LockNotcurses \/ UnlockNotcurses
  \/ KillEventThread \/ JoinEventThread \/ FreeDevtable

-----------------------------------------------------------------------------
(***************************************************************************)
(* The event thread: an event may be something to say, or have the         *)
(* devices changed under the growlight lock and the interface told.        *)
(***************************************************************************)
EvGoes(from, to) == ev = from /\ ev' = to

\* Entering epoll_wait acts on a cancellation.
EventArrives ==
  /\ EvGoes("poll", "work") /\ ~cancelled
  /\ InotifyEvent \/ UNCHANGED vars
  /\ UNCHANGED <<front, launched, ui, cancelled, lock, bfl, leaked>>

Speak ==
  /\ front = "screen"
  /\ EvGoes("work", "speak")
  /\ UNCHANGED <<vars, front, launched, ui, cancelled, lock, bfl, leaked>>

Work ==
  /\ EvGoes("work", "lock")
  /\ UNCHANGED <<vars, front, launched, ui, cancelled, lock, bfl, leaked>>

EventLock ==
  /\ EvGoes("lock", "update")
  /\ Free(lock, "event") /\ lock' = "event"
  /\ UNCHANGED <<vars, front, launched, ui, cancelled, bfl, leaked>>

\* A change is shown, or there is none.
Update ==
  /\ ev = "update"
  /\ ev' \in {"leave"} \cup IF front = "screen" THEN {"callback"} ELSE {}
  /\ UNCHANGED <<vars, front, launched, ui, cancelled, lock, bfl, leaked>>

TakeBfl ==
  /\ EvGoes("callback", "show") \/ EvGoes("speak", "say")
  /\ Free(bfl, "event") /\ bfl' = "event"
  /\ UNCHANGED <<vars, front, launched, ui, cancelled, lock, leaked>>

Show ==
  /\ EvGoes("show", "leave") \/ EvGoes("say", "leave")
  /\ bfl' = IF leaked THEN bfl ELSE Nobody
  /\ UNCHANGED <<vars, front, launched, ui, cancelled, lock, leaked>>

\* block_callback cannot have its adapter shown, and returns as it is.
BlockCallbackFails ==
  /\ EvGoes("show", "leave")
  /\ leaked' = TRUE
  /\ UNCHANGED <<vars, front, launched, ui, cancelled, lock, bfl>>

EventLeave ==
  /\ EvGoes("leave", "poll")
  /\ lock' = IF lock = "event" THEN Nobody ELSE lock
  /\ IF event = "scan" THEN EventDone ELSE UNCHANGED vars
  /\ UNCHANGED <<front, launched, ui, cancelled, bfl, leaked>>

\* Reading, writing and drawing are cancellation points, waiting for a mutex is not.
CancellationPoints == {"poll", "work", "update", "show", "say", "leave"}

Die ==
  /\ cancelled
  /\ ev \in CancellationPoints /\ ev' = "dead"
  /\ UNCHANGED <<vars, front, launched, ui, cancelled, lock, bfl, leaked>>

EventThread ==
  \/ Speak \/ Work \/ EventLock \/ Update \/ TakeBfl \/ Show \/ EventLeave \/ Die

-----------------------------------------------------------------------------
\* What growlight_stop cannot get past: a screen locked for good; an event thread
\* that waits for a mutex while it waits for the thread, holding it; and devices
\* that cannot be freed, for the event thread died with the growlight lock.
ScreenKept == leaked \/ (ev = "dead" /\ bfl = "event")
JoinsWaiter == ui = "join" /\ lock = "ui" /\ ev \in {"lock", "speak"}
DevicesKept == ui = "free" /\ ev = "dead" /\ lock = "event"

\* The program has come to its end, or to nothing.
Ended == (ui = "freed" \/ ScreenKept \/ JoinsWaiter \/ DevicesKept) /\ UNCHANGED allVars

InitialScan ==
  \/ Main \/ SpuriousWakeup
  \/ \E s \in Scan : ScanDone(s)

LifeNext ==
  \/ InitialScan /\ UNCHANGED lifeVars
  \/ Launch \/ InitFails \/ KeyArrives \/ Quit \/ UntargetedExitConfirm \/ Ui
  \/ EventArrives \/ BlockCallbackFails \/ EventThread
  \/ Ended

LifeSpec == LifeInit /\ [][LifeNext]_allVars

\* The processor is fair; a probe ends unless its device hangs; and whoever wants
\* a mutex that is free again and again gets it.
FairLife ==
  /\ LifeSpec
  /\ WF_allVars(Main /\ UNCHANGED lifeVars)
  /\ \A s \in Scan \ Hung : WF_allVars(ScanDone(s) /\ UNCHANGED lifeVars)
  /\ SF_allVars(Ui)
  /\ SF_allVars(EventThread)

-----------------------------------------------------------------------------
\* "Killing the event thread..." comes before "Freeing devtable..."
\* (growlight.c:2117): when the devices are freed, one after the other, no thread is
\* left that works on them, unless a spurious wakeup has ended the initial scan.
FreedAlone ==
  ui = "freed" /\ spurious = 0 => running = {} /\ ev \in {"unborn", "dead"}

\* growlight_stop returns, whether the scan failed or the user quit, wherever the
\* event thread is cancelled, unless that leaves the screen's lock or the growlight
\* lock with a dead thread, or the thread waits for a lock that the interface's own
\* thread came with.
StopReturns ==
  \/ (ui = "stop" ~> ui = "freed")
  \/ <>[]ScreenKept
  \/ <>[]JoinsWaiter
  \/ <>[]DevicesKept
=============================================================================
