------------------------------ MODULE LogRing ------------------------------
(***************************************************************************)
(* The ring buffer of diagnostics in growlight.c: add_log, called by diag  *)
(* and verbf from any thread, and get_logs.  Both hold the mutex loglock   *)
(* from beginning to end, so each is one step; a message is the number of  *)
(* its recording.                                                          *)
(***************************************************************************)
EXTENDS Naturals, Sequences, FiniteSets

CONSTANTS
  Size,       \* MAXIMUM_LOG_ENTRIES
  MayFail,    \* the sets of allocations that may fail: "malloc" (add_log), "strdup" (get_logs)
  MaxLogged   \* bound on the messages recorded

ASSUME SizeAssumption == Size \in Nat \ {0}
ASSUME MaxLoggedAssumption == MaxLogged \in Nat

VARIABLES
  rblast,  \* the slot written last
  logs,    \* the messages in the slots, 0 for none
  logged,  \* the number of the last message recorded
  answer,  \* what the last get_logs returned
  locked,  \* loglock is held by a call that has returned
  failing  \* the allocations that may fail in this behaviour

vars == <<rblast, logs, logged, answer, locked, failing>>

Slot == 0 .. Size - 1

Init ==
  /\ rblast = 0
  /\ logs = [s \in Slot |-> 0]
  /\ logged = 0
  /\ answer = <<>>
  /\ locked = FALSE
  /\ failing \in MayFail

-----------------------------------------------------------------------------
\* Mutant: the index is compared with the size before it is incremented.
StepLate(r) == IF r = Size THEN 0 ELSE r + 1

Step(r) == IF r + 1 = Size THEN 0 ELSE r + 1

\* Mutant: the slot is written before the index moves on.
AddLogInPlace ==
  /\ ~locked
  /\ logged < MaxLogged
  /\ rblast' = Step(rblast)
  /\ logs' = [logs EXCEPT ![rblast] = logged + 1]
  /\ logged' = logged + 1
  /\ UNCHANGED <<answer, locked, failing>>

AddLog ==
  /\ ~locked
  /\ logged < MaxLogged
  /\ rblast' = Step(rblast)
  /\ logs' = [logs EXCEPT ![rblast'] = logged + 1]
  /\ logged' = logged + 1
  /\ UNCHANGED <<answer, locked, failing>>

\* The slot is taken, its old message stays.
AddLogFails ==
  /\ "malloc" \in failing
  /\ ~locked
  /\ rblast' = Step(rblast)
  /\ UNCHANGED <<logs, logged, answer, locked, failing>>

-----------------------------------------------------------------------------
\* The slot k places before the last one written.
Back(k) == IF k <= rblast THEN rblast - k ELSE rblast + Size - k

\* Mutant: the copying stops one message after the last one asked for.
CopiedLate(n) ==
  Cardinality({k \in 0 .. n : \A j \in 0 .. k : logs[Back(j)] # 0})

\* get_logs goes backwards from rblast until it meets an empty slot or has n.
Copied(n) ==
  Cardinality({k \in 0 .. n - 1 : \A j \in 0 .. k : logs[Back(j)] # 0})

Readable(n) == [i \in 1 .. Copied(n) |-> logs[Back(i - 1)]]

GetLogs(n) ==
  /\ ~locked
  /\ answer' = Readable(n)
  /\ UNCHANGED <<rblast, logs, logged, locked, failing>>

\* Out of memory for a copy: the copies are freed, the mutex is not.
GetLogsFails(n) ==
  /\ "strdup" \in failing
  /\ ~locked
  /\ Copied(n) > 0
  /\ locked' = TRUE
  /\ UNCHANGED <<rblast, logs, logged, answer, failing>>

Next ==
  \/ AddLog \/ AddLogFails
  \/ \E n \in 1 .. Size : GetLogs(n) \/ GetLogsFails(n)

Spec == Init /\ [][Next]_vars

-----------------------------------------------------------------------------
TypeOK ==
  /\ rblast \in Slot
  /\ logs \in [Slot -> 0 .. MaxLogged]
  /\ logged \in 0 .. MaxLogged
  /\ answer \in Seq(0 .. MaxLogged)
  /\ locked \in BOOLEAN

\* Where nothing fails, the slots read backwards hold the newest messages: the
\* inductive invariant of the ring.
RingInOrder ==
  failing = {} => \A k \in Slot : logs[Back(k)] = IF k < logged THEN logged - k ELSE 0

\* Whatever fails, no reader is given a message twice.
NoRepeats ==
  \A i, j \in 1 .. Copied(Size) :
    Readable(Size)[i] = Readable(Size)[j] => i = j

\* "We keep the last MAXIMUM_LOG_ENTRIES records around for clients to examine"
\* (growlight.c:94): where no allocation fails, the ring buffer is a log of the
\* last Size messages.  (Where one does, nothing is said of it.)
History == INSTANCE LogHistory WITH
  history <- IF failing = {} THEN Readable(Size) ELSE <<>>,
  answer <- IF failing = {} THEN answer ELSE <<>>,
  Message <- 1 .. MaxLogged
IsHistory == History!HistorySpec
=============================================================================
