----------------------------- MODULE LogHistory -----------------------------
(***************************************************************************)
(* What the diagnostics log promises its readers (growlight.c:94, the man  *)
(* page's "diags"): the last Size messages, newest first.                  *)
(***************************************************************************)
EXTENDS Naturals, Sequences

CONSTANTS Size, Message

VARIABLES
  history,  \* the messages kept, newest first
  answer    \* what the last reader got

historyVars == <<history, answer>>

HistoryInit == history = <<>> /\ answer = <<>>

Shorter(m, n) == IF m < n THEN m ELSE n

First(n, s) == SubSeq(s, 1, Shorter(n, Len(s)))

\* A message displaces the oldest one, if Size are kept.
Record(id) ==
  /\ history' = First(Size, <<id>> \o history)
  /\ UNCHANGED answer

Read(n) ==
  /\ answer' = First(n, history)
  /\ UNCHANGED history

HistoryNext ==
  \/ \E id \in Message : Record(id)
  \/ \E n \in 1 .. Size : Read(n)

HistorySpec == HistoryInit /\ [][HistoryNext]_historyVars
=============================================================================
