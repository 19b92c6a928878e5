------------------------------ MODULE Interface ------------------------------
(***************************************************************************)
(* growlight with one of its interfaces: growlight-readline or growlight,  *)
(* the full-screen one, over the same disks and event thread.              *)
(***************************************************************************)
EXTENDS Screen, Line

vars == <<volumeVars, screenVars, front>>

Init ==
  /\ VolumesInit /\ ScreenInit
  /\ front \in {"line", "screen"}

\* Out of bounds or stopped.
Done == (phase # "up" \/ changes = MaxChanges) /\ UNCHANGED vars

Next ==
  \/ front = "line" /\ LineNext /\ UNCHANGED <<screenVars, front>>
  \/ front = "screen" /\ ScreenNext /\ UNCHANGED front
  \/ Done

Spec == Init /\ [][Next]_vars

TypeOK == VolumesTypeOK /\ (front = "screen" => ScreenTypeOK)
=============================================================================
