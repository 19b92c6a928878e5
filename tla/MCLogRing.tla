----------------------------- MODULE MCLogRing -----------------------------
(***************************************************************************)
(* A ring of three slots that wraps around more than twice, and one        *)
(* allocation or none that may fail.                                       *)
(***************************************************************************)
EXTENDS LogRing

Memory == {{}, {"malloc"}, {"strdup"}}
=============================================================================
