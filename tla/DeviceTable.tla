---------------------------- MODULE DeviceTable ----------------------------
(***************************************************************************)
(* What device discovery promises its callers when every name is looked up *)
(* the way lookup_device's comment asks (growlight.c:1212): a name is       *)
(* discovered by one thread at a time, only while it is unknown, and the   *)
(* blockdevs lists never come to hold a second record of it.               *)
(***************************************************************************)
EXTENDS Naturals

CONSTANT Name

VARIABLES
  discovering,  \* names some thread is exploring
  records       \* how many records the controllers hold for each name

tableVars == <<discovering, records>>

TableInit ==
  /\ discovering = {}
  /\ records = [n \in Name |-> 0]

\* A lookup misses: nobody knows the name, nobody is looking for it.
Begin(n) ==
  /\ n \notin discovering
  /\ records[n] = 0
  /\ discovering' = discovering \cup {n}
  /\ UNCHANGED records

\* The exploration succeeded.
Publish(n) ==
  /\ n \in discovering
  /\ records[n] = 0
  /\ records' = [records EXCEPT ![n] = 1]
  /\ UNCHANGED discovering

\* The lookup returns, with the new record or without one.
Finish(n) ==
  /\ n \in discovering
  /\ discovering' = discovering \ {n}
  /\ UNCHANGED records

TableNext == \E n \in Name : Begin(n) \/ Publish(n) \/ Finish(n)

TableSpec == TableInit /\ [][TableNext]_tableVars
=============================================================================
