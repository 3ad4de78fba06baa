------------------------------ MODULE MCShfLock ------------------------------
(***************************************************************************)
(* Four processes and as few tickets as four processes need, so that the   *)
(* counters wrap all the time.                                             *)
(***************************************************************************)
EXTENDS ShfRwLock

CONSTANTS p1, p2, p3, p4
=============================================================================
