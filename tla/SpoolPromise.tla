---------------------------- MODULE SpoolPromise ----------------------------
(***************************************************************************)
(* What the spool directory promises about each capture file, whoever      *)
(* handles it: it arrives, is taken once, is read at most once and only    *)
(* while it is taken, is completed only after it was read, and is removed. *)
(***************************************************************************)
EXTENDS Naturals

CONSTANT Files

VARIABLES fstate, reads

vars == <<fstate, reads>>

Init ==
  /\ fstate = [f \in Files |-> "absent"]
  /\ reads  = [f \in Files |-> 0]

Move(f, from, to) ==
  /\ fstate[f] \in from
  /\ fstate' = [fstate EXCEPT ![f] = to]
  /\ UNCHANGED reads

Arrive(f) == Move(f, {"absent"}, "ready")

Take(f) == Move(f, {"ready"}, "taken")

Read(f) ==
  /\ fstate[f] = "taken" /\ reads[f] = 0
  /\ reads' = [reads EXCEPT ![f] = 1]
  /\ UNCHANGED fstate

Finish(f) == reads[f] = 1 /\ Move(f, {"taken"}, "completed")

Remove(f) == Move(f, {"ready", "taken", "completed"}, "removed")

Next ==
  \E f \in Files :
    Arrive(f) \/ Take(f) \/ Read(f) \/ Finish(f) \/ Remove(f)

Spec == Init /\ [][Next]_vars
=============================================================================
