----------------------------- MODULE MCShfQueue -----------------------------
(***************************************************************************)
(* Two processes, three queues and three items, of which a process keeps   *)
(* up to one back before it flushes.                                       *)
(***************************************************************************)
EXTENDS ShfQueue
=============================================================================
