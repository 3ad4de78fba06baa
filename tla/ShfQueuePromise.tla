--------------------------- MODULE ShfQueuePromise ---------------------------
(***************************************************************************)
(* What the IPC queues of SharedHashFile promise: each queue is a sequence *)
(* of items.  A process has sequences of its own, for each queue, of what  *)
(* it pushed and of what it may pull; now and then everything it pushed    *)
(* goes to the queues, in one step, and it may get items from one of them. *)
(***************************************************************************)
EXTENDS Naturals, Sequences

CONSTANTS Procs, Qids, q_items, qids_nolock_max

VARIABLES queue,    \* the queues that all processes share
          pushed,   \* what a process pushed and the others do not see yet
          ready,    \* what a process got from a queue for its next pulls
          held      \* what a process pulled and has not pushed again

promiseVars == <<queue, pushed, ready, held>>

Init ==
  /\ queue = [q \in Qids |-> IF q = 0 THEN [i \in 1..q_items |-> i - 1] ELSE <<>>]
  /\ pushed = [p \in Procs |-> [q \in Qids |-> <<>>]]
  /\ ready = [p \in Procs |-> [q \in Qids |-> <<>>]]
  /\ held = [p \in Procs |-> {}]

Push(p, q, i) ==
  /\ i \in held[p]
  /\ held' = [held EXCEPT ![p] = @ \ {i}]
  /\ pushed' = [pushed EXCEPT ![p][q] = Append(@, i)]
  /\ UNCHANGED <<queue, ready>>

Pull(p, q) ==
  /\ ready[p][q] # <<>>
  /\ held' = [held EXCEPT ![p] = @ \cup {Head(ready[p][q])}]
  /\ ready' = [ready EXCEPT ![p][q] = Tail(@)]
  /\ UNCHANGED <<queue, pushed>>

\* p's items become everybody's, and then the first n of queue q become p's.
Exchange(p, q) ==
  LET all == [r \in Qids |-> queue[r] \o pushed[p][r]]
  IN  /\ UNCHANGED held
      /\ pushed' = [pushed EXCEPT ![p] = [r \in Qids |-> <<>>]]
      /\ \E n \in 0..Len(all[q]) :
           /\ Len(ready[p][q]) + n <= qids_nolock_max
           /\ queue' = [all EXCEPT ![q] = SubSeq(@, n + 1, Len(@))]
           /\ ready' = [ready EXCEPT ![p][q] = @ \o SubSeq(all[q], 1, n)]

Next ==
  \E p \in Procs, q \in Qids :
    \/ Pull(p, q) \/ Exchange(p, q)
    \/ \E i \in 0..(q_items - 1) : Push(p, q, i)

Spec == Init /\ [][Next]_promiseVars
=============================================================================
