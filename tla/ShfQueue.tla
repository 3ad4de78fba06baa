------------------------------ MODULE ShfQueue ------------------------------
(***************************************************************************)
(* The IPC queues of SharedHashFile (shf.c): linked lists of item numbers. *)
(* The queues themselves are changed under a lock; each process has lists  *)
(* of its own, for pushing and for pulling, that it changes without it.    *)
(* The links of all lists are in the one array qiids in shared memory.     *)
(*                                                                         *)
(* A call is up to three steps: the change of the list for pushing,        *)
(* shf_q_flush, which holds the lock for writing all the time, and the     *)
(* change of the list for pulling.  The links in the other direction,      *)
(* qiids[].last, are written but never read; they are left out.            *)
(***************************************************************************)
EXTENDS Integers, Sequences

CONSTANTS Procs,            \* processes that have called shf_q_new or shf_q_get
          qs, q_items, qids_nolock_max,
          NONE              \* SHF_QID_NONE and SHF_QIID_NONE

\* The assertions of shf_q_new.
ASSUME QueueAssumption ==
  /\ qs \in Nat /\ q_items \in Nat /\ qids_nolock_max \in Nat
  /\ qs > 2 /\ q_items > 1
  /\ 0 < qids_nolock_max /\ qids_nolock_max < q_items
  /\ NONE \notin Nat

Qids  == 0..(qs - 1)
Items == 0..(q_items - 1)

VARIABLES
  qids,              \* tail, head and size of each queue
  next,              \* qiids[].next
  qids_nolock_push,  \* tail, head and size of each process's lists
  qids_nolock_pull,
  held,              \* items that a process has pulled and not pushed again
  pc, pull_qid       \* where each process is, and the queue it pulls from

lists == <<qids, next, qids_nolock_push, qids_nolock_pull>>
vars == <<lists, held, pc, pull_qid>>

Empty == [tail |-> NONE, head |-> NONE, size |-> 0]

\* shf_q_new: all items are in queue 0.
Init ==
  /\ qids = [q \in Qids |->
               IF q = 0 THEN [tail |-> 0, head |-> q_items - 1, size |-> q_items]
                        ELSE Empty]
  /\ next = [i \in Items |-> IF i = q_items - 1 THEN NONE ELSE i + 1]
  /\ qids_nolock_push = [p \in Procs |-> [q \in Qids |-> Empty]]
  /\ qids_nolock_pull = [p \in Procs |-> [q \in Qids |-> Empty]]
  /\ held = [p \in Procs |-> {}]
  /\ pc = [p \in Procs |-> "idle"]
  /\ pull_qid = [p \in Procs |-> NONE]

-----------------------------------------------------------------------------
(***************************************************************************)
(* Lists.  Linked(nx, l, m) are the links after list m is hung behind list *)
(* l, and Joined(l, m) is the list they make.                              *)
(***************************************************************************)
\* Mutation: the last item keeps the link it had.
LinkedOpen(nx, l, m) ==
  IF l.head = NONE THEN nx ELSE [nx EXCEPT ![l.head] = m.tail]

Linked(nx, l, m) ==
  LET ended == [nx EXCEPT ![m.head] = NONE]
  IN  IF l.head = NONE THEN ended ELSE [ended EXCEPT ![l.head] = m.tail]

Joined(l, m) ==
  [tail |-> IF l.head = NONE THEN m.tail ELSE l.tail,
   head |-> m.head, size |-> l.size + m.size]

\* The item n links after i.
Along(nx, i, n) ==
  LET item[k \in 0..n] == IF k = 0 THEN i ELSE nx[item[k - 1]] IN item[n]

\* A list of just the item i.
Single(i) == [tail |-> i, head |-> i, size |-> 1]

Full(l) == l.size >= qids_nolock_max

-----------------------------------------------------------------------------
(***************************************************************************)
(* The calls.                                                              *)
(***************************************************************************)
\* The item goes to the head of the list for pushing.
Push(p, q, i) ==
  /\ i \in held[p]
  /\ held' = [held EXCEPT ![p] = @ \ {i}]
  /\ next' = Linked(next, qids_nolock_push[p][q], Single(i))
  /\ qids_nolock_push' = [qids_nolock_push EXCEPT ![p][q] = Joined(@, Single(i))]
  /\ UNCHANGED <<qids, qids_nolock_pull>>

\* shf_q_push_head
PushHead(p, q, i) ==
  /\ pc[p] = "idle"
  /\ Push(p, q, i)
  /\ pc' = [pc EXCEPT ![p] = IF Full(qids_nolock_push'[p][q]) THEN "flush" ELSE @]
  /\ UNCHANGED pull_qid

\* Mutation: an empty list for pulling is not filled.
FlushIfFull(p, q, from) == IF Full(qids_nolock_push'[p][q]) THEN "flush" ELSE "take"

\* When a call that pushes and pulls needs the lock.
FlushOrTake(p, q, from) ==
  IF Full(qids_nolock_push'[p][q]) \/ qids_nolock_pull[p][from].size = 0
    THEN "flush" ELSE "take"

\* shf_q_push_head_pull_tail, with or without an item to push
PushHeadPullTail(p, q, from) ==
  /\ pc[p] = "idle"
  /\ \/ \E i \in Items : Push(p, q, i)
     \/ UNCHANGED <<lists, held>>
  /\ pull_qid' = [pull_qid EXCEPT ![p] = from]
  /\ pc' = [pc EXCEPT ![p] = FlushOrTake(p, q, from)]

\* shf_q_pull_tail
PullTail(p, from) ==
  /\ pc[p] = "idle"
  /\ pull_qid' = [pull_qid EXCEPT ![p] = from]
  /\ pc' = [pc EXCEPT ![p] =
              IF qids_nolock_pull[p][from].size = 0 THEN "flush" ELSE "take"]
  /\ UNCHANGED <<lists, held>>

\* The first n items of a list, and what is left of it.
Front(nx, l, n) ==
  [tail |-> l.tail, head |-> Along(nx, l.tail, n - 1), size |-> n]

\* Mutation: the rest begins with the last item that was taken.
RestOverlaps(nx, l, n) ==
  IF l.size = n THEN Empty
  ELSE [l EXCEPT !.tail = Along(nx, l.tail, n - 1), !.size = @ - n]

Rest(nx, l, n) ==
  IF l.size = n THEN Empty
  ELSE [l EXCEPT !.tail = nx[Along(nx, l.tail, n - 1)], !.size = @ - n]

\* How many items shf_q_flush gives p from a queue of that size.
ToPull(p, size) ==
  LET room == qids_nolock_max - qids_nolock_pull[p][pull_qid[p]].size
      most == IF room > 0 THEN room ELSE 0
  IN  IF size < most THEN size ELSE most

\* The queues that p pushes its lists onto.
Emptied(p) == {q \in Qids : qids_nolock_push[p][q].size > 0}

\* The links after all lists for pushing are hung behind their queues, and what
\* becomes of the queues.
Hung(p) ==
  LET after[k \in 0..qs] ==
        IF k = 0 THEN next
        ELSE IF (k - 1) \in Emptied(p)
               THEN Linked(after[k - 1], qids[k - 1], qids_nolock_push[p][k - 1])
               ELSE after[k - 1]
  IN  after[qs]

Grown(p) ==
  [r \in Qids |-> IF r \in Emptied(p) THEN Joined(qids[r], qids_nolock_push[p][r])
                                      ELSE qids[r]]

\* shf_q_flush: all lists for pushing are emptied; then the list for pulling is
\* filled from its queue.
Flush(p) ==
  LET q    == pull_qid[p]
      nx   == Hung(p)
      all  == Grown(p)
      n    == IF q = NONE THEN 0 ELSE ToPull(p, all[q].size)
      part == Front(nx, all[q], n)
  IN  /\ pc[p] = "flush"
      /\ qids_nolock_push' = [qids_nolock_push EXCEPT ![p] =
           [r \in Qids |-> IF r \in Emptied(p) THEN Empty ELSE @[r]]]
      /\ IF n = 0
           THEN qids' = all /\ next' = nx /\ UNCHANGED qids_nolock_pull
           ELSE /\ qids' = [all EXCEPT ![q] = Rest(nx, @, n)]
                /\ next' = Linked(nx, qids_nolock_pull[p][q], part)
                /\ qids_nolock_pull' =
                     [qids_nolock_pull EXCEPT ![p][q] = Joined(@, part)]
      /\ pc' = [pc EXCEPT ![p] = IF q = NONE THEN "idle" ELSE "take"]
      /\ UNCHANGED <<held, pull_qid>>

\* Mutation: the item is taken off the end where lists grow.
TakeHead(p) ==
  LET q == pull_qid[p]
      l == qids_nolock_pull[p][q]
  IN  /\ pc[p] = "take"
      /\ IF l.size = 0
           THEN UNCHANGED <<qids_nolock_pull, held>>
           ELSE /\ held' = [held EXCEPT ![p] = @ \cup {l.head}]
                /\ qids_nolock_pull' = [qids_nolock_pull EXCEPT ![p][q] =
                     [@ EXCEPT !.head = l.tail, !.size = @ - 1]]
      /\ pc' = [pc EXCEPT ![p] = "idle"]
      /\ pull_qid' = [pull_qid EXCEPT ![p] = NONE]
      /\ UNCHANGED <<qids, next, qids_nolock_push>>

\* The end of a pull: nothing, or the item at the tail.
Take(p) ==
  LET q == pull_qid[p]
      l == qids_nolock_pull[p][q]
  IN  /\ pc[p] = "take"
      /\ IF l.size = 0
           THEN UNCHANGED <<qids_nolock_pull, held>>
           ELSE /\ held' = [held EXCEPT ![p] = @ \cup {l.tail}]
                /\ qids_nolock_pull' = [qids_nolock_pull EXCEPT ![p][q] =
                     [tail |-> next[l.tail],
                      head |-> IF next[l.tail] = NONE THEN NONE ELSE l.head,
                      size |-> l.size - 1]]
      /\ pc' = [pc EXCEPT ![p] = "idle"]
      /\ pull_qid' = [pull_qid EXCEPT ![p] = NONE]
      /\ UNCHANGED <<qids, next, qids_nolock_push>>

Work(p) == Flush(p) \/ Take(p)

Pulls(p) ==
  /\ pc[p] = "idle"
  /\ \E q \in Qids : \/ PullTail(p, q)
                     \/ \E from \in Qids : PushHeadPullTail(p, q, from)

Next ==
  \E p \in Procs :
    \/ Work(p) \/ Pulls(p)
    \/ \E q \in Qids, i \in Items : PushHead(p, q, i)

Spec == Init /\ [][Next]_vars

\* A call goes on once it has begun, and "Processes poll for (& expect there to
\* be) a new qiid to pull" (shf.h).
FairSpec == Spec /\ \A p \in Procs : WF_vars(Work(p)) /\ WF_vars(Pulls(p))

-----------------------------------------------------------------------------
(***************************************************************************)
(* Properties.                                                             *)
(***************************************************************************)
Lists == [tail : Items \cup {NONE}, head : Items \cup {NONE}, size : 0..q_items]

\* Type invariant; no size goes below zero or above the number of items.
TypeOK ==
  /\ qids \in [Qids -> Lists]
  /\ next \in [Items -> Items \cup {NONE}]
  /\ qids_nolock_push \in [Procs -> [Qids -> Lists]]
  /\ qids_nolock_pull \in [Procs -> [Qids -> Lists]]
  /\ held \in [Procs -> SUBSET Items]
  /\ pc \in [Procs -> {"idle", "flush", "take"}]
  /\ pull_qid \in [Procs -> Qids \cup {NONE}]

\* The items of a list with the links nx, from its tail.
Walk(nx, l) ==
  IF l.size = 0 THEN <<>> ELSE [k \in 1..l.size |-> Along(nx, l.tail, k - 1)]

AllLists ==
  {qids[q] : q \in Qids}
    \cup {qids_nolock_push[p][q] : p \in Procs, q \in Qids}
    \cup {qids_nolock_pull[p][q] : p \in Procs, q \in Qids}

\* The internal assertions of shf_q_flush: from the tail of every list, its size
\* and its links lead to its head, where the list ends.
ListsSound ==
  /\ TypeOK
  /\ \A l \in AllLists :
       IF l.size = 0
         THEN l = Empty
         ELSE Along(next, l.tail, l.size - 1) = l.head /\ next[l.head] = NONE

\* Where an item may be: a queue, a list of a process, or its hands.
Holders ==
  ({"queue"} \X {NONE} \X Qids) \cup ({"push", "pull"} \X Procs \X Qids)
    \cup ({"held"} \X Procs \X {NONE})

ItemsOf(h) ==
  LET of(l) == {Walk(next, l)[k] : k \in 1..l.size}
  IN  CASE h[1] = "queue" -> of(qids[h[3]])
        [] h[1] = "push"  -> of(qids_nolock_push[h[2]][h[3]])
        [] h[1] = "pull"  -> of(qids_nolock_pull[h[2]][h[3]])
        [] h[1] = "held"  -> held[h[2]]

\* shf.h: "Between pulling & pushing a qiid then it 'belongs' to no qid.  This is
\* when the shared memory @ qiid can be accessed safely."  Every item has exactly
\* one place: no item is lost, and none is in two processes' hands.  It is also
\* why a process may change the links of its own lists without the lock.
EachItemOnce ==
  /\ \A h \in Holders : ItemsOf(h) \subseteq Items
  /\ \A i \in Items : \E h \in Holders :
       i \in ItemsOf(h) /\ \A g \in Holders : i \in ItemsOf(g) => g = h

WalkAll(f) == [p \in Procs |-> [q \in Qids |-> Walk(next, f[p][q])]]
WalkQueues == [q \in Qids |-> Walk(next, qids[q])]

Promise == INSTANCE ShfQueuePromise WITH
  queue  <- WalkQueues,
  pushed <- WalkAll(qids_nolock_push),
  ready  <- WalkAll(qids_nolock_pull)

\* The linked lists implement queues: items leave in the order in which they were
\* pushed, and what a process pushed goes to all the queues at once.
KeepsPromise == Promise!Spec

KeepsBack(p) == \E q \in Qids : qids_nolock_push[p][q].size > 0

\* What a process pushed reaches the queue, though it may keep back as many items
\* as it likes below qids_nolock_max, as long as it polls some queue.
Delivered ==
  \A p \in Procs : KeepsBack(p) ~> ~KeepsBack(p)
=============================================================================
