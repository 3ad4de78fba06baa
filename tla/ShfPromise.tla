----------------------------- MODULE ShfPromise -----------------------------
(***************************************************************************)
(* What SharedHashFile promises its callers: a bag of keys and values      *)
(* where each has its UID.  Putting a key that is stored stores it again;  *)
(* finding or deleting a key takes one of those stored; what is found by   *)
(* its UID is what was put there.                                          *)
(***************************************************************************)
CONSTANTS Keys, Vals, Uids, NULL

VARIABLES store,   \* what is stored: triples <<uid, key, value>>
          reply    \* what the call that just ended returned, or NULL

promiseVars == <<store, reply>>

Init == store = {} /\ reply = NULL

Returns(r) == reply' = r

\* A step inside a call, of which no caller sees anything.
Work == Returns(NULL) /\ UNCHANGED store

Put(k, v) ==
  \E u \in Uids : /\ \A e \in store : e[1] # u
                  /\ store' = store \cup {<<u, k, v>>}
                  /\ Returns(u)

WithKey(k) == {e \in store : e[2] = k}
WithUid(u) == {e \in store : e[1] = u}

\* One of what is asked for, or NULL when there is none.
Find(entries) ==
  /\ UNCHANGED store
  /\ \/ \E e \in entries : Returns(e[3])
     \/ entries = {} /\ Returns(NULL)

Delete(entries) ==
  \/ \E e \in entries : store' = store \ {e} /\ Returns(<<"deleted">>)
  \/ entries = {} /\ Returns(NULL) /\ UNCHANGED store

Next ==
  \/ Work
  \/ \E k \in Keys, v \in Vals : Put(k, v)
  \/ \E k \in Keys : Find(WithKey(k)) \/ Delete(WithKey(k))
  \/ \E u \in Uids : Find(WithUid(u)) \/ Delete(WithUid(u))

Spec == Init /\ [][Next]_promiseVars
=============================================================================
