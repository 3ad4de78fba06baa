---------------------------- MODULE RwLockPromise ----------------------------
(***************************************************************************)
(* What the documentation of SharedHashFile promises of its read-write     *)
(* lock (shf.h, "How does the fair read write locking work?"): any number  *)
(* of readers or one writer, and everybody is let in in the order of       *)
(* asking, so that nobody starves.                                         *)
(***************************************************************************)
CONSTANT Procs

VARIABLES wants,    \* what each process waits for: "none", "read", "write"
          before,   \* pairs of waiting processes, the earlier one first
          readers,  \* who may read
          writers   \* who may write

promiseVars == <<wants, before, readers, writers>>

Init ==
  /\ wants = [p \in Procs |-> "none"]
  /\ before = {}
  /\ readers = {} /\ writers = {}

WhoWait == {q \in Procs : wants[q] # "none"}

Ask(p, kind) ==
  /\ wants[p] = "none" /\ p \notin readers \cup writers
  /\ wants' = [wants EXCEPT ![p] = kind]
  /\ before' = before \cup (WhoWait \X {p})
  /\ UNCHANGED <<readers, writers>>

\* Only who has waited longest is let in.
Served(p) ==
  /\ \A q \in Procs : <<q, p>> \notin before
  /\ wants' = [wants EXCEPT ![p] = "none"]
  /\ before' = before \ ({p} \X Procs)

\* A reader is let in when nobody writes.
LetRead(p) ==
  /\ wants[p] = "read" /\ Served(p)
  /\ writers = {}
  /\ readers' = readers \cup {p} /\ UNCHANGED writers

\* A writer is let in when nobody is inside.
LetWrite(p) ==
  /\ wants[p] = "write" /\ Served(p)
  /\ readers = {} /\ writers = {}
  /\ writers' = {p} /\ UNCHANGED readers

Leave(p) ==
  /\ p \in readers \cup writers
  /\ readers' = readers \ {p} /\ writers' = writers \ {p}
  /\ UNCHANGED <<wants, before>>

Next ==
  \E p \in Procs : \/ Ask(p, "read") \/ Ask(p, "write")
                   \/ LetRead(p) \/ LetWrite(p) \/ Leave(p)

Spec == Init /\ [][Next]_promiseVars
=============================================================================
