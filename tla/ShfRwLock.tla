------------------------------ MODULE ShfRwLock ------------------------------
(***************************************************************************)
(* The read-write ticket lock of SharedHashFile (shf.lock.h), which lives  *)
(* in shared memory: one for each window of a table, one for the queues    *)
(* and one for the log.                                                    *)
(*                                                                         *)
(* A ticket is one byte.  Each byte is followed by a byte of padding that  *)
(* takes the carry of an atomic addition and is set to zero after it, so a *)
(* counter goes from 255 to 0 and leaves its neighbour alone.              *)
(***************************************************************************)
EXTENDS Integers, FiniteSets

CONSTANTS Procs,    \* threads and processes that use the lock
          TICKETS   \* the number of tickets, 256 in the code

ASSUME TicketsAssumption == TICKETS \in Nat \ {0}

\* Two processes never hold the same ticket.
ASSUME ProcsAssumption == IsFiniteSet(Procs) /\ Cardinality(Procs) <= TICKETS

VARIABLES ticket_next, ticket_active_reader, ticket_active_writer,
          pc,      \* where each process is
          ticket   \* the local ticket_next_pre_inc of each process

tickets == <<ticket_next, ticket_active_reader, ticket_active_writer>>
vars == <<tickets, pc, ticket>>

Init ==
  /\ ticket_next = 0 /\ ticket_active_reader = 0 /\ ticket_active_writer = 0
  /\ pc = [p \in Procs |-> "idle"]
  /\ ticket = [p \in Procs |-> 0]

Inc(t) == (t + 1) % TICKETS

Goto(p, from, to) == pc[p] = from /\ pc' = [pc EXCEPT ![p] = to]

TakeTicket(p) ==
  /\ ticket' = [ticket EXCEPT ![p] = ticket_next]
  /\ ticket_next' = Inc(ticket_next)
  /\ UNCHANGED <<ticket_active_reader, ticket_active_writer>>

-----------------------------------------------------------------------------
(***************************************************************************)
(* shf_rw_lock_writer and shf_rw_unlock_writer                             *)
(***************************************************************************)
LockWriter(p) == Goto(p, "idle", "spin_writer") /\ TakeTicket(p)

\* Mutation: the writer waits for the readers' counter.
WriterEntersEarly(p) ==
  /\ Goto(p, "spin_writer", "writer")
  /\ ticket[p] = ticket_active_reader
  /\ UNCHANGED <<tickets, ticket>>

\* Mutation: a writer whose turn has come lets those behind it go first.
WriterYields(p) ==
  /\ ticket[p] = ticket_active_writer
  /\ IF Inc(ticket[p]) = ticket_next
       THEN Goto(p, "spin_writer", "writer") /\ UNCHANGED <<tickets, ticket>>
       ELSE /\ Goto(p, "spin_writer", "spin_writer")
            /\ ticket' = [ticket EXCEPT ![p] = ticket_next]
            /\ ticket_next' = Inc(ticket_next)
            /\ ticket_active_writer' = Inc(ticket_active_writer)
            /\ ticket_active_reader' = Inc(ticket_active_reader)

WriterEnters(p) ==
  /\ Goto(p, "spin_writer", "writer")
  /\ ticket[p] = ticket_active_writer
  /\ UNCHANGED <<tickets, ticket>>

\* One addition moves both counters.
UnlockWriter(p) ==
  /\ Goto(p, "writer", "idle")
  /\ ticket_active_writer' = Inc(ticket_active_writer)
  /\ ticket_active_reader' = Inc(ticket_active_reader)
  /\ UNCHANGED <<ticket_next, ticket>>

(***************************************************************************)
(* shf_rw_lock_reader and shf_rw_unlock_reader                             *)
(***************************************************************************)
LockReader(p) == Goto(p, "idle", "spin_reader") /\ TakeTicket(p)

ReaderEnters(p) ==
  /\ Goto(p, "spin_reader", "passed")
  /\ ticket[p] = ticket_active_reader
  /\ UNCHANGED <<tickets, ticket>>

\* Mutation: the reader lets the next writer in, too.
LetAllIn(p) ==
  /\ Goto(p, "passed", "reader")
  /\ ticket_active_reader' = Inc(ticket_active_reader)
  /\ ticket_active_writer' = Inc(ticket_active_writer)
  /\ UNCHANGED <<ticket_next, ticket>>

\* The reader behind, if the next ticket is a reader's, may enter too.
LetNextIn(p) ==
  /\ Goto(p, "passed", "reader")
  /\ ticket_active_reader' = Inc(ticket_active_reader)
  /\ UNCHANGED <<ticket_next, ticket_active_writer, ticket>>

UnlockReader(p) ==
  /\ Goto(p, "reader", "idle")
  /\ ticket_active_writer' = Inc(ticket_active_writer)
  /\ UNCHANGED <<ticket_next, ticket_active_reader, ticket>>

Step(p) ==
  \/ WriterEnters(p) \/ UnlockWriter(p)
  \/ ReaderEnters(p) \/ LetNextIn(p) \/ UnlockReader(p)

Next == \E p \in Procs : LockWriter(p) \/ LockReader(p) \/ Step(p)

Spec == Init /\ [][Next]_vars

\* A process that spins or is inside goes on; nobody has to ask.
FairSpec == Spec /\ \A p \in Procs : WF_vars(Step(p))

-----------------------------------------------------------------------------
At(where) == {p \in Procs : pc[p] = where}

Writers == At("writer")

\* A reader is inside from the moment its spinning ends.
Readers == At("passed") \cup At("reader")

Waiting == At("spin_writer") \cup At("spin_reader")

\* The types of the variables.
TypeOK ==
  /\ ticket_next \in 0..(TICKETS - 1)
  /\ ticket_active_reader \in 0..(TICKETS - 1)
  /\ ticket_active_writer \in 0..(TICKETS - 1)
  /\ pc \in [Procs -> {"idle", "spin_writer", "writer", "spin_reader",
                       "passed", "reader"}]
  /\ ticket \in [Procs -> 0..(TICKETS - 1)]

\* "Only one thread or process can write at one time", and nobody reads
\* meanwhile, although entering and letting the next in are two steps and
\* the tickets start again from 0.
Exclusion ==
  \A p \in Writers : Writers = {p} /\ Readers = {}

\* "Read or write starvation cannot occur due to a ticketing system": who has
\* taken a ticket gets in, whoever else comes again and again.
NoStarvation == \A p \in Procs : p \in Waiting ~> p \in Readers \cup Writers

(***************************************************************************)
(* The promise.  The tickets of who waits follow one another from the one  *)
(* that is let in next up to ticket_next.                                  *)
(***************************************************************************)
\* How far a ticket is from the one that is let in next.
Ahead(t) == (t - ticket_active_reader) % TICKETS

Wants ==
  [p \in Procs |-> CASE pc[p] = "spin_reader" -> "read"
                     [] pc[p] = "spin_writer" -> "write"
                     [] OTHER -> "none"]

Before ==
  {x \in Waiting \X Waiting : Ahead(ticket[x[1]]) < Ahead(ticket[x[2]])}

Promise ==
  INSTANCE RwLockPromise WITH wants <- Wants, before <- Before,
                              readers <- Readers, writers <- Writers

\* The lock implements the promise of the documentation: first come, first
\* served, for readers and writers alike.
FirstComeFirstServed == Promise!Spec
=============================================================================
