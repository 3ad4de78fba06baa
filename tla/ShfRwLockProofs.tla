--------------------------- MODULE ShfRwLockProofs ---------------------------
(***************************************************************************)
(* Proofs about ShfRwLock, for any number of tickets and any set of        *)
(* processes that is no larger.                                            *)
(*                                                                         *)
(* The tickets are remainders of counters that never wrap: N tickets have  *)
(* been taken, R of them let in and W of them given back; T[p] is the      *)
(* number of p's ticket.  At most as many tickets are in use as there are  *)
(* processes, so that no two of them have the same remainder.              *)
(***************************************************************************)
EXTENDS ShfRwLock, FiniteSetTheorems, TLAPS

-----------------------------------------------------------------------------
(***************************************************************************)
(* Remainders.                                                             *)
(***************************************************************************)
\* The remainder of a counter is a ticket.
LEMMA ModRange ==
  ASSUME NEW m \in Nat \ {0}, NEW a \in Int
  PROVE  a % m \in 0..(m - 1)
  OBVIOUS

\* Quotient and remainder.
LEMMA ModSplit ==
  ASSUME NEW m \in Nat \ {0}, NEW a \in Int
  PROVE  /\ a \div m \in Int
         /\ a = (a \div m) * m + (a % m)
  BY Z3

\* The only multiple of m between -m and m is 0.
LEMMA Multiple ==
  ASSUME NEW m \in Nat \ {0}, NEW d \in Int, d * m < m, -m < d * m
  PROVE  d = 0
<1>1. d >= 1 => d * m >= m
  BY Z3
<1>2. d <= -1 => d * m <= -m
  BY Z3
<1> QED
  BY <1>1, <1>2

\* A remainder is what is left of the counter after whole rounds.
LEMMA ModUnique ==
  ASSUME NEW m \in Nat \ {0}, NEW k \in Int, NEW r \in 0..(m - 1)
  PROVE  (k * m + r) % m = r
<1> DEFINE a == k * m + r
           q == a \div m
           s == a % m
<1>1. a \in Int
  OBVIOUS
<1>2. q \in Int /\ a = q * m + s /\ s \in 0..(m - 1)
  BY <1>1, ModSplit, ModRange, SMTT(30)
<1> HIDE DEF q, s
<1>3. (k - q) * m = s - r
  <2>1. (k - q) * m = k * m - q * m
    BY <1>2
  <2> QED
    BY <2>1, <1>2
<1>4. (k - q) * m < m /\ -m < (k - q) * m
  BY <1>3, <1>2
<1>5. k - q = 0
  BY <1>4, <1>2, Multiple
<1>6. s = r
  BY <1>3, <1>5, <1>2
<1> QED
  BY <1>6 DEF s

\* Adding one to the ticket is adding one to the counter behind it.
LEMMA ModInc ==
  ASSUME NEW m \in Nat \ {0}, NEW a \in Nat
  PROVE  ((a % m) + 1) % m = (a + 1) % m
<1> DEFINE q == a \div m
           t == (a + 1) \div m
           u == a % m
           r == (a + 1) % m
           k == t - q
<1>1. q \in Int /\ a = q * m + u /\ u \in 0..(m - 1)
  BY ModSplit, ModRange
<1>2. t \in Int /\ a + 1 = t * m + r /\ r \in 0..(m - 1)
  BY ModSplit, ModRange
<1> HIDE DEF q, t, u, r
<1>3. k \in Int /\ k * m = t * m - q * m
  BY <1>1, <1>2
<1> HIDE DEF k
<1>4. u + 1 = k * m + r
  BY <1>1, <1>2, <1>3
<1>5. (k * m + r) % m = r
  BY <1>2, <1>3, ModUnique
<1>6. (u + 1) % m = r
  BY <1>4, <1>5
<1> QED
  BY <1>6 DEF u, r

\* Counters less than one round apart differ by the difference of tickets.
LEMMA ModDiff ==
  ASSUME NEW m \in Nat \ {0}, NEW a \in Nat, NEW b \in Nat,
         b <= a, a < b + m
  PROVE  ((a % m) - (b % m)) % m = a - b
<1> DEFINE q == a \div m
           t == b \div m
           u == a % m
           v == b % m
           k == t - q
           r == a - b
<1>1. q \in Int /\ a = q * m + u /\ u \in 0..(m - 1)
  BY ModSplit, ModRange
<1>2. t \in Int /\ b = t * m + v /\ v \in 0..(m - 1)
  BY ModSplit, ModRange
<1>3. r \in 0..(m - 1)
  OBVIOUS
<1> HIDE DEF q, t, u, v
<1>4. k \in Int /\ k * m = t * m - q * m
  BY <1>1, <1>2
<1> HIDE DEF k
<1>5. u - v = k * m + r
  BY <1>1, <1>2, <1>4
<1> HIDE DEF r
<1>6. (k * m + r) % m = r
  BY <1>3, <1>4, ModUnique
<1>7. (u - v) % m = r
  BY <1>5, <1>6
<1> QED
  BY <1>7 DEF u, v, r

\* Counters less than one round apart with the same ticket are the same.
LEMMA ModEqual ==
  ASSUME NEW m \in Nat \ {0}, NEW a \in Nat, NEW b \in Nat,
         b <= a, a < b + m, a % m = b % m
  PROVE  a = b
<1> DEFINE u == a % m
           v == b % m
<1>1. (u - v) % m = a - b
  BY ModDiff
<1>2. u = v /\ u \in 0..(m - 1)
  BY ModRange
<1> HIDE DEF u, v
<1>3. u - v = 0
  BY <1>2
<1>4. 0 % m = 0
  OBVIOUS
<1>5. a - b = 0
  BY <1>1, <1>3, <1>4
<1> QED
  BY <1>5

-----------------------------------------------------------------------------
(***************************************************************************)
(* The inductive invariant.                                                *)
(***************************************************************************)
Active == {p \in Procs : pc[p] # "idle"}

Inside == At("reader")

\* Who has a ticket that ticket_active_reader has not gone past.
Pending == {p \in Procs : pc[p] \in {"spin_writer", "writer",
                                     "spin_reader", "passed"}}

Counters(N, R, W, T) ==
  /\ W <= R /\ R <= N
  /\ ticket_next = N % TICKETS
  /\ ticket_active_reader = R % TICKETS
  /\ ticket_active_writer = W % TICKETS
  /\ \A p \in Procs : ticket[p] = T[p] % TICKETS
  /\ Cardinality(Active) = N - W
  /\ Cardinality(Inside) = R - W
  /\ \A p \in Pending : R <= T[p] /\ T[p] < N
  /\ \A p, q \in Pending : T[p] = T[q] => p = q
  /\ \A p \in Procs : pc[p] = "passed" => T[p] = R
  /\ \A p \in Procs : pc[p] = "writer" => T[p] = R /\ W = R

IInv ==
  /\ TypeOK
  /\ \E N, R, W \in Nat, T \in [Procs -> Nat] : Counters(N, R, W, T)

\* Sets of processes are finite, and no more tickets are out than there are.
LEMMA Small ==
  /\ IsFiniteSet(Active) /\ Cardinality(Active) \in Nat
  /\ IsFiniteSet(Inside) /\ Cardinality(Inside) \in Nat
  /\ Cardinality(Active) <= TICKETS
<1>1. Active \in SUBSET Procs /\ Inside \in SUBSET Procs
  BY DEF Active, Inside, At
<1>2. /\ IsFiniteSet(Active) /\ Cardinality(Active) <= Cardinality(Procs)
      /\ IsFiniteSet(Inside)
  BY <1>1, FS_Subset, ProcsAssumption
<1>3. /\ Cardinality(Active) \in Nat /\ Cardinality(Inside) \in Nat
      /\ Cardinality(Procs) \in Nat
  BY <1>2, FS_CardinalityType, ProcsAssumption
<1> QED
  BY <1>2, <1>3, ProcsAssumption, TicketsAssumption

\* Nobody has asked.
LEMMA InitIInv == Init => IInv
<1> SUFFICES ASSUME Init PROVE IInv
  OBVIOUS
<1>1. 0 % TICKETS = 0 /\ 0 \in 0..(TICKETS - 1)
  BY TicketsAssumption
<1>2. TypeOK
  BY <1>1 DEF Init, TypeOK
<1>3. Active = {} /\ Inside = {} /\ Pending = {}
  BY DEF Init, Active, Inside, Pending, At
<1>4. Cardinality(Active) = 0 /\ Cardinality(Inside) = 0
  BY <1>3, FS_EmptySet
<1> DEFINE T == [p \in Procs |-> 0]
<1>5. Counters(0, 0, 0, T)
  BY <1>1, <1>3, <1>4 DEF Init, Counters
<1>6. T \in [Procs -> Nat]
  OBVIOUS
<1> QED
  BY <1>2, <1>5, <1>6 DEF IInv

\* A ticket stays a byte.
LEMMA TypeStep == TypeOK /\ [Next]_vars => TypeOK'
<1> SUFFICES ASSUME TypeOK, [Next]_vars PROVE TypeOK'
  OBVIOUS
<1>1. \A t \in 0..(TICKETS - 1) : Inc(t) \in 0..(TICKETS - 1)
  BY TicketsAssumption, ModRange DEF Inc
<1>2. CASE UNCHANGED vars
  BY <1>2 DEF TypeOK, vars, tickets
<1>3. CASE Next
  <2>1. PICK p \in Procs : LockWriter(p) \/ LockReader(p) \/ Step(p)
    BY <1>3 DEF Next
  <2>2. CASE LockWriter(p)
    BY <2>2, <1>1 DEF LockWriter, Goto, TakeTicket, TypeOK
  <2>3. CASE LockReader(p)
    BY <2>3, <1>1 DEF LockReader, Goto, TakeTicket, TypeOK
  <2>4. CASE WriterEnters(p)
    BY <2>4 DEF WriterEnters, Goto, TypeOK, tickets
  <2>5. CASE UnlockWriter(p)
    BY <2>5, <1>1 DEF UnlockWriter, Goto, TypeOK
  <2>6. CASE ReaderEnters(p)
    BY <2>6 DEF ReaderEnters, Goto, TypeOK, tickets
  <2>7. CASE LetNextIn(p)
    BY <2>7, <1>1 DEF LetNextIn, Goto, TypeOK
  <2>8. CASE UnlockReader(p)
    BY <2>8, <1>1 DEF UnlockReader, Goto, TypeOK
  <2> QED
    BY <2>1, <2>2, <2>3, <2>4, <2>5, <2>6, <2>7, <2>8 DEF Step
<1> QED
  BY <1>2, <1>3

(***************************************************************************)
(* What each action does to the counters.                                  *)
(***************************************************************************)
\* Taking a ticket: N grows.
LEMMA Asks ==
  ASSUME TypeOK, NEW N \in Nat, NEW R \in Nat, NEW W \in Nat,
         NEW T \in [Procs -> Nat], Counters(N, R, W, T),
         NEW p \in Procs, LockWriter(p) \/ LockReader(p)
  PROVE  Counters(N + 1, R, W, [T EXCEPT ![p] = N])'
<1> DEFINE U == [T EXCEPT ![p] = N]
<1>1. PICK to \in {"spin_writer", "spin_reader"} :
        pc[p] = "idle" /\ pc' = [pc EXCEPT ![p] = to]
  BY DEF LockWriter, LockReader, Goto
<1>2. /\ ticket' = [ticket EXCEPT ![p] = ticket_next]
      /\ ticket_next' = Inc(ticket_next)
      /\ ticket_active_reader' = ticket_active_reader
      /\ ticket_active_writer' = ticket_active_writer
  BY DEF LockWriter, LockReader, TakeTicket
<1>3. ticket_next' = (N + 1) % TICKETS
  BY <1>2, ModInc, TicketsAssumption DEF Counters, Inc
<1>4. \A q \in Procs : ticket'[q] = U[q] % TICKETS
  BY <1>2 DEF Counters, TypeOK
<1>5. Active' = Active \cup {p} /\ p \notin Active
  BY <1>1 DEF Active, TypeOK
<1>6. Inside' = Inside
  BY <1>1 DEF Inside, At, TypeOK
<1>7. Cardinality(Active') = N + 1 - W
  <2>1. Cardinality(Active \cup {p}) = Cardinality(Active) + 1
    BY <1>5, Small, FS_AddElement
  <2> QED
    BY <2>1, <1>5 DEF Counters
<1>8. Pending' = Pending \cup {p} /\ p \notin Pending
  BY <1>1 DEF Pending, TypeOK
<1>9. \A q \in Pending' : R <= U[q] /\ U[q] < N + 1
  BY <1>8 DEF Counters, Pending
<1>10. \A q, r \in Pending' : U[q] = U[r] => q = r
  BY <1>8 DEF Counters, Pending
<1>11. \A q \in Procs : pc'[q] = "passed" => U[q] = R
  BY <1>1 DEF Counters, TypeOK
<1>12. \A q \in Procs : pc'[q] = "writer" => U[q] = R /\ W = R
  BY <1>1 DEF Counters, TypeOK
<1>13. W <= R /\ R <= N + 1
  BY DEF Counters
<1>14. /\ Cardinality(Inside') = R - W
       /\ ticket_active_reader' = R % TICKETS
       /\ ticket_active_writer' = W % TICKETS
  BY <1>2, <1>6 DEF Counters
<1> HIDE DEF U
<1>15. Counters(N + 1, R, W, U)'
  BY <1>3, <1>4, <1>7, <1>9, <1>10, <1>11, <1>12, <1>13, <1>14 DEF Counters
<1> QED
  BY <1>15 DEF U

\* The writer whose spinning ends has the first ticket not given back, so
\* that nobody is inside.
LEMMA WriterIsNext ==
  ASSUME TypeOK, NEW N \in Nat, NEW R \in Nat, NEW W \in Nat,
         NEW T \in [Procs -> Nat], Counters(N, R, W, T),
         NEW p \in Procs, WriterEnters(p)
  PROVE  T[p] = R /\ W = R /\ Counters(N, R, W, T)'
<1>1. /\ pc[p] = "spin_writer" /\ pc' = [pc EXCEPT ![p] = "writer"]
      /\ ticket[p] = ticket_active_writer
      /\ ticket' = ticket /\ ticket_next' = ticket_next
      /\ ticket_active_reader' = ticket_active_reader
      /\ ticket_active_writer' = ticket_active_writer
  BY DEF WriterEnters, Goto, tickets
<1>2. p \in Pending
  BY <1>1 DEF Pending
<1>3. R <= T[p] /\ T[p] < N /\ N - W <= TICKETS /\ T[p] \in Nat
  BY <1>2, Small DEF Counters
<1>4. T[p] % TICKETS = W % TICKETS
  BY <1>1 DEF Counters
<1>5. W <= T[p] /\ T[p] < W + TICKETS
  BY <1>3, TicketsAssumption DEF Counters
<1>6. T[p] = W
  BY <1>3, <1>4, <1>5, ModEqual, TicketsAssumption
<1>7. T[p] = R /\ W = R
  BY <1>3, <1>6 DEF Counters
<1>8. Active' = Active /\ Inside' = Inside /\ Pending' = Pending
  BY <1>1 DEF Active, Inside, At, Pending, TypeOK
<1>9. \A q \in Procs : pc'[q] = "passed" => T[q] = R
  BY <1>1 DEF Counters, TypeOK
<1>10. \A q \in Procs : pc'[q] = "writer" => T[q] = R /\ W = R
  BY <1>1, <1>7 DEF Counters, TypeOK
<1> QED
  BY <1>1, <1>7, <1>8, <1>9, <1>10 DEF Counters

\* The reader whose spinning ends has the first ticket not let in.
LEMMA ReaderIsNext ==
  ASSUME TypeOK, NEW N \in Nat, NEW R \in Nat, NEW W \in Nat,
         NEW T \in [Procs -> Nat], Counters(N, R, W, T),
         NEW p \in Procs, ReaderEnters(p)
  PROVE  T[p] = R /\ Counters(N, R, W, T)'
<1>1. /\ pc[p] = "spin_reader" /\ pc' = [pc EXCEPT ![p] = "passed"]
      /\ ticket[p] = ticket_active_reader
      /\ ticket' = ticket /\ ticket_next' = ticket_next
      /\ ticket_active_reader' = ticket_active_reader
      /\ ticket_active_writer' = ticket_active_writer
  BY DEF ReaderEnters, Goto, tickets
<1>2. p \in Pending
  BY <1>1 DEF Pending
<1>3. R <= T[p] /\ T[p] < N /\ N - W <= TICKETS /\ T[p] \in Nat
  BY <1>2, Small DEF Counters
<1>4. T[p] % TICKETS = R % TICKETS
  BY <1>1 DEF Counters
<1>5. T[p] < R + TICKETS
  BY <1>3, TicketsAssumption DEF Counters
<1>6. T[p] = R
  BY <1>3, <1>4, <1>5, ModEqual, TicketsAssumption
<1>7. Active' = Active /\ Inside' = Inside /\ Pending' = Pending
  BY <1>1 DEF Active, Inside, At, Pending, TypeOK
<1>8. \A q \in Procs : pc'[q] = "passed" => T[q] = R
  BY <1>1, <1>6 DEF Counters, TypeOK
<1>9. \A q \in Procs : pc'[q] = "writer" => T[q] = R /\ W = R
  BY <1>1 DEF Counters, TypeOK
<1> QED
  BY <1>1, <1>6, <1>7, <1>8, <1>9 DEF Counters

\* Letting the next in: R grows and p is inside.
LEMMA LetsIn ==
  ASSUME TypeOK, NEW N \in Nat, NEW R \in Nat, NEW W \in Nat,
         NEW T \in [Procs -> Nat], Counters(N, R, W, T),
         NEW p \in Procs, LetNextIn(p)
  PROVE  T[p] = R /\ Counters(N, R + 1, W, T)'
<1>1. /\ pc[p] = "passed" /\ pc' = [pc EXCEPT ![p] = "reader"]
      /\ ticket_active_reader' = Inc(ticket_active_reader)
      /\ ticket' = ticket /\ ticket_next' = ticket_next
      /\ ticket_active_writer' = ticket_active_writer
  BY DEF LetNextIn, Goto
<1>2. p \in Pending /\ T[p] = R /\ T[p] < N
  BY <1>1 DEF Counters, Pending
<1>3. ticket_active_reader' = (R + 1) % TICKETS
  BY <1>1, ModInc, TicketsAssumption DEF Counters, Inc
<1>4. Active' = Active /\ Pending' = Pending \ {p}
  BY <1>1 DEF Active, Pending, TypeOK
<1>5. Inside' = Inside \cup {p} /\ p \notin Inside
  BY <1>1 DEF Inside, At, TypeOK
<1>6. Cardinality(Inside') = R + 1 - W
  <2>1. Cardinality(Inside \cup {p}) = Cardinality(Inside) + 1
    BY <1>5, Small, FS_AddElement
  <2> QED
    BY <2>1, <1>5 DEF Counters
<1>7. \A q \in Pending' : R + 1 <= T[q] /\ T[q] < N
  <2> SUFFICES ASSUME NEW q \in Pending' PROVE R + 1 <= T[q] /\ T[q] < N
    OBVIOUS
  <2>1. q \in Pending /\ q # p
    BY <1>4
  <2>2. R <= T[q] /\ T[q] < N /\ T[q] # R /\ T[q] \in Nat
    BY <2>1, <1>2 DEF Counters, Pending
  <2> QED
    BY <2>2
<1>8. \A q, r \in Pending' : T[q] = T[r] => q = r
  BY <1>4 DEF Counters
<1>9. \A q \in Procs : pc'[q] # "passed" /\ pc'[q] # "writer"
  <2> SUFFICES ASSUME NEW q \in Procs, q # p
               PROVE  pc[q] # "passed" /\ pc[q] # "writer"
    BY <1>1 DEF TypeOK
  <2>1. pc[q] \in {"passed", "writer"} => q \in Pending /\ T[q] = R
    BY DEF Counters, Pending
  <2> QED
    BY <2>1, <1>2 DEF Counters
<1>10. /\ W <= R + 1 /\ R + 1 <= N
       /\ Cardinality(Active') = N - W
       /\ ticket_next' = N % TICKETS
       /\ ticket_active_writer' = W % TICKETS
       /\ \A q \in Procs : ticket'[q] = T[q] % TICKETS
  BY <1>1, <1>2, <1>4 DEF Counters
<1>11. Counters(N, R + 1, W, T)'
  BY <1>3, <1>6, <1>7, <1>8, <1>9, <1>10 DEF Counters
<1> QED
  BY <1>2, <1>11

\* A reader gives its ticket back: W grows.
LEMMA ReaderLeaves ==
  ASSUME TypeOK, NEW N \in Nat, NEW R \in Nat, NEW W \in Nat,
         NEW T \in [Procs -> Nat], Counters(N, R, W, T),
         NEW p \in Procs, UnlockReader(p)
  PROVE  Counters(N, R, W + 1, T)'
<1>1. /\ pc[p] = "reader" /\ pc' = [pc EXCEPT ![p] = "idle"]
      /\ ticket_active_writer' = Inc(ticket_active_writer)
      /\ ticket' = ticket /\ ticket_next' = ticket_next
      /\ ticket_active_reader' = ticket_active_reader
  BY DEF UnlockReader, Goto
<1>2. ticket_active_writer' = (W + 1) % TICKETS
  BY <1>1, ModInc, TicketsAssumption DEF Counters, Inc
<1>3. Active' = Active \ {p} /\ p \in Active /\ Pending' = Pending
  BY <1>1 DEF Active, Pending, TypeOK
<1>4. Inside' = Inside \ {p} /\ p \in Inside
  BY <1>1 DEF Inside, At, TypeOK
<1>5. Cardinality(Active') = N - (W + 1)
  <2>1. Cardinality(Active \ {p}) = Cardinality(Active) - 1
    BY <1>3, Small, FS_RemoveElement
  <2> QED
    BY <2>1, <1>3 DEF Counters
<1>6. Cardinality(Inside') = R - (W + 1) /\ W + 1 <= R
  <2>1. Cardinality(Inside \ {p}) = Cardinality(Inside) - 1
    BY <1>4, Small, FS_RemoveElement
  <2>2. Cardinality(Inside) # 0
    BY <1>4, Small, FS_EmptySet
  <2> QED
    BY <2>1, <2>2, <1>4, Small DEF Counters
<1>7. \A q \in Procs : pc'[q] = "passed" => T[q] = R
  BY <1>1 DEF Counters, TypeOK
<1>8. \A q \in Procs : pc'[q] # "writer"
  BY <1>1, <1>6 DEF Counters, TypeOK
<1>9. /\ R <= N
      /\ ticket_next' = N % TICKETS
      /\ ticket_active_reader' = R % TICKETS
      /\ \A q \in Procs : ticket'[q] = T[q] % TICKETS
      /\ \A q \in Pending' : R <= T[q] /\ T[q] < N
      /\ \A q, r \in Pending' : T[q] = T[r] => q = r
  BY <1>1, <1>3 DEF Counters
<1> QED
  BY <1>2, <1>5, <1>6, <1>7, <1>8, <1>9 DEF Counters

\* A writer gives its ticket back: R and W grow.
LEMMA WriterLeaves ==
  ASSUME TypeOK, NEW N \in Nat, NEW R \in Nat, NEW W \in Nat,
         NEW T \in [Procs -> Nat], Counters(N, R, W, T),
         NEW p \in Procs, UnlockWriter(p)
  PROVE  T[p] = R /\ Counters(N, R + 1, W + 1, T)'
<1>1. /\ pc[p] = "writer" /\ pc' = [pc EXCEPT ![p] = "idle"]
      /\ ticket_active_writer' = Inc(ticket_active_writer)
      /\ ticket_active_reader' = Inc(ticket_active_reader)
      /\ ticket' = ticket /\ ticket_next' = ticket_next
  BY DEF UnlockWriter, Goto
<1>2. p \in Pending /\ T[p] = R /\ W = R /\ T[p] < N
  BY <1>1 DEF Counters, Pending
<1>3. /\ ticket_active_writer' = (W + 1) % TICKETS
      /\ ticket_active_reader' = (R + 1) % TICKETS
  BY <1>1, ModInc, TicketsAssumption DEF Counters, Inc
<1>4. Active' = Active \ {p} /\ p \in Active /\ Pending' = Pending \ {p}
  BY <1>1 DEF Active, Pending, TypeOK
<1>5. Inside' = Inside
  BY <1>1 DEF Inside, At, TypeOK
<1>6. Cardinality(Active') = N - (W + 1)
  <2>1. Cardinality(Active \ {p}) = Cardinality(Active) - 1
    BY <1>4, Small, FS_RemoveElement
  <2> QED
    BY <2>1, <1>4 DEF Counters
<1>7. \A q \in Pending' : R + 1 <= T[q] /\ T[q] < N
  <2> SUFFICES ASSUME NEW q \in Pending' PROVE R + 1 <= T[q] /\ T[q] < N
    OBVIOUS
  <2>1. q \in Pending /\ q # p
    BY <1>4
  <2>2. R <= T[q] /\ T[q] < N /\ T[q] # R /\ T[q] \in Nat
    BY <2>1, <1>2 DEF Counters, Pending
  <2> QED
    BY <2>2
<1>8. \A q \in Procs : pc'[q] # "passed" /\ pc'[q] # "writer"
  <2> SUFFICES ASSUME NEW q \in Procs, q # p
               PROVE  pc[q] # "passed" /\ pc[q] # "writer"
    BY <1>1 DEF TypeOK
  <2>1. pc[q] \in {"passed", "writer"} => q \in Pending /\ T[q] = R
    BY DEF Counters, Pending
  <2> QED
    BY <2>1, <1>2 DEF Counters
<1>9. /\ W + 1 <= R + 1 /\ R + 1 <= N
      /\ Cardinality(Inside') = (R + 1) - (W + 1)
      /\ ticket_next' = N % TICKETS
      /\ \A q \in Procs : ticket'[q] = T[q] % TICKETS
      /\ \A q, r \in Pending' : T[q] = T[r] => q = r
  BY <1>1, <1>2, <1>4, <1>5 DEF Counters
<1>10. Counters(N, R + 1, W + 1, T)'
  BY <1>3, <1>6, <1>7, <1>8, <1>9 DEF Counters
<1> QED
  BY <1>2, <1>10

-----------------------------------------------------------------------------
(***************************************************************************)
(* The invariant, and what follows from it.                                *)
(***************************************************************************)
\* Every step keeps the invariant.
LEMMA StepIInv == IInv /\ [Next]_vars => IInv'
<1> SUFFICES ASSUME IInv, [Next]_vars PROVE IInv'
  OBVIOUS
<1>1. TypeOK /\ TypeOK'
  BY TypeStep DEF IInv
<1>2. PICK N \in Nat, R \in Nat, W \in Nat, T \in [Procs -> Nat] :
        Counters(N, R, W, T)
  BY DEF IInv
<1> SUFFICES \E n, r, w \in Nat, t \in [Procs -> Nat] : Counters(n, r, w, t)'
  BY <1>1 DEF IInv
<1>3. CASE UNCHANGED vars
  <2>1. Counters(N, R, W, T)'
    BY <1>2, <1>3 DEF Counters, vars, tickets, Active, Inside, At, Pending
  <2> QED
    BY <2>1
<1>4. CASE Next
  <2>1. PICK p \in Procs : LockWriter(p) \/ LockReader(p) \/ Step(p)
    BY <1>4 DEF Next
  <2>2. CASE LockWriter(p) \/ LockReader(p)
    <3>1. Counters(N + 1, R, W, [T EXCEPT ![p] = N])'
      BY <1>1, <1>2, <2>2, Asks
    <3>2. N + 1 \in Nat /\ [T EXCEPT ![p] = N] \in [Procs -> Nat]
      OBVIOUS
    <3> QED
      BY <3>1, <3>2
  <2>3. CASE WriterEnters(p)
    BY <1>1, <1>2, <2>3, WriterIsNext
  <2>4. CASE UnlockWriter(p)
    <3>1. Counters(N, R + 1, W + 1, T)'
      BY <1>1, <1>2, <2>4, WriterLeaves
    <3>2. R + 1 \in Nat /\ W + 1 \in Nat
      OBVIOUS
    <3> QED
      BY <3>1, <3>2
  <2>5. CASE ReaderEnters(p)
    BY <1>1, <1>2, <2>5, ReaderIsNext
  <2>6. CASE LetNextIn(p)
    <3>1. Counters(N, R + 1, W, T)'
      BY <1>1, <1>2, <2>6, LetsIn
    <3>2. R + 1 \in Nat
      OBVIOUS
    <3> QED
      BY <3>1, <3>2
  <2>7. CASE UnlockReader(p)
    <3>1. Counters(N, R, W + 1, T)'
      BY <1>1, <1>2, <2>7, ReaderLeaves
    <3>2. W + 1 \in Nat
      OBVIOUS
    <3> QED
      BY <3>1, <3>2
  <2> QED
    BY <2>1, <2>2, <2>3, <2>4, <2>5, <2>6, <2>7 DEF Step
<1> QED
  BY <1>3, <1>4

\* The counters behind the tickets exist in every state.
THEOREM Invariance == Spec => []IInv
  BY InitIInv, StepIInv, PTL DEF Spec

\* A writer has the ticket that is let in next, and all before it are given
\* back.
LEMMA IInvExclusion == IInv => Exclusion
<1> SUFFICES ASSUME IInv, NEW p \in Writers
             PROVE  Writers = {p} /\ Readers = {}
  BY DEF Exclusion
<1>1. PICK N \in Nat, R \in Nat, W \in Nat, T \in [Procs -> Nat] :
        Counters(N, R, W, T)
  BY DEF IInv
<1>2. p \in Procs /\ pc[p] = "writer" /\ p \in Pending /\ T[p] = R /\ W = R
  BY <1>1 DEF Writers, At, Counters, Pending
<1>3. Inside = {}
  <2>1. Cardinality(Inside) = 0
    BY <1>1, <1>2 DEF Counters
  <2> QED
    BY <2>1, Small, FS_EmptySet
<1>4. \A q \in Procs : pc[q] = "passed" \/ pc[q] = "writer" => q = p
  BY <1>1, <1>2 DEF Counters, Pending
<1> QED
  BY <1>2, <1>3, <1>4 DEF Writers, Readers, Inside, At

\* The tickets stay bytes, in every behaviour.
THEOREM TypeCorrect == Spec => []TypeOK
<1>1. IInv => TypeOK
  BY DEF IInv
<1> QED
  BY Invariance, <1>1, PTL

\* "Only one thread or process can write at one time", and nobody reads
\* meanwhile: shf_rw_lock_writer and shf_rw_lock_reader exclude each other,
\* for any number of tickets and up to as many processes.
THEOREM MutualExclusion == Spec => []Exclusion
  BY Invariance, IInvExclusion, PTL

(***************************************************************************)
(* The promise.                                                            *)
(***************************************************************************)
\* Who waits, in the order of the counters.
Sorted(T) == {x \in Waiting \X Waiting : T[x[1]] < T[x[2]]}

\* The distance of tickets orders who waits as the counters do.
LEMMA BeforeIsSorted ==
  \A N, R, W \in Nat, T \in [Procs -> Nat] :
    Counters(N, R, W, T) => Before = Sorted(T)
<1> SUFFICES ASSUME NEW N \in Nat, NEW R \in Nat, NEW W \in Nat,
                    NEW T \in [Procs -> Nat], Counters(N, R, W, T)
             PROVE  Before = Sorted(T)
  OBVIOUS
<1>1. \A p \in Waiting : Ahead(ticket[p]) = T[p] - R
  <2> SUFFICES ASSUME NEW p \in Waiting PROVE Ahead(ticket[p]) = T[p] - R
    OBVIOUS
  <2>1. p \in Pending /\ p \in Procs
    BY DEF Waiting, At, Pending
  <2>2. R <= T[p] /\ T[p] < R + TICKETS /\ T[p] \in Nat
    BY <2>1, Small, TicketsAssumption DEF Counters
  <2>3. ((T[p] % TICKETS) - (R % TICKETS)) % TICKETS = T[p] - R
    BY <2>2, ModDiff, TicketsAssumption
  <2> QED
    BY <2>1, <2>3 DEF Counters, Ahead
<1>2. Waiting \subseteq Procs
  BY DEF Waiting, At
<1>3. \A p, q \in Waiting :
        Ahead(ticket[p]) < Ahead(ticket[q]) <=> T[p] < T[q]
  BY <1>1, <1>2
<1> QED
  BY <1>3 DEF Before, Sorted

\* The same, after a step.
LEMMA BeforeWillBeSorted ==
  \A N, R, W \in Nat, T \in [Procs -> Nat] :
    Counters(N, R, W, T)' => Before' = Sorted(T)'
<1>1. (\A N, R, W \in Nat, T \in [Procs -> Nat] :
         Counters(N, R, W, T) => Before = Sorted(T))'
  BY BeforeIsSorted, PTL
<1> QED
  BY <1>1

\* The promise sees the same processes wait.
LEMMA WhoWaits ==
  TypeOK => /\ Promise!WhoWait = Waiting
            /\ \A p \in Procs : Wants[p] = "none" <=> p \notin Waiting
  BY DEF TypeOK, Promise!WhoWait, Wants, Waiting, At

\* Taking a ticket is asking.
LEMMA AskStep ==
  ASSUME IInv, NEW p \in Procs, NEW kind \in {"read", "write"},
         (LockWriter(p) /\ kind = "write") \/ (LockReader(p) /\ kind = "read")
  PROVE  Promise!Ask(p, kind)
<1>1. PICK N \in Nat, R \in Nat, W \in Nat, T \in [Procs -> Nat] :
        Counters(N, R, W, T)
  BY DEF IInv
<1> DEFINE U == [T EXCEPT ![p] = N]
<1>2. TypeOK
  BY DEF IInv
<1>3. Counters(N + 1, R, W, U)'
  BY <1>1, <1>2, Asks
<1>4. Before = Sorted(T) /\ Before' = Sorted(U)'
  <2>1. N + 1 \in Nat /\ U \in [Procs -> Nat]
    OBVIOUS
  <2> QED
    BY <1>1, <1>3, <2>1, BeforeIsSorted, BeforeWillBeSorted
<1>5. PICK to \in {"spin_writer", "spin_reader"} :
        /\ pc[p] = "idle" /\ pc' = [pc EXCEPT ![p] = to]
        /\ to = "spin_writer" <=> kind = "write"
  BY DEF LockWriter, LockReader, Goto
<1>6. Waiting' = Waiting \cup {p} /\ p \notin Waiting
  BY <1>2, <1>5 DEF Waiting, At, TypeOK
<1>7. \A q \in Waiting : q \in Procs /\ T[q] < N /\ q # p
  BY <1>1, <1>6 DEF Waiting, At, Counters, Pending
<1>8. Sorted(U)' = Sorted(T) \cup (Waiting \X {p})
  <2>1. U[p] = N /\ \A q \in Waiting : U[q] = T[q] /\ T[q] \in Nat
    BY <1>7
  <2>2. \A q, r \in Waiting \cup {p} :
          U[q] < U[r] <=> \/ q \in Waiting /\ r \in Waiting /\ T[q] < T[r]
                          \/ q \in Waiting /\ r = p
    BY <2>1, <1>7, <1>6
  <2> HIDE DEF U
  <2> QED
    BY <2>2, <1>6 DEF Sorted
<1>9. Wants' = [Wants EXCEPT ![p] = kind]
  BY <1>2, <1>5 DEF Wants, TypeOK
<1>10. Readers' = Readers /\ Writers' = Writers /\ p \notin Readers \cup Writers
  BY <1>2, <1>5 DEF Readers, Writers, At, TypeOK
<1>11. Wants[p] = "none" /\ Promise!WhoWait = Waiting
  BY <1>2, <1>6, WhoWaits
<1> QED
  BY <1>4, <1>8, <1>9, <1>10, <1>11 DEF Promise!Ask

\* Who enters is served: it has the smallest counter of those who wait.
LEMMA ServedStep ==
  ASSUME TypeOK, NEW p \in Procs, NEW to \in {"writer", "passed"},
         pc[p] \in {"spin_writer", "spin_reader"},
         pc' = [pc EXCEPT ![p] = to],
         NEW N \in Nat, NEW R \in Nat, NEW W \in Nat,
         NEW T \in [Procs -> Nat],
         Counters(N, R, W, T), Counters(N, R, W, T)', T[p] = R
  PROVE  Promise!Served(p)
<1>1. Before = Sorted(T) /\ Before' = Sorted(T)'
  BY BeforeIsSorted, BeforeWillBeSorted
<1>2. Waiting' = Waiting \ {p} /\ p \in Waiting /\ Waiting \subseteq Procs
  BY DEF Waiting, At, TypeOK
<1>3. \A q \in Waiting : R <= T[q] /\ T[q] \in Nat
  BY DEF Waiting, At, Counters, Pending
<1>4. \A q \in Procs : <<q, p>> \notin Sorted(T)
  BY <1>2, <1>3 DEF Sorted
<1>5. Sorted(T)' = Sorted(T) \ ({p} \X Procs)
  <2>1. \A x \in Waiting \X Waiting : T[x[1]] < T[x[2]] => x[2] # p
    BY <1>2, <1>3
  <2> QED
    BY <2>1, <1>2 DEF Sorted
<1>6. Wants' = [Wants EXCEPT ![p] = "none"]
  BY DEF Wants, TypeOK
<1> QED
  BY <1>1, <1>4, <1>5, <1>6 DEF Promise!Served

\* A writer that enters was the first to ask and finds nobody inside.
LEMMA WriteStep ==
  ASSUME IInv, NEW p \in Procs, WriterEnters(p)
  PROVE  Promise!LetWrite(p)
<1>1. PICK N \in Nat, R \in Nat, W \in Nat, T \in [Procs -> Nat] :
        Counters(N, R, W, T)
  BY DEF IInv
<1>2. TypeOK
  BY DEF IInv
<1>3. T[p] = R /\ W = R /\ Counters(N, R, W, T)'
  BY <1>1, <1>2, WriterIsNext
<1>4. pc[p] = "spin_writer" /\ pc' = [pc EXCEPT ![p] = "writer"]
  BY DEF WriterEnters, Goto
<1>5. Promise!Served(p)
  BY <1>1, <1>2, <1>3, <1>4, ServedStep
<1>6. Inside = {}
  <2>1. Cardinality(Inside) = 0
    BY <1>1, <1>3 DEF Counters
  <2> QED
    BY <2>1, Small, FS_EmptySet
<1>7. \A q \in Procs : pc[q] # "passed" /\ pc[q] # "writer"
  BY <1>1, <1>3, <1>4 DEF Counters, Pending
<1>8. Readers = {} /\ Writers = {}
  BY <1>6, <1>7 DEF Readers, Writers, Inside, At
<1>9. Readers' = Readers /\ Writers' = {p}
  BY <1>2, <1>4, <1>7 DEF Readers, Writers, At, TypeOK
<1>10. Wants[p] = "write"
  BY <1>4 DEF Wants
<1> QED
  BY <1>5, <1>8, <1>9, <1>10 DEF Promise!LetWrite

\* A reader that enters was the first to ask and finds no writer inside.
LEMMA ReadStep ==
  ASSUME IInv, NEW p \in Procs, ReaderEnters(p)
  PROVE  Promise!LetRead(p)
<1>1. PICK N \in Nat, R \in Nat, W \in Nat, T \in [Procs -> Nat] :
        Counters(N, R, W, T)
  BY DEF IInv
<1>2. TypeOK
  BY DEF IInv
<1>3. T[p] = R /\ Counters(N, R, W, T)'
  BY <1>1, <1>2, ReaderIsNext
<1>4. pc[p] = "spin_reader" /\ pc' = [pc EXCEPT ![p] = "passed"]
  BY DEF ReaderEnters, Goto
<1>5. Promise!Served(p)
  BY <1>1, <1>2, <1>3, <1>4, ServedStep
<1>6. \A q \in Procs : pc[q] # "writer"
  BY <1>1, <1>3, <1>4 DEF Counters, Pending
<1>7. Writers = {} /\ Writers' = {}
  BY <1>2, <1>4, <1>6 DEF Writers, At, TypeOK
<1>8. Readers' = Readers \cup {p}
  BY <1>2, <1>4 DEF Readers, At, TypeOK
<1>9. Wants[p] = "read"
  BY <1>4 DEF Wants
<1> QED
  BY <1>5, <1>7, <1>8, <1>9 DEF Promise!LetRead

\* When only the readers' counter or a process inside moves, who waits and
\* in which order stays.
LEMMA OrderStays ==
  ASSUME TypeOK, NEW p \in Procs, NEW to \in {"reader", "idle"},
         pc[p] \in {"passed", "reader", "writer"},
         pc' = [pc EXCEPT ![p] = to],
         NEW N \in Nat, NEW R \in Nat, NEW W \in Nat,
         NEW S \in Nat, NEW V \in Nat, NEW T \in [Procs -> Nat],
         Counters(N, R, W, T), Counters(N, S, V, T)'
  PROVE  Wants' = Wants /\ Before' = Before
<1>1. Before = Sorted(T) /\ Before' = Sorted(T)'
  BY BeforeIsSorted, BeforeWillBeSorted
<1>2. Waiting' = Waiting
  BY DEF Waiting, At, TypeOK
<1>3. Sorted(T)' = Sorted(T)
  BY <1>2 DEF Sorted
<1>4. Wants' = Wants
  BY DEF Wants, TypeOK
<1> QED
  BY <1>1, <1>3, <1>4

\* Every step is a step of the promise or leaves what it sees.
LEMMA PromiseStep ==
  IInv /\ [Next]_vars => [Promise!Next]_(Promise!promiseVars)
<1> SUFFICES ASSUME IInv, [Next]_vars
             PROVE  Promise!Next \/ UNCHANGED Promise!promiseVars
  OBVIOUS
<1>1. PICK N \in Nat, R \in Nat, W \in Nat, T \in [Procs -> Nat] :
        Counters(N, R, W, T)
  BY DEF IInv
<1>2. TypeOK
  BY DEF IInv
<1>3. CASE UNCHANGED vars
  BY <1>3 DEF vars, tickets, Promise!promiseVars, Wants, Before, Readers,
              Writers, Waiting, At, Ahead
<1>4. CASE Next
  <2>1. PICK p \in Procs : LockWriter(p) \/ LockReader(p) \/ Step(p)
    BY <1>4 DEF Next
  <2>2. CASE LockWriter(p)
    <3>1. Promise!Ask(p, "write")
      BY <2>2, AskStep
    <3> QED
      BY <3>1 DEF Promise!Next
  <2>3. CASE LockReader(p)
    <3>1. Promise!Ask(p, "read")
      BY <2>3, AskStep
    <3> QED
      BY <3>1 DEF Promise!Next
  <2>4. CASE WriterEnters(p)
    BY <2>4, WriteStep DEF Promise!Next
  <2>5. CASE ReaderEnters(p)
    BY <2>5, ReadStep DEF Promise!Next
  <2>6. CASE LetNextIn(p)
    <3>1. Counters(N, R + 1, W, T)' /\ R + 1 \in Nat
      BY <1>1, <1>2, <2>6, LetsIn
    <3>2. pc[p] = "passed" /\ pc' = [pc EXCEPT ![p] = "reader"]
      BY <2>6 DEF LetNextIn, Goto
    <3>3. Wants' = Wants /\ Before' = Before
      BY <1>1, <1>2, <3>1, <3>2, OrderStays
    <3>4. Readers' = Readers /\ Writers' = Writers
      BY <1>2, <3>2 DEF Readers, Writers, At, TypeOK
    <3> QED
      BY <3>3, <3>4 DEF Promise!promiseVars
  <2>7. CASE UnlockWriter(p)
    <3>1. Counters(N, R + 1, W + 1, T)' /\ R + 1 \in Nat /\ W + 1 \in Nat
      BY <1>1, <1>2, <2>7, WriterLeaves
    <3>2. pc[p] = "writer" /\ pc' = [pc EXCEPT ![p] = "idle"]
      BY <2>7 DEF UnlockWriter, Goto
    <3>3. Wants' = Wants /\ Before' = Before
      BY <1>1, <1>2, <3>1, <3>2, OrderStays
    <3>4. /\ p \in Readers \cup Writers
          /\ Readers' = Readers \ {p} /\ Writers' = Writers \ {p}
      BY <1>2, <3>2 DEF Readers, Writers, At, TypeOK
    <3>5. Promise!Leave(p)
      BY <3>3, <3>4 DEF Promise!Leave
    <3> QED
      BY <3>5 DEF Promise!Next
  <2>8. CASE UnlockReader(p)
    <3>1. Counters(N, R, W + 1, T)' /\ W + 1 \in Nat
      BY <1>1, <1>2, <2>8, ReaderLeaves
    <3>2. pc[p] = "reader" /\ pc' = [pc EXCEPT ![p] = "idle"]
      BY <2>8 DEF UnlockReader, Goto
    <3>3. Wants' = Wants /\ Before' = Before
      BY <1>1, <1>2, <3>1, <3>2, OrderStays
    <3>4. /\ p \in Readers \cup Writers
          /\ Readers' = Readers \ {p} /\ Writers' = Writers \ {p}
      BY <1>2, <3>2 DEF Readers, Writers, At, TypeOK
    <3>5. Promise!Leave(p)
      BY <3>3, <3>4 DEF Promise!Leave
    <3> QED
      BY <3>5 DEF Promise!Next
  <2> QED
    BY <2>1, <2>2, <2>3, <2>4, <2>5, <2>6, <2>7, <2>8 DEF Step
<1> QED
  BY <1>3, <1>4

\* The ticket lock of shf.lock.h implements the lock that shf.h documents:
\* readers together, a writer alone, everybody in the order of asking.
THEOREM LockKeepsPromise == Spec => FirstComeFirstServed
<1>1. Init => Promise!Init
  BY DEF Init, Promise!Init, Wants, Before, Readers, Writers, Waiting, At
<1> QED
  BY <1>1, PromiseStep, Invariance, PTL
     DEF Spec, FirstComeFirstServed, Promise!Spec
=============================================================================
